---------------------------- MODULE NativeDomain ----------------------------
(***************************************************************************)
(* The process-wide native ownership domain of the engine crate            *)
(* (rebirth-llm/src/domain.rs, decision D-037).  llama.cpp state may be     *)
(* touched by one thread at a time.  A permit reserves the engine, may     *)
(* travel between threads while nothing is bound to it, and lets the       *)
(* thread that enters it obtain raw pointers.  Every raw-pointer gateway   *)
(* runs assert_current, which reads a thread-local generation and compares *)
(* it with the shared record.                                              *)
(*                                                                         *)
(* One action is one critical section of the DOMAIN mutex.                 *)
(* NativeGuard::try_acquire and its drop take the mutex twice, so each is  *)
(* two actions, and other threads run in between.  A guard taken by a      *)
(* thread that is already bound owns no permit and changes nothing here.   *)
(***************************************************************************)
EXTENDS Naturals

CONSTANTS
  Threads,        \* the threads of the process
  NoThread,       \* DOMAIN.owner = None
  MaxGeneration   \* the width of the generation counter (u64::MAX in the code)

ASSUME ThreadsAssumption == NoThread \notin Threads
ASSUME GenerationAssumption == MaxGeneration \in Nat \ {0}

VARIABLES
  next,      \* DOMAIN.next, the last generation handed out
  reserved,  \* DOMAIN.reserved, 0 for None
  owner,     \* DOMAIN.owner
  active,    \* ACTIVE of each thread, 0 for None
  permit,    \* generation of the ExecutionPermit value each thread owns, 0 if none
  pc,        \* where each thread stands in its use of the domain
  inNative   \* the threads between a passed assert_current and the end of the
             \* native call that it authorised

vars == <<next, reserved, owner, active, permit, pc, inNative>>

NoGen == 0
Generations == 1 .. MaxGeneration

(***************************************************************************)
(* "entering" and "releasing" are the gaps inside NativeGuard::try_acquire *)
(* and inside its drop; "destroy", "checking" and "asleep" are for_drop:   *)
(* about to try, about to test the wait_while predicate, parked on         *)
(* RELEASED.                                                               *)
(***************************************************************************)
Bound     == {"bound", "native"}
Guarded   == {"entering", "native", "releasing"}
Destroying == {"destroy", "checking", "asleep"}
PCs == {"idle", "bound"} \cup Guarded \cup Destroying

TypeOK ==
  /\ next \in 0 .. MaxGeneration
  /\ reserved \in 0 .. MaxGeneration
  /\ owner \in Threads \cup {NoThread}
  /\ active \in [Threads -> 0 .. MaxGeneration]
  /\ permit \in [Threads -> 0 .. MaxGeneration]
  /\ pc \in [Threads -> PCs]
  /\ inNative \in SUBSET Threads

Init ==
  /\ next = 0
  /\ reserved = NoGen
  /\ owner = NoThread
  /\ active = [t \in Threads |-> NoGen]
  /\ permit = [t \in Threads |-> NoGen]
  /\ pc = [t \in Threads |-> "idle"]
  /\ inNative = {}

-----------------------------------------------------------------------------
(***************************************************************************)
(* Operators named Mutant... are not part of the system.  Each is the      *)
(* operator defined after it with one plausible defect, and shows that the *)
(* properties notice that defect.                                          *)
(***************************************************************************)
(***************************************************************************)
(* ExecutionPermit::try_acquire.  A reserved domain answers Busy and       *)
(* changes nothing; an exhausted counter panics and changes nothing.       *)
(***************************************************************************)
Reserve(t) ==
  /\ reserved = NoGen
  /\ next < MaxGeneration
  /\ next' = next + 1
  /\ reserved' = next + 1
  /\ permit' = [permit EXCEPT ![t] = next + 1]

(* ExecutionPermit::enter on the permit of t, with its three assertions.   *)
Bind(t) ==
  /\ permit[t] # NoGen
  /\ reserved = permit[t]
  /\ owner = NoThread
  /\ active[t] = NoGen
  /\ active' = [active EXCEPT ![t] = permit[t]]
  /\ owner' = t

(* `let _ = permit.enter()`: the guard is dropped while native code runs.   *)
MutantUnbindUnderCall(t) ==
  /\ reserved = permit[t]
  /\ owner = t
  /\ active[t] = permit[t]
  /\ active' = [active EXCEPT ![t] = NoGen]
  /\ owner' = NoThread

(* unbind, run by the drop of either guard.                                *)
Unbind(t) ==
  /\ t \notin inNative
  /\ reserved = permit[t]
  /\ owner = t
  /\ active[t] = permit[t]
  /\ active' = [active EXCEPT ![t] = NoGen]
  /\ owner' = NoThread

(* The release forgets the parked destructors. *)
MutantReleaseSilently(t) ==
  /\ permit[t] # NoGen
  /\ reserved = permit[t]
  /\ owner = NoThread
  /\ reserved' = NoGen
  /\ permit' = [permit EXCEPT ![t] = NoGen]
  /\ pc' = [pc EXCEPT ![t] = "idle"]

(* The drop of an ExecutionPermit: notify_all moves every parked thread to *)
(* the test of its predicate.  t itself moves to idle.                     *)
ReleaseAndNotify(t) ==
  /\ permit[t] # NoGen
  /\ reserved = permit[t]
  /\ owner = NoThread
  /\ reserved' = NoGen
  /\ permit' = [permit EXCEPT ![t] = NoGen]
  /\ pc' = [u \in Threads |->
              IF u = t THEN "idle"
              ELSE IF pc[u] = "asleep" THEN "checking" ELSE pc[u]]

-----------------------------------------------------------------------------
(* An asynchronous submission takes a free-standing permit.                *)
TryAcquire(t) ==
  /\ pc[t] = "idle"
  /\ Reserve(t)
  /\ UNCHANGED <<owner, active, pc, inNative>>

(* The permit moves with the spawned closure or with the joined result;    *)
(* the borrow held by an ExecutionGuard forbids this while it is bound.    *)
HandOver(t, u) ==
  /\ t # u
  /\ pc[t] = "idle" /\ pc[u] = "idle"
  /\ permit[t] # NoGen /\ permit[u] = NoGen
  /\ permit' = [permit EXCEPT ![t] = NoGen, ![u] = permit[t]]
  /\ UNCHANGED <<next, reserved, owner, active, pc, inNative>>

Enter(t) ==
  /\ pc[t] = "idle"
  /\ Bind(t)
  /\ pc' = [pc EXCEPT ![t] = "bound"]
  /\ UNCHANGED <<next, reserved, permit, inNative>>

DropExecutionGuard(t) ==
  /\ pc[t] = "bound"
  /\ Unbind(t)
  /\ pc' = [pc EXCEPT ![t] = "idle"]
  /\ UNCHANGED <<next, reserved, permit, inNative>>

DropPermit(t) ==
  /\ pc[t] = "idle"
  /\ ReleaseAndNotify(t)
  /\ UNCHANGED <<next, owner, active, inNative>>

(* NativeGuard::try_acquire on a thread that is not bound.                 *)
GuardReserve(t) ==
  /\ pc[t] = "idle"
  /\ Reserve(t)
  /\ pc' = [pc EXCEPT ![t] = "entering"]
  /\ UNCHANGED <<owner, active, inNative>>

GuardBind(t) ==
  /\ pc[t] = "entering"
  /\ Bind(t)
  /\ pc' = [pc EXCEPT ![t] = "native"]
  /\ UNCHANGED <<next, reserved, permit, inNative>>

(* The drop of a NativeGuard that owns its permit.                         *)
GuardUnbind(t) ==
  /\ pc[t] = "native"
  /\ Unbind(t)
  /\ pc' = [pc EXCEPT ![t] = "releasing"]
  /\ UNCHANGED <<next, reserved, permit, inNative>>

GuardRelease(t) ==
  /\ pc[t] = "releasing"
  /\ ReleaseAndNotify(t)
  /\ UNCHANGED <<next, owner, active, inNative>>

-----------------------------------------------------------------------------
(***************************************************************************)
(* NativeGuard::for_drop, on a thread that holds no permit: the drops of   *)
(* AsyncCompletion and AsyncStartFailure bind their permit first, and the  *)
(* R registry defers instead of calling it.                                *)
(***************************************************************************)
BeginDestroy(t) ==
  /\ pc[t] = "idle"
  /\ permit[t] = NoGen
  /\ pc' = [pc EXCEPT ![t] = "destroy"]
  /\ UNCHANGED <<next, reserved, owner, active, permit, inNative>>

DestroyAcquired(t) ==
  /\ pc[t] = "destroy"
  /\ Reserve(t)
  /\ pc' = [pc EXCEPT ![t] = "entering"]
  /\ UNCHANGED <<owner, active, inNative>>

DestroyBusy(t) ==
  /\ pc[t] = "destroy"
  /\ reserved # NoGen
  /\ pc' = [pc EXCEPT ![t] = "checking"]
  /\ UNCHANGED <<next, reserved, owner, active, permit, inNative>>

(* The counter is exhausted: expect() panics out of the loop.               *)
DestroyExhausted(t) ==
  /\ pc[t] = "destroy"
  /\ reserved = NoGen
  /\ next = MaxGeneration
  /\ pc' = [pc EXCEPT ![t] = "idle"]
  /\ UNCHANGED <<next, reserved, owner, active, permit, inNative>>

(* wait_while tests its predicate under the mutex, on the first call and   *)
(* after every wake: park while reserved, otherwise go round the loop.     *)
DestroyWait(t) ==
  /\ pc[t] = "checking"
  /\ pc' = [pc EXCEPT ![t] = IF reserved # NoGen THEN "asleep" ELSE "destroy"]
  /\ UNCHANGED <<next, reserved, owner, active, permit, inNative>>

-----------------------------------------------------------------------------
(* A raw-pointer gateway: assert_current, then the native call.            *)
AssertCurrent(t) ==
  /\ active[t] # NoGen
  /\ reserved = active[t]
  /\ owner = t

BeginNative(t) ==
  /\ t \notin inNative
  /\ AssertCurrent(t)
  /\ inNative' = inNative \cup {t}
  /\ UNCHANGED <<next, reserved, owner, active, permit, pc>>

EndNative(t) ==
  /\ t \in inNative
  /\ inNative' = inNative \ {t}
  /\ UNCHANGED <<next, reserved, owner, active, permit, pc>>

-----------------------------------------------------------------------------
Next ==
  \E t \in Threads :
    \/ TryAcquire(t) \/ Enter(t) \/ DropExecutionGuard(t) \/ DropPermit(t)
    \/ \E u \in Threads : HandOver(t, u)
    \/ GuardReserve(t) \/ GuardBind(t) \/ GuardUnbind(t) \/ GuardRelease(t)
    \/ BeginDestroy(t) \/ DestroyAcquired(t) \/ DestroyBusy(t)
    \/ DestroyExhausted(t) \/ DestroyWait(t)
    \/ BeginNative(t) \/ EndNative(t)

Spec == Init /\ [][Next]_vars

-----------------------------------------------------------------------------
(* Two threads are never inside native code together, and the one that is  *)
(* stays the bound owner of the generation it was admitted under for the   *)
(* whole call, not only at the instant assert_current looked.              *)
ExclusiveNative ==
  \A t \in inNative :
    /\ inNative = {t}
    /\ owner = t
    /\ reserved # NoGen /\ active[t] = reserved

(* The reservation and the permit value stand for each other: while the    *)
(* domain is reserved one thread owns the one permit of that generation,   *)
(* wherever it has travelled; when it is free no permit value survives.    *)
PermitMatchesReservation ==
  /\ \A t \in Threads : permit[t] # NoGen => permit[t] = reserved
  /\ \A t, u \in Threads : permit[t] # NoGen /\ permit[u] # NoGen => t = u
  /\ reserved # NoGen => \E t \in Threads : permit[t] # NoGen

(* No thread keeps a capability of an earlier reservation: ACTIVE is set   *)
(* exactly on the bound owner and holds the live generation, so none of    *)
(* the "stale", "off-thread" and "nested" assertions can fire.             *)
CapabilityIsLive ==
  \A t \in Threads :
    /\ active[t] # NoGen <=> owner = t
    /\ owner = t => /\ active[t] = permit[t] /\ permit[t] = reserved
                    /\ pc[t] \in Bound

(* A destructor parked in for_drop is always waiting for somebody: the     *)
(* notification of the release it waits for cannot have been missed.       *)
NoLostRelease ==
  \A t \in Threads : pc[t] = "asleep" => reserved # NoGen

(* A generation is never handed out twice: every new reservation carries a *)
(* number above all earlier ones.                                          *)
GenerationsAreFresh ==
  [][reserved' \notin {reserved, NoGen} =>
       reserved = NoGen /\ reserved' > next /\ next' >= reserved']_vars

(* The domain implements numbered exclusive sessions: the thread between a *)
(* passed assert_current and the end of its native call is the session's   *)
(* user, the live generation is the session's number.                      *)
NativeUser == IF inNative = {} THEN NoThread ELSE CHOOSE t \in inNative : TRUE

Session == INSTANCE NativeSession
             WITH latest <- next, session <- reserved, user <- NativeUser

ImplementsSession == Session!Spec
=============================================================================
