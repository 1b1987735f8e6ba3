-------------------------- MODULE NativeDomainProofs ------------------------
(***************************************************************************)
(* The safety of the native ownership domain for every set of threads and  *)
(* every width of the generation counter.                                  *)
(*                                                                         *)
(* The state properties are not inductive one by one: that the thread in   *)
(* native code stays the owner needs that the owner is the only bound      *)
(* thread, which needs that it carries the only permit, which needs that a *)
(* permit and the reservation stand for each other.  IInv joins them.      *)
(***************************************************************************)
EXTENDS NativeDomain, TLAPS

PermitPart ==
  /\ reserved <= next
  /\ PermitMatchesReservation
  /\ \A t \in Threads : pc[t] \in Bound \cup Guarded => permit[t] # NoGen

OwnerPart ==
  /\ \A t \in Threads : owner = t <=> pc[t] \in Bound
  /\ \A t \in Threads :
       /\ pc[t] \in Bound => active[t] = reserved
       /\ pc[t] \notin Bound => active[t] = NoGen

NativePart == \A t \in inNative : pc[t] \in Bound

IInv == TypeOK /\ PermitPart /\ OwnerPart /\ NativePart /\ NoLostRelease

(* The initial state satisfies the inductive invariant.                    *)
LEMMA InitIInv == Init => IInv
<1> SUFFICES ASSUME Init PROVE IInv
  OBVIOUS
<1>1. TypeOK
  BY GenerationAssumption DEF Init, TypeOK, NoGen, PCs
<1>2. PermitPart
  BY DEF Init, PermitPart, PermitMatchesReservation, NoGen, Bound, Guarded
<1>3. OwnerPart
  BY ThreadsAssumption DEF Init, OwnerPart, NoGen, Bound
<1>4. NativePart /\ NoLostRelease
  BY DEF Init, NativePart, NoLostRelease
<1>5. QED
  BY <1>1, <1>2, <1>3, <1>4 DEF IInv

(* Taking a reservation: the new generation is the only permit.            *)
LEMMA ReserveStep ==
  ASSUME NEW t \in Threads, IInv, Reserve(t),
         UNCHANGED <<owner, active, inNative>>,
         pc[t] \notin Bound,
         \/ UNCHANGED pc
         \/ pc' = [pc EXCEPT ![t] = "entering"]
  PROVE  IInv'
<1> USE GenerationAssumption DEF IInv, Reserve, NoGen
<1>1. TypeOK'
  BY DEF TypeOK, PCs, Guarded
<1>2. PermitPart'
  BY DEF TypeOK, PermitPart, PermitMatchesReservation, Bound, Guarded
<1>3. OwnerPart'
  BY DEF TypeOK, PermitPart, PermitMatchesReservation, OwnerPart, Bound, Guarded
<1>4. NativePart'
  BY DEF TypeOK, OwnerPart, NativePart, Bound
<1>5. NoLostRelease'
  BY DEF TypeOK, NoLostRelease
<1>6. QED
  BY <1>1, <1>2, <1>3, <1>4, <1>5

(* Binding a permit: its carrier becomes the only bound thread.            *)
LEMMA BindStep ==
  ASSUME NEW t \in Threads, IInv, Bind(t),
         UNCHANGED <<next, reserved, permit, inNative>>,
         NEW target \in Bound,
         pc' = [pc EXCEPT ![t] = target]
  PROVE  IInv'
<1> USE DEF IInv, Bind, NoGen
<1>1. TypeOK'
  BY DEF TypeOK, PCs, Guarded, Bound
<1>2. PermitPart'
  BY DEF TypeOK, PermitPart, PermitMatchesReservation, Bound, Guarded
<1>3. OwnerPart'
  BY ThreadsAssumption DEF TypeOK, OwnerPart, Bound
<1>4. NativePart' /\ NoLostRelease'
  BY DEF TypeOK, NativePart, NoLostRelease, Bound
<1>5. QED
  BY <1>1, <1>2, <1>3, <1>4

(* Unbinding: nobody is bound and the permit stays with its carrier.       *)
LEMMA UnbindStep ==
  ASSUME NEW t \in Threads, IInv, Unbind(t),
         UNCHANGED <<next, reserved, permit, inNative>>,
         NEW target \in {"idle", "releasing"},
         pc' = [pc EXCEPT ![t] = target]
  PROVE  IInv'
<1> USE DEF IInv, Unbind, NoGen
<1>1. TypeOK'
  BY GenerationAssumption DEF TypeOK, PCs, Guarded
<1>2. PermitPart'
  BY DEF TypeOK, PermitPart, PermitMatchesReservation, OwnerPart, Bound, Guarded
<1>3. OwnerPart'
  BY ThreadsAssumption DEF TypeOK, OwnerPart, Bound
<1>4. NativePart' /\ NoLostRelease'
  BY DEF TypeOK, NativePart, NoLostRelease, Bound
<1>5. QED
  BY <1>1, <1>2, <1>3, <1>4

(* Releasing: no permit is left and every parked destructor is woken.      *)
LEMMA ReleaseStep ==
  ASSUME NEW t \in Threads, IInv, ReleaseAndNotify(t),
         UNCHANGED <<next, owner, active, inNative>>
  PROVE  IInv'
<1> USE DEF IInv, ReleaseAndNotify, NoGen
<1>1. TypeOK'
  BY GenerationAssumption DEF TypeOK, PCs, Destroying
<1>2. \A u \in Threads : permit'[u] = NoGen /\ pc[u] \notin Bound
  BY ThreadsAssumption
     DEF TypeOK, PermitPart, PermitMatchesReservation, OwnerPart
<1>3. PermitPart'
  <2>1. \A u \in Threads \ {t} : pc[u] \notin Guarded
    BY DEF PermitPart, PermitMatchesReservation
  <2>2. \A u \in Threads : pc'[u] \notin Bound \cup Guarded
    BY <1>2, <2>1 DEF TypeOK, Bound, Guarded
  <2>3. QED
    BY <1>2, <2>2 DEF TypeOK, PermitPart, PermitMatchesReservation
<1>4. OwnerPart'
  BY <1>2 DEF TypeOK, OwnerPart, Bound
<1>5. NativePart' /\ NoLostRelease'
  BY <1>2 DEF TypeOK, NativePart, NoLostRelease
<1>6. QED
  BY <1>1, <1>3, <1>4, <1>5

(* Every step of the domain keeps the inductive invariant.                 *)
LEMMA NextIInv == IInv /\ [Next]_vars => IInv'
<1> SUFFICES ASSUME IInv, [Next]_vars PROVE IInv'
  OBVIOUS
<1>1. ASSUME NEW t \in Threads, TryAcquire(t) \/ GuardReserve(t) \/ DestroyAcquired(t)
      PROVE  IInv'
  BY <1>1, ReserveStep DEF TryAcquire, GuardReserve, DestroyAcquired, Bound
<1>2. ASSUME NEW t \in Threads, Enter(t) \/ GuardBind(t)
      PROVE  IInv'
  BY <1>2, BindStep DEF Enter, GuardBind, Bound
<1>3. ASSUME NEW t \in Threads, DropExecutionGuard(t) \/ GuardUnbind(t)
      PROVE  IInv'
  BY <1>3, UnbindStep DEF DropExecutionGuard, GuardUnbind
<1>4. ASSUME NEW t \in Threads, DropPermit(t) \/ GuardRelease(t)
      PROVE  IInv'
  BY <1>4, ReleaseStep DEF DropPermit, GuardRelease
<1>5. ASSUME NEW t \in Threads, NEW u \in Threads, HandOver(t, u)
      PROVE  IInv'
  <2> USE <1>5 DEF IInv, HandOver, NoGen
  <2>1. TypeOK'
    BY GenerationAssumption DEF TypeOK
  <2>2. PermitPart'
    BY DEF TypeOK, PermitPart, PermitMatchesReservation, Bound, Guarded
  <2>3. OwnerPart' /\ NativePart' /\ NoLostRelease'
    BY DEF OwnerPart, NativePart, NoLostRelease
  <2>4. QED
    BY <2>1, <2>2, <2>3
<1>6. ASSUME NEW t \in Threads,
             \/ BeginDestroy(t) \/ DestroyBusy(t)
             \/ DestroyExhausted(t) \/ DestroyWait(t)
      PROVE  IInv'
  <2> DEFINE moved == IF pc[t] = "idle" THEN "destroy" ELSE pc'[t]
  <2>1. /\ pc[t] \in {"idle"} \cup Destroying
        /\ moved \in {"idle"} \cup Destroying
        /\ pc' = [pc EXCEPT ![t] = moved]
        /\ moved = "asleep" => reserved # NoGen
        /\ UNCHANGED <<next, reserved, owner, active, permit, inNative>>
    BY <1>6 DEF IInv, TypeOK, BeginDestroy, DestroyBusy, DestroyExhausted,
                DestroyWait, Destroying
  <2> HIDE DEF moved
  <2> USE <2>1 DEF IInv
  <2>2. TypeOK'
    BY DEF TypeOK, PCs
  <2>3. PermitPart' /\ OwnerPart'
    BY DEF TypeOK, PermitPart, PermitMatchesReservation, OwnerPart,
           Bound, Guarded, Destroying
  <2>4. NativePart' /\ NoLostRelease'
    BY DEF TypeOK, NativePart, NoLostRelease, Bound, Destroying
  <2>5. QED
    BY <2>2, <2>3, <2>4
<1>7. ASSUME NEW t \in Threads, BeginNative(t) \/ EndNative(t)
      PROVE  IInv'
  <2> USE <1>7 DEF IInv, BeginNative, EndNative, AssertCurrent
  <2>1. TypeOK' /\ PermitPart' /\ NoLostRelease'
    BY DEF TypeOK, PermitPart, PermitMatchesReservation, NoLostRelease
  <2>2. OwnerPart' /\ NativePart'
    BY DEF OwnerPart, NativePart
  <2>3. QED
    BY <2>1, <2>2
<1>8. CASE UNCHANGED vars
  BY <1>8 DEF vars, IInv, TypeOK, PermitPart, PermitMatchesReservation,
              OwnerPart, NativePart, NoLostRelease
<1>9. QED
  BY <1>1, <1>2, <1>3, <1>4, <1>5, <1>6, <1>7, <1>8 DEF Next

(* The inductive invariant holds in every reachable state.                 *)
THEOREM DomainInvariant == Spec => []IInv
  BY InitIInv, NextIInv, PTL DEF Spec

-----------------------------------------------------------------------------
(* The record of the domain and the thread-locals keep their types.        *)
THEOREM DomainTypes == Spec => []TypeOK
<1>1. IInv => TypeOK
  BY DEF IInv
<1>2. QED
  BY <1>1, DomainInvariant, PTL

(* At most one thread is inside native code, as the bound owner of the     *)
(* live generation, however permits travel and destructors compete.        *)
THEOREM DomainExclusive == Spec => []ExclusiveNative
<1>1. IInv => ExclusiveNative
  <2> SUFFICES ASSUME IInv, NEW t \in inNative
               PROVE  /\ inNative = {t}
                      /\ owner = t
                      /\ reserved # NoGen /\ active[t] = reserved
    BY DEF ExclusiveNative
  <2>1. \A u \in inNative : u \in Threads /\ owner = u /\ pc[u] \in Bound
    BY DEF IInv, TypeOK, NativePart, OwnerPart
  <2>2. active[t] = reserved /\ permit[t] # NoGen /\ permit[t] = reserved
    BY <2>1 DEF IInv, OwnerPart, PermitPart, PermitMatchesReservation
  <2>3. QED
    BY <2>1, <2>2
<1>2. QED
  BY <1>1, DomainInvariant, PTL

(* A reservation and its permit value come and go together.                *)
THEOREM DomainPermits == Spec => []PermitMatchesReservation
<1>1. IInv => PermitMatchesReservation
  BY DEF IInv, PermitPart
<1>2. QED
  BY <1>1, DomainInvariant, PTL

(* No thread-local capability outlives its binding.                        *)
THEOREM DomainCapabilities == Spec => []CapabilityIsLive
<1>1. IInv => CapabilityIsLive
  <2> SUFFICES ASSUME IInv, NEW t \in Threads
               PROVE  /\ active[t] # NoGen <=> owner = t
                      /\ owner = t => /\ active[t] = permit[t]
                                      /\ permit[t] = reserved
                                      /\ pc[t] \in Bound
    BY DEF CapabilityIsLive
  <2>1. CASE pc[t] \in Bound
    BY <2>1 DEF IInv, OwnerPart, PermitPart, PermitMatchesReservation
  <2>2. CASE pc[t] \notin Bound
    BY <2>2 DEF IInv, OwnerPart
  <2>3. QED
    BY <2>1, <2>2
<1>2. QED
  BY <1>1, DomainInvariant, PTL

(* A destructor never sleeps through the release it waits for.             *)
THEOREM DomainWakes == Spec => []NoLostRelease
<1>1. IInv => NoLostRelease
  BY DEF IInv
<1>2. QED
  BY <1>1, DomainInvariant, PTL

(* A generation is never handed out twice.                                 *)
THEOREM DomainFreshness == Spec => GenerationsAreFresh
<1> DEFINE Fresh == reserved' \notin {reserved, NoGen} =>
                      reserved = NoGen /\ reserved' > next /\ next' >= reserved'
<1>1. ASSUME IInv, Next PROVE Fresh
  <2>1. PICK t \in Threads :
          \/ Reserve(t)
          \/ reserved' \in {reserved, NoGen}
    BY <1>1 DEF Next, TryAcquire, HandOver, Enter, Bind, DropExecutionGuard, Unbind,
                DropPermit, ReleaseAndNotify, GuardReserve, GuardBind, GuardUnbind,
                GuardRelease, BeginDestroy, DestroyAcquired, DestroyBusy,
                DestroyExhausted, DestroyWait, BeginNative, EndNative
  <2>2. next \in Nat
    BY <1>1, GenerationAssumption DEF IInv, TypeOK
  <2>3. QED
    BY <2>1, <2>2 DEF Reserve, NoGen
<1>2. IInv /\ [Next]_vars => [Fresh]_vars
  BY <1>1
<1>3. QED
  BY <1>2, DomainInvariant, PTL DEF Spec, GenerationsAreFresh

-----------------------------------------------------------------------------
(***************************************************************************)
(* The refinement: every step of the domain is a step of NativeSession     *)
(* under the mapping, or leaves the session unchanged.                     *)
(***************************************************************************)
(* Under the invariant the session's user is the one thread inside.        *)
LEMMA UserIsTheOneInside ==
  ASSUME IInv
  PROVE  /\ inNative = {} => NativeUser = NoThread
         /\ \A t \in inNative : NativeUser = t /\ inNative = {t}
<1>1. \A t \in inNative : t \in Threads /\ inNative = {t}
  BY DEF IInv, TypeOK, NativePart, OwnerPart
<1>2. QED
  BY <1>1 DEF NativeUser

(* Native code is empty while nobody is bound.                             *)
LEMMA NobodyInside ==
  ASSUME IInv, owner = NoThread
  PROVE  NativeUser = NoThread
<1>1. inNative = {}
  BY ThreadsAssumption DEF IInv, TypeOK, NativePart, OwnerPart
<1>2. QED
  BY <1>1 DEF NativeUser

(* The initial state opens no session.                                     *)
LEMMA SessionInit == Init => Session!Init
  BY DEF Init, Session!Init, NativeUser, NoGen

(* One step of the domain is one step of the session, or a stutter.        *)
LEMMA SessionStep == IInv /\ IInv' /\ [Next]_vars => [Session!Next]_Session!vars
<1> SUFFICES ASSUME IInv, IInv', [Next]_vars
             PROVE  Session!Next \/ UNCHANGED Session!vars
  OBVIOUS
<1>1. ASSUME NEW t \in Threads, Reserve(t), UNCHANGED inNative
      PROVE  Session!Next
  <2>1. next \in Nat /\ next + 1 \in next + 1 .. MaxGeneration
    BY <1>1, GenerationAssumption DEF IInv, TypeOK, Reserve
  <2>2. NativeUser' = NativeUser
    BY <1>1 DEF NativeUser
  <2>3. QED
    BY <1>1, <2>1, <2>2 DEF Reserve, NoGen, Session!Next, Session!Open
<1>2. ASSUME NEW t \in Threads, ReleaseAndNotify(t),
             UNCHANGED <<next, owner, inNative>>
      PROVE  Session!Next
  <2>1. NativeUser = NoThread /\ NativeUser' = NoThread
    BY <1>2, NobodyInside DEF ReleaseAndNotify, NativeUser
  <2>2. QED
    BY <1>2, <2>1 DEF ReleaseAndNotify, NoGen, Session!Next, Session!Close
<1>3. ASSUME NEW t \in Threads, BeginNative(t)
      PROVE  Session!Next
  <2>1. t \in inNative' /\ inNative' = inNative \cup {t} /\ t \notin inNative
        /\ reserved # 0 /\ UNCHANGED <<next, reserved>>
    BY <1>3 DEF BeginNative, AssertCurrent, NoGen
  <2>2. NativeUser' = t /\ inNative' = {t}
    <3>1. \A u \in inNative' : u \in Threads /\ inNative' = {u}
      BY DEF IInv, TypeOK, NativePart, OwnerPart
    <3>2. QED
      BY <2>1, <3>1 DEF NativeUser
  <2>3. inNative = {}
    BY <2>1, <2>2
  <2>4. NativeUser = NoThread
    BY <2>3 DEF NativeUser
  <2>5. QED
    BY <2>1, <2>2, <2>4 DEF Session!Next, Session!Begin
<1>4. ASSUME NEW t \in Threads, EndNative(t)
      PROVE  Session!Next
  <2>1. inNative = {t} /\ NativeUser = t
    BY <1>4, UserIsTheOneInside DEF EndNative
  <2>2. inNative' = {} /\ UNCHANGED <<next, reserved>>
    BY <1>4, <2>1 DEF EndNative
  <2>3. NativeUser' = NoThread
    BY <2>2 DEF NativeUser
  <2>4. QED
    BY <2>1, <2>2, <2>3, ThreadsAssumption DEF Session!Next, Session!End
<1>5. ASSUME UNCHANGED <<next, reserved, inNative>>
      PROVE  UNCHANGED Session!vars
  BY <1>5 DEF NativeUser, Session!vars
<1>6. CASE UNCHANGED vars
  BY <1>5, <1>6 DEF vars
<1>7. CASE Next
  <2>1. PICK t \in Threads :
          \/ Reserve(t) /\ UNCHANGED inNative
          \/ ReleaseAndNotify(t) /\ UNCHANGED <<next, owner, inNative>>
          \/ BeginNative(t)
          \/ EndNative(t)
          \/ UNCHANGED <<next, reserved, inNative>>
    BY <1>7 DEF Next, TryAcquire, HandOver, Enter, DropExecutionGuard, DropPermit,
                GuardReserve, GuardBind, GuardUnbind, GuardRelease, BeginDestroy,
                DestroyAcquired, DestroyBusy, DestroyExhausted, DestroyWait
  <2>2. QED
    BY <2>1, <1>1, <1>2, <1>3, <1>4, <1>5
<1>8. QED
  BY <1>6, <1>7

(* The domain implements numbered exclusive sessions.                      *)
THEOREM DomainImplementsSession == Spec => ImplementsSession
<1>1. Spec => []IInv
  BY DomainInvariant
<1>2. QED
  BY SessionInit, SessionStep, <1>1, PTL DEF Spec, ImplementsSession, Session!Spec
=============================================================================
