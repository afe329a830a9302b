------------------------ MODULE CircuitBreakerProofs ------------------------
(* Safety of CircuitBreaker for any set of threads and any configuration. *)
EXTENDS CircuitBreaker, TLAPS

\* transitionTo is only called with a circuit state; "reset" marks Reset.
LockTargets ==
    \A t \in Thread : pc[t] = "lock" => target[t] \in CircuitState

IInv == TypeOK /\ LockTargets /\ TransitionAtomic /\ TripNotLost /\ CloseNotLost

USE DEF GoTo, CallTransitionTo, ReturnFrom, CircuitState, counters,
        SuccessCase, Forgive, EnoughSuccesses, TooManyFailures, LockFree

-----------------------------------------------------------------------------
LEMMA InitInv == Init => IInv
  BY ConfigAssumption, ThreadAssumption
  DEF Init, IInv, TypeOK, Label, LockTargets, TransitionAtomic, TripNotLost, CloseNotLost

\* Stuttering leaves every part of the invariant alone.
LEMMA StutterInv == IInv /\ UNCHANGED vars => IInv'
  BY DEF vars, IInv, TypeOK, LockTargets, TransitionAtomic, TripNotLost, CloseNotLost

\* Types, with what they rest on: the target of a thread that waits for mu.
LEMMA TypeStep == TypeOK /\ LockTargets /\ Next => TypeOK' /\ LockTargets'
<1> SUFFICES ASSUME TypeOK, LockTargets, Next PROVE TypeOK' /\ LockTargets'
  OBVIOUS
<1> USE ConfigAssumption DEF TypeOK, Label, LockTargets
<1>1. CASE Tick
  BY <1>1 DEF Tick, Older
<1>2. ASSUME NEW t \in Thread, Allow(t) \/ CallSucceeds(t) \/ CallFails(t)
      PROVE  TypeOK' /\ LockTargets'
  BY <1>2 DEF Allow, AllowLoad, AllowAfterTimeout, AllowRejects, CallSucceeds, CallFails
<1>3. ASSUME NEW t \in Thread, RecordSuccess(t) PROVE TypeOK' /\ LockTargets'
  BY <1>3 DEF RecordSuccess, RecordSuccessLoad, RecordSuccessStore, RecordSuccessAdd
<1>4. ASSUME NEW t \in Thread, RecordFailure(t) PROVE TypeOK' /\ LockTargets'
  BY <1>4 DEF RecordFailure, RecordFailureStore, RecordFailureLoad, RecordFailureAdd
<1>5. ASSUME NEW t \in Thread, TransitionLock(t) PROVE TypeOK' /\ LockTargets'
  BY <1>5 DEF TransitionLock
<1>6. ASSUME NEW t \in Thread, ResetLock(t) PROVE TypeOK' /\ LockTargets'
  BY <1>6 DEF ResetLock
<1>7. ASSUME NEW t \in Thread, LockedStep(t) PROVE TypeOK' /\ LockTargets'
  BY <1>7 DEF LockedStep, ResetFailures, ResetHalfOpenSuccesses, ResetLastFailure, Unlock
<1>8. QED
  BY <1>1, <1>2, <1>3, <1>4, <1>5, <1>6, <1>7 DEF Next

\* The mutex protects what it should: between the store of a state and the end of
\* the resets that go with it, no other thread is in transitionTo or Reset.
LEMMA AtomicStep == TypeOK /\ LockTargets /\ TransitionAtomic /\ Next => TransitionAtomic'
<1> SUFFICES ASSUME TypeOK, LockTargets, TransitionAtomic, Next PROVE TransitionAtomic'
  OBVIOUS
<1> USE ThreadAssumption DEF TypeOK, Label, LockTargets, TransitionAtomic
<1>1. CASE Tick
  BY <1>1 DEF Tick
<1>2. ASSUME NEW t \in Thread, Allow(t) \/ CallSucceeds(t) \/ CallFails(t)
      PROVE  TransitionAtomic'
  BY <1>2 DEF Allow, AllowLoad, AllowAfterTimeout, AllowRejects, CallSucceeds, CallFails
<1>3. ASSUME NEW t \in Thread, RecordSuccess(t) PROVE TransitionAtomic'
  BY <1>3 DEF RecordSuccess, RecordSuccessLoad, RecordSuccessStore, RecordSuccessAdd
<1>4. ASSUME NEW t \in Thread, RecordFailure(t) PROVE TransitionAtomic'
  BY <1>4 DEF RecordFailure, RecordFailureStore, RecordFailureLoad, RecordFailureAdd
<1>5. ASSUME NEW t \in Thread, TransitionLock(t) PROVE TransitionAtomic'
  BY <1>5 DEF TransitionLock
<1>6. ASSUME NEW t \in Thread, ResetLock(t) PROVE TransitionAtomic'
  BY <1>6 DEF ResetLock
<1>7. ASSUME NEW t \in Thread, LockedStep(t) PROVE TransitionAtomic'
  BY <1>7 DEF LockedStep, ResetFailures, ResetHalfOpenSuccesses, ResetLastFailure, Unlock
<1>8. QED
  BY <1>1, <1>2, <1>3, <1>4, <1>5, <1>6, <1>7 DEF Next

-----------------------------------------------------------------------------
\* The failure count reaches the threshold only in RecordFailure's Add, whose
\* thread then waits to open the circuit, and a closed state is stored only by a
\* thread that goes on to clear the count.
LEMMA TripStep == TypeOK /\ LockTargets /\ TripNotLost /\ Next => TripNotLost'
<1> SUFFICES ASSUME TypeOK, LockTargets, TripNotLost, Next PROVE TripNotLost'
  OBVIOUS
<1> USE ConfigAssumption DEF TypeOK, LockTargets, TripNotLost
<1>1. CASE Tick
  BY <1>1 DEF Tick
<1>2. ASSUME NEW t \in Thread, Allow(t) \/ CallSucceeds(t) \/ CallFails(t)
      PROVE  TripNotLost'
  BY <1>2 DEF Allow, AllowLoad, AllowAfterTimeout, AllowRejects, CallSucceeds, CallFails
<1>3. ASSUME NEW t \in Thread, RecordSuccess(t) PROVE TripNotLost'
  BY <1>3 DEF RecordSuccess, RecordSuccessLoad, RecordSuccessStore, RecordSuccessAdd
<1>4. ASSUME NEW t \in Thread, RecordFailure(t) PROVE TripNotLost'
  BY <1>4 DEF RecordFailure, RecordFailureStore, RecordFailureLoad, RecordFailureAdd
<1>5. ASSUME NEW t \in Thread, TransitionLock(t) PROVE TripNotLost'
  BY <1>5 DEF TransitionLock
<1>6. ASSUME NEW t \in Thread, ResetLock(t) PROVE TripNotLost'
  BY <1>6 DEF ResetLock
<1>7. ASSUME NEW t \in Thread, LockedStep(t) PROVE TripNotLost'
  BY <1>7 DEF LockedStep, ResetFailures, ResetHalfOpenSuccesses, ResetLastFailure, Unlock
<1>8. QED
  BY <1>1, <1>2, <1>3, <1>4, <1>5, <1>6, <1>7 DEF Next

\* The same argument for the half-open count.
LEMMA CloseStep == TypeOK /\ LockTargets /\ CloseNotLost /\ Next => CloseNotLost'
<1> SUFFICES ASSUME TypeOK, LockTargets, CloseNotLost, Next PROVE CloseNotLost'
  OBVIOUS
<1> USE ConfigAssumption DEF TypeOK, LockTargets, CloseNotLost
<1>1. CASE Tick
  BY <1>1 DEF Tick
<1>2. ASSUME NEW t \in Thread, Allow(t) \/ CallSucceeds(t) \/ CallFails(t)
      PROVE  CloseNotLost'
  BY <1>2 DEF Allow, AllowLoad, AllowAfterTimeout, AllowRejects, CallSucceeds, CallFails
<1>3. ASSUME NEW t \in Thread, RecordSuccess(t) PROVE CloseNotLost'
  BY <1>3 DEF RecordSuccess, RecordSuccessLoad, RecordSuccessStore, RecordSuccessAdd
<1>4. ASSUME NEW t \in Thread, RecordFailure(t) PROVE CloseNotLost'
  BY <1>4 DEF RecordFailure, RecordFailureStore, RecordFailureLoad, RecordFailureAdd
<1>5. ASSUME NEW t \in Thread, TransitionLock(t) PROVE CloseNotLost'
  BY <1>5 DEF TransitionLock
<1>6. ASSUME NEW t \in Thread, ResetLock(t) PROVE CloseNotLost'
  BY <1>6 DEF ResetLock
<1>7. ASSUME NEW t \in Thread, LockedStep(t) PROVE CloseNotLost'
  BY <1>7 DEF LockedStep, ResetFailures, ResetHalfOpenSuccesses, ResetLastFailure, Unlock
<1>8. QED
  BY <1>1, <1>2, <1>3, <1>4, <1>5, <1>6, <1>7 DEF Next

-----------------------------------------------------------------------------
\* The invariant is inductive.
LEMMA Invariance == Spec => []IInv
<1>1. IInv /\ [Next]_vars => IInv'
  BY StutterInv, TypeStep, AtomicStep, TripStep, CloseStep DEF IInv
<1>2. QED
  BY InitInv, <1>1, PTL DEF Spec

\* Every variable of the breaker keeps its type.
THEOREM TypeCorrect == Spec => []TypeOK
<1>1. IInv => TypeOK
  BY DEF IInv
<1>2. QED
  BY Invariance, <1>1, PTL

\* State stores and the counter resets that belong to them are never interleaved
\* with another transition or with Reset.
THEOREM TransitionsAreAtomic == Spec => []TransitionAtomic
<1>1. IInv => TransitionAtomic
  BY DEF IInv
<1>2. QED
  BY Invariance, <1>1, PTL

\* A circuit at or above its failure threshold is never left closed, and one with
\* enough trial successes is never left half-open, for any number of threads.
THEOREM TransitionsNotLost == Spec => []NoLostTransition
<1>1. IInv => NoLostTransition
  BY DEF IInv, NoLostTransition
<1>2. QED
  BY Invariance, <1>1, PTL
=============================================================================
