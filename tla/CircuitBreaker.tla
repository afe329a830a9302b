--------------------------- MODULE CircuitBreaker ---------------------------
(***************************************************************************)
(* pkg/integration/circuitbreaker.go.                                      *)
(*                                                                         *)
(* state, failures, halfOpenSuccesses and lastFailure are independent      *)
(* atomics: every Load, Store and Add is a step of its own.  Only          *)
(* transitionTo and Reset take the mutex mu; Allow, RecordSuccess and      *)
(* RecordFailure read the state without it and act on what they read.      *)
(*                                                                         *)
(* Time is kept as ages that saturate at Timeout, the only instant the     *)
(* code compares with: sinceFailure is time.Since(lastFailure), stamp[t]   *)
(* the age of the time.Now() that thread t took on entering RecordFailure. *)
(***************************************************************************)
EXTENDS Integers

CONSTANTS
    Thread,            \* goroutines that call Execute
    Resetters,         \* the ones among them that also call Reset
    FailureThreshold,
    Timeout,           \* in ticks
    HalfOpenRequests,
    NoThread           \* the holder of a free mutex

\* NewCircuitBreaker replaces every setting that is not positive by a default.
ASSUME ConfigAssumption ==
    /\ FailureThreshold \in Nat \ {0}
    /\ Timeout \in Nat \ {0}
    /\ HalfOpenRequests \in Nat \ {0}

ASSUME ThreadAssumption == NoThread \notin Thread /\ Resetters \subseteq Thread

VARIABLES
    state, failures, halfOpenSuccesses, sinceFailure,
    mu,       \* the thread that holds cb.mu, or NoThread
    pc,       \* where each thread is
    stamp,    \* age of the timestamp each thread took in RecordFailure
    target    \* newState of the transitionTo call each thread is in

vars == <<state, failures, halfOpenSuccesses, sinceFailure, mu, pc, stamp, target>>
counters == <<failures, halfOpenSuccesses>>

CircuitState == {"closed", "open", "halfOpen"}

Label == {"idle", "openCheck", "call", "failStore", "failLoad", "failAdd",
          "succLoad", "succStore", "succAdd", "lock", "resetFailures",
          "resetHalfOpen", "resetLastFailure", "unlock"}

TypeOK ==
    /\ state \in CircuitState
    /\ failures \in Nat
    /\ halfOpenSuccesses \in Nat
    /\ sinceFailure \in 0..Timeout
    /\ mu \in Thread \cup {NoThread}
    /\ pc \in [Thread -> Label]
    /\ stamp \in [Thread -> 0..Timeout]
    /\ target \in [Thread -> CircuitState \cup {"reset"}]

\* lastFailure is zero, the Unix epoch: every Timeout has elapsed since.
Init ==
    /\ state = "closed"
    /\ failures = 0
    /\ halfOpenSuccesses = 0
    /\ sinceFailure = Timeout
    /\ mu = NoThread
    /\ pc = [t \in Thread |-> "idle"]
    /\ stamp = [t \in Thread |-> 0]
    /\ target = [t \in Thread |-> "closed"]

GoTo(t, label) == pc' = [pc EXCEPT ![t] = label]

CallTransitionTo(t, newState) ==
    /\ target' = [target EXCEPT ![t] = newState]
    /\ GoTo(t, "lock")

-----------------------------------------------------------------------------
\* Execute: Allow, then fn, then RecordSuccess or RecordFailure

AllowLoad(t) ==
    /\ pc[t] = "idle"
    /\ GoTo(t, IF state = "open" THEN "openCheck" ELSE "call")
    /\ UNCHANGED <<state, counters, sinceFailure, mu, stamp, target>>

AllowAfterTimeout(t) ==
    /\ pc[t] = "openCheck"
    /\ sinceFailure >= Timeout
    /\ CallTransitionTo(t, "halfOpen")
    /\ UNCHANGED <<state, counters, sinceFailure, mu, stamp>>

\* Allow returns ErrCircuitOpen and Execute with it.
AllowRejects(t) ==
    /\ pc[t] = "openCheck"
    /\ sinceFailure < Timeout
    /\ GoTo(t, "idle")
    /\ UNCHANGED <<state, counters, sinceFailure, mu, stamp, target>>

CallSucceeds(t) ==
    /\ pc[t] = "call"
    /\ GoTo(t, "succLoad")
    /\ UNCHANGED <<state, counters, sinceFailure, mu, stamp, target>>

\* fn failed; RecordFailure takes now := time.Now().
CallFails(t) ==
    /\ pc[t] = "call"
    /\ GoTo(t, "failStore")
    /\ stamp' = [stamp EXCEPT ![t] = 0]
    /\ UNCHANGED <<state, counters, sinceFailure, mu, target>>

-----------------------------------------------------------------------------
\* RecordSuccess

\* Wrong on purpose: no case for the half-open state.
SuccessCaseClosedOnly(st) == IF st = "closed" THEN "succStore" ELSE "idle"

SuccessCase(st) ==
    CASE st = "closed" -> "succStore" [] st = "halfOpen" -> "succAdd" [] st = "open" -> "idle"

RecordSuccessLoad(t) ==
    /\ pc[t] = "succLoad"
    /\ GoTo(t, SuccessCase(state))
    /\ UNCHANGED <<state, counters, sinceFailure, mu, stamp, target>>

\* Wrong on purpose: a success forgives one failure, below zero too.
ForgiveOne(n) == n - 1

Forgive(n) == 0

RecordSuccessStore(t) ==
    /\ pc[t] = "succStore"
    /\ failures' = Forgive(failures)
    /\ GoTo(t, "idle")
    /\ UNCHANGED <<state, halfOpenSuccesses, sinceFailure, mu, stamp, target>>

\* Wrong on purpose: one success too many is asked for.
EnoughSuccessesLate(n) == n > HalfOpenRequests

EnoughSuccesses(n) == n >= HalfOpenRequests

RecordSuccessAdd(t) ==
    /\ pc[t] = "succAdd"
    /\ halfOpenSuccesses' = halfOpenSuccesses + 1
    /\ IF EnoughSuccesses(halfOpenSuccesses + 1)
       THEN CallTransitionTo(t, "closed")
       ELSE GoTo(t, "idle") /\ UNCHANGED target
    /\ UNCHANGED <<state, failures, sinceFailure, mu, stamp>>

-----------------------------------------------------------------------------
\* RecordFailure

\* The store comes before the state is looked at: an open circuit too has its
\* lastFailure renewed by the late failure of a call admitted before it opened.
RecordFailureStore(t) ==
    /\ pc[t] = "failStore"
    /\ sinceFailure' = stamp[t]
    /\ GoTo(t, "failLoad")
    /\ UNCHANGED <<state, counters, mu, stamp, target>>

RecordFailureLoad(t) ==
    /\ pc[t] = "failLoad"
    /\ \/ state = "closed"   /\ GoTo(t, "failAdd") /\ UNCHANGED target
       \/ state = "halfOpen" /\ CallTransitionTo(t, "open")
       \/ state = "open"     /\ GoTo(t, "idle") /\ UNCHANGED target
    /\ UNCHANGED <<state, counters, sinceFailure, mu, stamp>>

\* Wrong on purpose: one failure too many is allowed.
TooManyFailuresLate(n) == n > FailureThreshold

TooManyFailures(n) == n >= FailureThreshold

RecordFailureAdd(t) ==
    /\ pc[t] = "failAdd"
    /\ failures' = failures + 1
    /\ IF TooManyFailures(failures + 1)
       THEN CallTransitionTo(t, "open")
       ELSE GoTo(t, "idle") /\ UNCHANGED target
    /\ UNCHANGED <<state, halfOpenSuccesses, sinceFailure, mu, stamp>>

-----------------------------------------------------------------------------
\* transitionTo and Reset, under mu

\* Where a caller of transitionTo goes on: Allow admits the request after it,
\* RecordSuccess and RecordFailure end with it.
ReturnFrom(newState) == IF newState = "halfOpen" THEN "call" ELSE "idle"

\* Wrong on purpose: nobody waits for the mutex.
LockIgnored == TRUE

LockFree == mu = NoThread

\* The state is stored only under mu, so the check of the old state and the
\* store are one step; the counters are reset in later steps, while threads
\* that hold no lock already act on the new state.
TransitionLock(t) ==
    /\ pc[t] = "lock"
    /\ LockFree
    /\ \/ /\ state = target[t]
          /\ GoTo(t, ReturnFrom(target[t]))
          /\ UNCHANGED <<state, mu>>
       \/ /\ state # target[t]
          /\ state' = target[t]
          /\ mu' = t
          /\ GoTo(t, CASE target[t] = "closed"   -> "resetFailures"
                       [] target[t] = "halfOpen" -> "resetHalfOpen"
                       [] target[t] = "open"     -> "unlock")
    /\ UNCHANGED <<counters, sinceFailure, stamp, target>>

ResetLock(t) ==
    /\ t \in Resetters
    /\ pc[t] = "idle"
    /\ LockFree
    /\ mu' = t
    /\ state' = "closed"
    /\ target' = [target EXCEPT ![t] = "reset"]
    /\ GoTo(t, "resetFailures")
    /\ UNCHANGED <<counters, sinceFailure, stamp>>

ResetFailures(t) ==
    /\ pc[t] = "resetFailures"
    /\ failures' = 0
    /\ GoTo(t, "resetHalfOpen")
    /\ UNCHANGED <<state, halfOpenSuccesses, sinceFailure, mu, stamp, target>>

ResetHalfOpenSuccesses(t) ==
    /\ pc[t] = "resetHalfOpen"
    /\ halfOpenSuccesses' = 0
    /\ GoTo(t, IF target[t] = "reset" THEN "resetLastFailure" ELSE "unlock")
    /\ UNCHANGED <<state, failures, sinceFailure, mu, stamp, target>>

\* Reset only: lastFailure.Store(0).
ResetLastFailure(t) ==
    /\ pc[t] = "resetLastFailure"
    /\ sinceFailure' = Timeout
    /\ GoTo(t, "unlock")
    /\ UNCHANGED <<state, counters, mu, stamp, target>>

Unlock(t) ==
    /\ pc[t] = "unlock"
    /\ mu' = NoThread
    /\ GoTo(t, ReturnFrom(target[t]))
    /\ UNCHANGED <<state, counters, sinceFailure, stamp, target>>

-----------------------------------------------------------------------------
Older(age) == IF age < Timeout THEN age + 1 ELSE Timeout

Tick ==
    /\ sinceFailure' = Older(sinceFailure)
    /\ stamp' = [t \in Thread |-> IF pc[t] = "failStore" THEN Older(stamp[t]) ELSE stamp[t]]
    /\ <<sinceFailure, stamp>>' # <<sinceFailure, stamp>>
    /\ UNCHANGED <<state, counters, mu, pc, target>>

Allow(t) == AllowLoad(t) \/ AllowAfterTimeout(t) \/ AllowRejects(t)

RecordSuccess(t) == RecordSuccessLoad(t) \/ RecordSuccessStore(t) \/ RecordSuccessAdd(t)

RecordFailure(t) == RecordFailureStore(t) \/ RecordFailureLoad(t) \/ RecordFailureAdd(t)

LockedStep(t) ==
    \/ ResetFailures(t) \/ ResetHalfOpenSuccesses(t) \/ ResetLastFailure(t) \/ Unlock(t)

Next ==
    \/ \E t \in Thread :
          \/ Allow(t) \/ CallSucceeds(t) \/ CallFails(t)
          \/ RecordSuccess(t) \/ RecordFailure(t)
          \/ TransitionLock(t) \/ ResetLock(t) \/ LockedStep(t)
    \/ Tick

Spec == Init /\ [][Next]_vars

-----------------------------------------------------------------------------
(* Properties *)

\* A closed circuit whose failure count has reached FailureThreshold is about to
\* open, or about to have the count cleared under mu: RecordFailure's unlocked
\* Add, whatever it races with, never leaves a circuit closed above its
\* threshold with nobody on the way to open it.
TripNotLost ==
    state = "closed" /\ failures >= FailureThreshold
        => \E t \in Thread : \/ pc[t] = "lock" /\ target[t] = "open"
                             \/ pc[t] = "resetFailures"

\* A half-open circuit that has seen HalfOpenRequests successes is about to close,
\* or about to start its count again: a success added by a late reader, before or
\* after the reset in transitionTo, never strands the circuit half-open.
CloseNotLost ==
    state = "halfOpen" /\ halfOpenSuccesses >= HalfOpenRequests
        => \E t \in Thread : \/ pc[t] = "lock" /\ target[t] = "closed"
                             \/ pc[t] = "resetHalfOpen"

\* RecordFailure's and RecordSuccess's unlocked counters never lose a transition
\* that is due: not the trip of a closed circuit, not the close of a half-open one.
NoLostTransition == TypeOK /\ TripNotLost /\ CloseNotLost

\* mu is held exactly by the thread inside transitionTo or Reset, and the counter
\* resets there match the state that was stored on entry: no second transition
\* slips in between the store of a state and the resets that belong to it.
TransitionAtomic ==
    \A t \in Thread :
        /\ mu = t <=> pc[t] \in {"resetFailures", "resetHalfOpen", "resetLastFailure", "unlock"}
        /\ mu = t => state = (IF target[t] = "reset" THEN "closed" ELSE target[t])

\* Requests keep arriving and calls return; a thread inside the breaker goes on.
\* sync.RWMutex hands the lock over to a waiter that has waited long enough, so
\* a thread that waits for mu while it becomes free again and again obtains it.
Fairness ==
    /\ \A t \in Thread :
          /\ WF_vars(Allow(t) \/ CallSucceeds(t) \/ CallFails(t))
          /\ WF_vars(RecordSuccess(t) \/ RecordFailure(t) \/ LockedStep(t))
          /\ SF_vars(TransitionLock(t))
    /\ WF_vars(Tick)

FairSpec == Spec /\ Fairness

\* Once the service stops failing, the circuit closes and stays closed: no order
\* of late results, stale reads and resets keeps it open or half-open for ever.
Recovers ==
    <>[][\A t \in Thread : ~CallFails(t)]_vars => <>[](state = "closed")
=============================================================================
