----------------------------- MODULE SagaProofs -----------------------------
(***************************************************************************)
(* Every saga, of any number of steps, implements AbstractSaga.            *)
(***************************************************************************)
EXTENDS Saga, TLAPS

\* An activity is one of a step, whose compensation the workflows have registered.
AtStep ==
    pc \in {"activity", "refused"}
        => i <= N /\ (Temporal /\ steps[i].compensable => i \in registered)

\* Only steps behind the one at hand are completed.
CompletedBehind == \A k \in completed : k < i

\* Compensate will find every completed step that can be undone.
CompletedFound == \A k \in completed : steps[k].compensable => HasCompensation(k)

\* Compensations run from the last step down to the one at hand.
RecordsAbove == \A k \in 1..N : outcome[k] # "none" => k > j

\* No compensation before the saga turns round.
ForwardClean == pc \in {"top", "activity", "refused"} => j = N /\ errors = FALSE

\* Behind the compensation at hand every step that had to be undone was, or an
\* error was kept.
UndoneOrError ==
    \A k \in completed \cap Must : k > j => errors = TRUE \/ outcome[k] = "completed"

\* The effects in force are of steps that were completed or lost, and of none whose
\* compensation was completed.
EffectsKnown ==
    /\ effect \subseteq completed \cup lost
    /\ \A k \in 1..N : outcome[k] = "completed" => k \notin effect

\* "compensated" is reported at the end, and with no error kept.
ReportHonest == status = "compensated" => pc = "ended" /\ j = 0 /\ errors = FALSE

IInv ==
    /\ TypeOK /\ AtStep /\ CompletedBehind /\ CompletedFound /\ RecordsAbove
    /\ ForwardClean /\ UndoneOrError /\ EffectsKnown /\ ReportHonest

-----------------------------------------------------------------------------
LEMMA InitIInv == Init => IInv
  <1> SUFFICES ASSUME Init PROVE IInv
    OBVIOUS
  <1> USE SagaAssumption DEF Init
  <1>1. TypeOK
    <2>1. kind \in Kinds /\ steps \in [1..N -> Step] /\ i \in 1..(N + 1) /\ j \in 0..N
      OBVIOUS
    <2>2. outcome \in [1..N -> {"none", "completed", "failed"}]
      OBVIOUS
    <2> QED
      BY <2>1, <2>2 DEF TypeOK
  <1>2. AtStep /\ CompletedBehind /\ CompletedFound /\ RecordsAbove /\ ForwardClean
    BY DEF AtStep, CompletedBehind, CompletedFound, RecordsAbove, ForwardClean
  <1>3. UndoneOrError /\ EffectsKnown /\ ReportHonest
    BY DEF UndoneOrError, EffectsKnown, ReportHonest
  <1> QED
    BY <1>1, <1>2, <1>3 DEF IInv

LEMMA NextIInv == IInv /\ [Next]_vars => IInv'
  <1> SUFFICES ASSUME IInv, [Next]_vars PROVE IInv'
    OBVIOUS
  <1> USE SagaAssumption DEF IInv, TypeOK, AtStep, CompletedBehind, CompletedFound, RecordsAbove,
        ForwardClean, UndoneOrError, EffectsKnown, ReportHonest, HasCompensation, IsExecuted,
        Temporal, Must, Step
  <1>1. CASE \E s \in {"compensate", "cancel"} : Signal(s)
    BY <1>1 DEF Signal, manager, compensation
  <1>2. CASE CancelContext
    BY <1>2 DEF CancelContext, manager, compensation
  <1>3. CASE CancelledBySignal
    BY <1>3 DEF CancelledBySignal, manager, compensation
  <1>4. CASE CompensateBySignal
    BY <1>4 DEF CompensateBySignal, manager, compensation
  <1>5. CASE BeginStep
    BY <1>5 DEF BeginStep, manager, compensation
  <1>6. CASE ActivityOk
    <2> USE <1>6 DEF ActivityOk, manager, compensation
    <2>1. i \in 1..N /\ i \notin completed
      OBVIOUS
    <2>2. TypeOK'
      BY <2>1
    <2>3. /\ AtStep' /\ CompletedBehind' /\ RecordsAbove' /\ ForwardClean' /\ UndoneOrError'
          /\ EffectsKnown' /\ ReportHonest'
      BY <2>1, <2>2
    <2>4. CompletedFound'
      <3> SUFFICES ASSUME NEW k \in completed', steps'[k].compensable PROVE HasCompensation(k)'
        OBVIOUS
      <3>1. CASE k = i
        BY <2>1, <3>1
      <3>2. CASE k # i
        <4>1. k \in completed /\ HasCompensation(k)
          BY <3>2
        <4> QED
          BY <4>1
      <3> QED
        BY <3>1, <3>2
    <2> QED
      BY <2>2, <2>3, <2>4
  <1>7. CASE \E made \in BOOLEAN : ActivityFails(made)
    <2>1. PICK made \in BOOLEAN : ActivityFails(made)
      BY <1>7
    <2> USE <2>1 DEF ActivityFails, manager, compensation
    <2>2. i \in 1..N
      OBVIOUS
    <2>3. TypeOK'
      <3>1. effect' \subseteq 1..N /\ lost' \subseteq 1..N
        BY <2>2
      <3>2. CASE steps[i].allowFailure
        BY <2>2, <3>1, <3>2
      <3>3. CASE ~steps[i].allowFailure
        BY <2>2, <3>1, <3>3
      <3> QED
        BY <3>2, <3>3
    <2>4. /\ AtStep' /\ CompletedBehind' /\ CompletedFound' /\ RecordsAbove'
          /\ ForwardClean' /\ UndoneOrError' /\ EffectsKnown' /\ ReportHonest'
      BY <2>2, <2>3
    <2> QED
      BY <2>3, <2>4
  <1>8. CASE SagaCompletes
    BY <1>8 DEF SagaCompletes, manager, compensation
  <1>9. CASE SkipCompensation
    BY <1>9 DEF SkipCompensation, manager, ThisOne, More
  <1>10. CASE \E undoes, ok \in BOOLEAN : RunCompensation(undoes, ok)
    BY <1>10 DEF RunCompensation, manager, ThisOne, More, KeepError
  <1>11. CASE CompensationEnds
    BY <1>11 DEF CompensationEnds, manager, compensation, More
  <1>12. CASE UNCHANGED vars
    BY <1>12 DEF vars, manager, compensation
  <1> QED
    BY <1>1, <1>2, <1>3, <1>4, <1>5, <1>6, <1>7, <1>8, <1>9, <1>10, <1>11, <1>12
    DEF Next, Terminating

-----------------------------------------------------------------------------
\* The variables of a saga keep their types, whatever is signalled, cancelled
\* or lost (saga_workflow.go, manager.go).
THEOREM TypeCorrect == Spec => []TypeOK
  <1>1. IInv => TypeOK
    BY DEF IInv
  <1> QED
    BY <1>1, InitIInv, NextIInv, PTL DEF Spec

\* After a rollback that Compensate reports without error, only effects remain that
\* could not be undone, were allowed to fail, or were made by an activity that
\* reported an error.
THEOREM RollbackAccounted == Spec => []EffectsAccounted
  <1>1. IInv => EffectsAccounted
    <2> SUFFICES ASSUME IInv, status = "compensated", NEW k \in effect, k \notin lost, k \in Must
                 PROVE FALSE
      BY DEF EffectsAccounted, IInv, TypeOK
    <2> USE DEF IInv, TypeOK
    <2>1. k \in completed /\ k > j /\ errors = FALSE
      BY DEF EffectsKnown, ReportHonest
    <2> QED
      BY <2>1 DEF UndoneOrError, EffectsKnown
  <1> QED
    BY <1>1, InitIInv, NextIInv, PTL DEF Spec

LEMMA InitRefines == Init => Abstract!Init
  BY SagaAssumption DEF Init, Abstract!Init, Optional, Must, Undone, Phase

\* Every step of a saga is a step of AbstractSaga or none.
LEMMA NextRefines == IInv /\ [Next]_vars => [Abstract!Next]_(Abstract!vars)
  <1> SUFFICES ASSUME IInv, [Next]_vars PROVE [Abstract!Next]_(Abstract!vars)
    OBVIOUS
  <1> USE SagaAssumption DEF IInv, TypeOK, Step
  <1> DEFINE Same == UNCHANGED <<Optional, Must, i, completed, Undone, Phase>>
  <1>0. Same => UNCHANGED Abstract!vars
    BY DEF Abstract!vars
  <1>1. CASE \E s \in {"compensate", "cancel"} : Signal(s)
    BY <1>0, <1>1 DEF Signal, compensation, Optional, Must, Undone, Phase
  <1>2. CASE CancelContext
    BY <1>0, <1>2 DEF CancelContext, compensation, Optional, Must, Undone, Phase
  <1>3. CASE CancelledBySignal
    BY <1>3 DEF CancelledBySignal, compensation, Optional, Must, Undone, Phase, Abstract!Next,
                Abstract!Turn
  <1>4. CASE CompensateBySignal
    BY <1>4 DEF CompensateBySignal, compensation, Optional, Must, Undone, Phase, Abstract!Next,
                Abstract!Turn
  <1>5. CASE BeginStep
    BY <1>0, <1>5 DEF BeginStep, compensation, Optional, Must, Undone, Phase
  <1>6. CASE ActivityOk
    BY <1>6 DEF ActivityOk, AtStep, RecordsAbove, ForwardClean, compensation, Optional, Must, Undone,
                Phase, Abstract!Next, Abstract!Make
  <1>7. CASE \E made \in BOOLEAN : ActivityFails(made)
    BY <1>7 DEF ActivityFails, AtStep, compensation, Optional, Must, Undone, Phase, Abstract!Next,
                Abstract!Turn, Abstract!Tolerate
  <1>8. CASE SagaCompletes
    BY <1>8 DEF SagaCompletes, compensation, Optional, Must, Undone, Phase, Abstract!Next,
                Abstract!Complete
  <1>9. CASE SkipCompensation
    BY <1>0, <1>9 DEF SkipCompensation, Optional, Must, Undone, Phase
  <1>10. CASE \E undoes, ok \in BOOLEAN : RunCompensation(undoes, ok)
    <2>1. PICK undoes \in BOOLEAN, ok \in BOOLEAN : RunCompensation(undoes, ok)
      BY <1>10
    <2> USE <2>1 DEF RunCompensation, ThisOne, More, RecordsAbove
    <2>2. j \in 1..N /\ outcome[j] = "none"
      OBVIOUS
    <2>3. UNCHANGED <<Optional, Must, i, completed, Phase>>
      BY DEF Optional, Must, Phase
    <2>4. CASE ok = TRUE /\ j \in completed
      <3>1. Undone' = Undone \cup {j}
        BY <2>2, <2>4 DEF Undone
      <3>2. Abstract!Undo(j)
        BY <2>2, <2>3, <2>4, <3>1 DEF Abstract!Undo, Undone, Phase
      <3> QED
        BY <2>2, <3>2 DEF Abstract!Next
    <2>5. CASE ~(ok = TRUE /\ j \in completed)
      <3>1. Undone' = Undone
        BY <2>2, <2>5 DEF Undone
      <3> QED
        BY <1>0, <2>3, <3>1
    <2> QED
      BY <2>4, <2>5
  <1>11. CASE CompensationEnds
    <2> USE <1>11 DEF CompensationEnds, More, compensation
    <2>1. UNCHANGED <<Optional, Must, i, completed, Undone>>
      BY DEF Optional, Must, Undone
    <2>2. Phase = "undoing" /\ Phase' = IF errors THEN "stuck" ELSE "undone"
      BY DEF Phase
    <2>3. CASE errors = TRUE
      BY <2>1, <2>2, <2>3 DEF Abstract!Next, Abstract!EndStuck
    <2>4. CASE errors = FALSE
      <3>1. completed \cap Must \subseteq Undone
        <4>1. j = 0 /\ \A k \in completed : k > j
          OBVIOUS
        <4> QED
          BY <2>4, <4>1 DEF UndoneOrError, Undone
      <3> QED
        BY <2>1, <2>2, <2>4, <3>1 DEF Abstract!Next, Abstract!EndUndone
    <2> QED
      BY <2>3, <2>4
  <1>12. CASE UNCHANGED vars
    BY <1>0, <1>12 DEF vars, compensation, Optional, Must, Undone, Phase
  <1> QED
    BY <1>1, <1>2, <1>3, <1>4, <1>5, <1>6, <1>7, <1>8, <1>9, <1>10, <1>11, <1>12
    DEF Next, Terminating

\* ExecuteSaga, SagaWorkflow and SagaWithSignals implement AbstractSaga for any
\* number of steps: reverse order, nothing made once they compensate, and an
\* honest report of the rollback.
THEOREM Refinement == Spec => ImplementsSaga
  <1> QED
    BY InitIInv, NextIInv, InitRefines, NextRefines, PTL DEF Spec, ImplementsSaga, Abstract!Spec
=============================================================================
