-------------------------------- MODULE Saga --------------------------------
(***************************************************************************)
(* The three ways to run a saga: ExecuteSaga of                            *)
(* internal/workflow/compensation/saga.go, and SagaWorkflow and            *)
(* SagaWithSignals of internal/workflow/patterns, which use the            *)
(* CompensationManager of internal/workflow/compensation/manager.go and    *)
(* run as Temporal workflows.                                              *)
(*                                                                         *)
(* A step is its position in the saga.  Retries of an activity are part of *)
(* its outcome, which may be an error although its effect was made (a      *)
(* lost answer, a timeout).  CompensatePartial, Clear and the builder,     *)
(* which no saga uses, are left out.                                       *)
(***************************************************************************)
EXTENDS Integers, FiniteSets

CONSTANTS
    N,      \* steps of the saga
    Name,   \* activity names
    Kinds   \* which of the three is run

ASSUME SagaAssumption ==
    /\ N \in Nat \ {0}
    /\ Kinds \subseteq {"ExecuteSaga", "SagaWorkflow", "SagaWithSignals"} /\ Kinds # {}

VARIABLES
    kind, steps,
    pc,           \* "top", "activity", "refused", "compensate", "ended"
    i,            \* the step at hand
    registered,   \* steps in cm.compensations, which keeps their order
    executed,     \* the names in cm.executed
    completed,    \* output.CompletedSteps
    status,       \* output.Status
    j,            \* the compensation at hand
    outcome,      \* compensation records: [1..N -> "none", "completed", "failed"]
    errors,       \* a compensation error was kept
    pending,      \* signals sent to the workflow
    cancelled,    \* the workflow's context is cancelled
    effect,       \* steps whose effect is in force outside
    lost,         \* history: steps that were made but reported an error
    ran           \* history: steps whose compensation was really run

manager == <<registered, executed>>
compensation == <<j, outcome, errors, ran>>
vars == <<kind, steps, pc, i, manager, completed, status, compensation, pending, cancelled, effect,
          lost>>

Step == [name : Name, compensable : BOOLEAN, allowFailure : BOOLEAN]

TypeOK ==
    /\ kind \in Kinds /\ steps \in [1..N -> Step]
    /\ pc \in {"top", "activity", "refused", "compensate", "ended"}
    /\ i \in 1..(N + 1) /\ j \in 0..N
    /\ registered \subseteq 1..N /\ completed \subseteq 1..N /\ executed \subseteq Name
    /\ status \in {"running", "failed", "completed", "compensated", "compensation_failed",
                   "manually_compensated", "cancelled"}
    /\ outcome \in [1..N -> {"none", "completed", "failed"}]
    /\ errors \in BOOLEAN /\ cancelled \in BOOLEAN
    /\ pending \subseteq {"compensate", "cancel"}
    /\ effect \subseteq 1..N /\ lost \subseteq 1..N /\ ran \subseteq 1..N

\* Steps of ExecuteSaga cannot be allowed to fail.
Init ==
    /\ kind \in Kinds
    /\ steps \in [1..N -> Step]
    /\ kind = "ExecuteSaga" => \A k \in 1..N : ~steps[k].allowFailure
    /\ pc = "top" /\ i = 1
    /\ registered = {} /\ executed = {} /\ completed = {}
    /\ status = "running"
    /\ j = N /\ outcome = [k \in 1..N |-> "none"] /\ errors = FALSE
    /\ pending = {} /\ cancelled = FALSE
    /\ effect = {} /\ lost = {} /\ ran = {}

Temporal == kind # "ExecuteSaga"

-----------------------------------------------------------------------------
\* Outside

Signal(s) ==
    /\ kind = "SagaWithSignals" /\ pc # "ended"
    /\ s \notin pending
    /\ pending' = pending \cup {s}
    /\ UNCHANGED <<kind, steps, pc, i, manager, completed, status, compensation, cancelled, effect,
                   lost>>

CancelContext ==
    /\ pc # "ended" /\ ~cancelled
    /\ cancelled' = TRUE
    /\ UNCHANGED <<kind, steps, pc, i, manager, completed, status, compensation, pending, effect,
                   lost>>

-----------------------------------------------------------------------------
\* The steps

\* SagaWithSignals drains its signals before each step; cancelling wins.
CancelledBySignal ==
    /\ pc = "top" /\ i <= N
    /\ "cancel" \in pending
    /\ status' = "cancelled"
    /\ pc' = "ended"
    /\ UNCHANGED <<kind, steps, i, manager, completed, compensation, pending, cancelled, effect,
                   lost>>

CompensateBySignal ==
    /\ pc = "top" /\ i <= N
    /\ "compensate" \in pending /\ "cancel" \notin pending
    /\ status' = "manually_compensated"
    /\ pc' = "compensate"
    /\ UNCHANGED <<kind, steps, i, manager, completed, compensation, pending, cancelled, effect,
                   lost>>

\* RegisterCompensation comes before the activity, AddCompensation after it.
\* Temporal does not start an activity in a cancelled context.
BeginStep ==
    /\ pc = "top" /\ i <= N
    /\ pending = {}
    /\ registered' = IF Temporal /\ steps[i].compensable THEN registered \cup {i} ELSE registered
    /\ pc' = IF Temporal /\ cancelled THEN "refused" ELSE "activity"
    /\ UNCHANGED <<kind, steps, i, executed, completed, status, compensation, pending, cancelled,
                   effect, lost>>

ActivityOk ==
    /\ pc = "activity"
    /\ Temporal => ~cancelled
    /\ effect' = effect \cup {i}
    /\ completed' = completed \cup {i}
    /\ executed' = IF Temporal THEN executed \cup {steps[i].name} ELSE executed
    /\ registered' = IF ~Temporal /\ steps[i].compensable THEN registered \cup {i} ELSE registered
    /\ i' = i + 1
    /\ pc' = "top"
    /\ UNCHANGED <<kind, steps, status, compensation, pending, cancelled, lost>>

\* An error; made says whether the activity had its effect all the same.
ActivityFails(made) ==
    /\ pc \in {"activity", "refused"}
    /\ made => pc = "activity"
    /\ effect' = IF made THEN effect \cup {i} ELSE effect
    /\ lost' = IF made THEN lost \cup {i} ELSE lost
    /\ IF steps[i].allowFailure
       THEN i' = i + 1 /\ pc' = "top" /\ UNCHANGED status
       ELSE status' = "failed" /\ pc' = "compensate" /\ UNCHANGED i
    /\ UNCHANGED <<kind, steps, manager, completed, compensation, pending, cancelled>>

SagaCompletes ==
    /\ pc = "top" /\ i = N + 1
    /\ status' = "completed"
    /\ pc' = "ended"
    /\ UNCHANGED <<kind, steps, i, manager, completed, compensation, pending, cancelled, effect,
                   lost>>

-----------------------------------------------------------------------------
\* Compensate

\* Wrong on purpose: compensations run in the order of their steps.
ThisOneForward == N + 1 - j

\* From the last to the first.
ThisOne == j

\* Wrong on purpose: the loop runs one step too far.
MoreOneTooFar == j >= 0

More == j > 0

IsExecuted(k) == steps[k].name \in executed

HasCompensation(k) == k \in registered /\ (Temporal => IsExecuted(k))

SkipCompensation ==
    /\ pc = "compensate" /\ More
    /\ ~HasCompensation(ThisOne)
    /\ j' = j - 1
    /\ UNCHANGED <<kind, steps, pc, i, manager, completed, status, outcome, errors, ran, pending,
                   cancelled, effect, lost>>

\* Wrong on purpose: only the last compensation decides.
KeepLastError(k, ok) == ~ok

\* An error of a step that may fail is not kept.
KeepError(k, ok) == errors \/ (~ok /\ ~(Temporal /\ steps[k].allowFailure))

\* A compensation undoes the step and says so, fails, or undoes it and reports an
\* error.  In a cancelled context it is not run.
RunCompensation(undoes, ok) ==
    /\ pc = "compensate" /\ More
    /\ HasCompensation(ThisOne)
    /\ ok => undoes
    /\ Temporal /\ cancelled => ~undoes
    /\ effect' = IF undoes THEN effect \ {ThisOne} ELSE effect
    /\ ran' = IF Temporal /\ cancelled THEN ran ELSE ran \cup {ThisOne}
    /\ outcome' = [outcome EXCEPT ![ThisOne] = IF ok THEN "completed" ELSE "failed"]
    /\ errors' = KeepError(ThisOne, ok)
    /\ j' = j - 1
    /\ UNCHANGED <<kind, steps, pc, i, manager, completed, status, pending, cancelled, lost>>

CompensationEnds ==
    /\ pc = "compensate" /\ ~More
    /\ status' = IF status = "manually_compensated" THEN status
                 ELSE IF errors THEN "compensation_failed" ELSE "compensated"
    /\ pc' = "ended"
    /\ UNCHANGED <<kind, steps, i, manager, completed, compensation, pending, cancelled, effect,
                   lost>>

Terminating == pc = "ended" /\ UNCHANGED vars

Next ==
    \/ \E s \in {"compensate", "cancel"} : Signal(s)
    \/ CancelContext
    \/ CancelledBySignal \/ CompensateBySignal
    \/ BeginStep \/ ActivityOk \/ (\E made \in BOOLEAN : ActivityFails(made)) \/ SagaCompletes
    \/ SkipCompensation \/ (\E undoes, ok \in BOOLEAN : RunCompensation(undoes, ok))
    \/ CompensationEnds
    \/ Terminating

Spec == Init /\ [][Next]_vars

-----------------------------------------------------------------------------
(* Properties *)

\* What AbstractSaga sees of a saga.
Must == {k \in 1..N : steps[k].compensable /\ ~steps[k].allowFailure}
Optional == {k \in 1..N : steps[k].allowFailure}
Undone == {k \in completed : outcome[k] = "completed"}
Phase ==
    IF pc = "compensate" THEN "undoing"
    ELSE IF pc # "ended" THEN "forward"
    ELSE IF status = "completed" THEN "completed"
    ELSE IF status = "cancelled" THEN "abandoned"
    ELSE IF errors THEN "stuck" ELSE "undone"

Abstract == INSTANCE AbstractSaga
    WITH optional <- Optional, must <- Must, next <- i, made <- completed, undone <- Undone,
         phase <- Phase

\* Each of the three is a saga: it completes only if every step that may not fail
\* was made, makes nothing once it compensates, undoes the later steps first, and
\* reports success of the rollback only if every completed step that must be
\* undone was, whatever else failed.
ImplementsSaga == Abstract!Spec

\* After a rollback that reports no error the effects left outside are those of
\* steps nobody can undo, of steps allowed to fail, and of activities that
\* reported an error although they were made.
EffectsAccounted ==
    TypeOK /\ (status = "compensated" => effect \subseteq (1..N \ Must) \cup lost)

\* "when a workflow step fails, all previously completed steps are automatically
\* compensated": the compensation of each is at least run.
FailureRollsBack ==
    status \in {"compensated", "compensation_failed"} => completed \cap registered \subseteq ran
=============================================================================
