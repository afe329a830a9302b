----------------------------- MODULE Pipelines -----------------------------
(***************************************************************************)
(* internal/workflow/definitions and activities: the agent pipeline, the   *)
(* pipeline with compensation and the test suite, as workflows whose       *)
(* activities run elsewhere, are retried there, and fail or answer in any  *)
(* order; a workflow may be canceled at any moment.                        *)
(*                                                                         *)
(* A unit is an agent or a test case.  In parallel all units are started   *)
(* and their answers collected in order; otherwise one follows the other.  *)
(***************************************************************************)
EXTENDS Integers, Sequences, FiniteSets

CONSTANTS
    MaxUnits,       \* bound: units of one workflow
    UnitName        \* names of agents and IDs of test cases

PipelineAssumption == MaxUnits \in Nat

VARIABLES
    job,            \* the input: kind, parallel, stopOnFailure, names
    stage,          \* where the workflow function is
    future,         \* what became of the activity of each unit
    results,        \* Results, by unit
    current,        \* the unit whose answer is awaited
    executed,       \* CompensationManager.executed
    toUndo,         \* units whose compensation is still to be looked at, last first
    undone,         \* history: compensations tried, in order, and whether they succeeded
    report,         \* what the error of a failed pipeline says of them
    status,         \* output.Status
    stored,         \* the status the result is filed under
    ctxCanceled     \* the workflow's context is canceled

pipelineVars == <<job, stage, future, results, current, executed, toUndo, undone, report, status, stored,
                  ctxCanceled>>

Kind == {"pipeline", "compensated", "suite"}
Units == 1..Len(job.names)
UnitStatus == {"none", "running", "completed", "failed", "canceled"}
NoJob == [kind |-> "pipeline", parallel |-> FALSE, stop |-> FALSE, names |-> <<>>]

PipelineTypeOK ==
    /\ job.kind \in Kind /\ job.parallel \in BOOLEAN /\ job.stop \in BOOLEAN /\ Len(job.names) \in 0..MaxUnits
    /\ stage \in {"idle", "validate", "start", "units", "compensate", "settle", "store", "notify", "returned", "terminated"}
    /\ future \in [Units -> {"none", "pending", "ok", "err"}] /\ results \in [Units -> UnitStatus]
    /\ current \in 1..(MaxUnits + 1) /\ executed \subseteq UnitName
    /\ toUndo \in Seq(Units) /\ undone \in Seq([unit : Units, ok : BOOLEAN])
    /\ report \in {"none", "compensated", "compensation failed"}
    /\ status \in {"running", "completed", "failed"} /\ stored \subseteq {"completed", "failed"}
    /\ ctxCanceled \in BOOLEAN

PipelineInit ==
    /\ job = NoJob /\ stage = "idle"
    /\ future = <<>> /\ results = <<>> /\ current = 1
    /\ executed = {} /\ toUndo = <<>> /\ undone = <<>> /\ report = "none"
    /\ status = "running" /\ stored = {} /\ ctxCanceled = FALSE

-----------------------------------------------------------------------------
StartJob(kind, parallel, stop, names) ==
    /\ stage = "idle"
    /\ job' = [kind |-> kind, parallel |-> parallel, stop |-> stop, names |-> names]
    /\ future' = [u \in 1..Len(names) |-> "none"] /\ results' = [u \in 1..Len(names) |-> "none"]
    /\ stage' = "validate"
    /\ UNCHANGED <<current, executed, toUndo, undone, report, status, stored, ctxCanceled>>

\* Client.CancelWorkflow.
CancelJob ==
    /\ stage \notin {"idle", "returned", "terminated"} /\ ~ctxCanceled
    /\ ctxCanceled' = TRUE
    /\ UNCHANGED <<job, stage, future, results, current, executed, toUndo, undone, report, status, stored>>

\* ValidateInput and ValidateTestSuite; only the latter looks for duplicates.
ValidInput ==
    /\ job.names # <<>>
    /\ job.kind = "suite" => \A u, v \in Units : job.names[u] = job.names[v] => u = v

\* The validation activity answers, fails, or finds the input invalid.
ValidateInput(ok) ==
    /\ stage = "validate" /\ (ctxCanceled => ~ok)
    /\ IF ok /\ ValidInput THEN stage' = "start" /\ UNCHANGED status
       ELSE stage' = "returned" /\ status' = "failed"
    /\ UNCHANGED <<job, future, results, current, executed, toUndo, undone, report, stored, ctxCanceled>>

\* In parallel all activities are started at once, else the one that is next.
StartUnits ==
    /\ stage = "start"
    /\ LET now == IF job.parallel THEN Units ELSE {current}
       IN /\ future' = [u \in Units |-> IF u \in now THEN "pending" ELSE future[u]]
          /\ results' = [u \in Units |-> IF u \in now /\ job.parallel THEN "running" ELSE results[u]]
    /\ stage' = "units"
    /\ UNCHANGED <<job, current, executed, toUndo, undone, report, status, stored, ctxCanceled>>

\* An activity with its retries: in the end an answer, or an error.
UnitAnswers(u, ok) ==
    /\ u \in Units /\ future[u] = "pending" /\ stage \notin {"returned", "terminated"}
    /\ future' = [future EXCEPT ![u] = IF ok THEN "ok" ELSE "err"]
    /\ UNCHANGED <<job, stage, results, current, executed, toUndo, undone, report, status, stored, ctxCanceled>>

\* The activities that run the units.
ExecuteAgent(u, ok) == job.kind # "suite" /\ UnitAnswers(u, ok)
ExecuteTestCase(u, ok) == job.kind = "suite" /\ UnitAnswers(u, ok)

\* Get on the future of the current unit: its answer, or the cancellation.
Answered(u, ok) == future[u] = IF ok THEN "ok" ELSE "err"
Collectable(ok) == Answered(current, ok) \/ (ctxCanceled /\ future[current] = "pending" /\ ~ok)

\* A failure stops a sequence of agents, and one of test cases if it was asked for.
StopsHere(ok) == ~ok /\ ~job.parallel /\ (job.kind # "suite" \/ job.stop)

\* Wrong on purpose: the remaining test cases are left out of the results.
SkipRestNot(ok) == {}

\* The rest of a suite that stops is skipped.
SkipRest(ok) == IF StopsHere(ok) /\ job.kind = "suite" THEN {u \in Units : u > current} ELSE {}

Failed == \E u \in Units : results[u] = "failed"

\* One answer is collected; after the last one, or the one that stops, the workflow goes on.
CollectUnit(ok) ==
    /\ stage = "units" /\ Collectable(ok)
    /\ results' = [u \in Units |-> IF u = current THEN (IF ok THEN "completed" ELSE "failed")
                                  ELSE IF u \in SkipRest(ok) THEN "canceled" ELSE results[u]]
    /\ executed' = IF ok THEN executed \cup {job.names[current]} ELSE executed
    /\ LET last == current = Len(job.names) \/ StopsHere(ok)
           failing == ~ok \/ Failed
           registered == IF job.parallel THEN Len(job.names) ELSE current
       IN /\ current' = IF last THEN current ELSE current + 1
          /\ stage' = IF ~last THEN (IF job.parallel THEN "units" ELSE "start")
                      ELSE IF failing /\ job.kind = "compensated" THEN "compensate" ELSE "settle"
          /\ toUndo' = IF last /\ failing /\ job.kind = "compensated"
                       THEN [i \in 1..registered |-> registered + 1 - i] ELSE <<>>
    /\ UNCHANGED <<job, future, undone, report, status, stored, ctxCanceled>>

\* Wrong on purpose: every registered compensation is run.
UndoneAlways(u) == TRUE

\* IsExecuted: only what was executed is undone, told by its name.
MustUndo(u) == job.names[u] \in executed

\* The rollback activity of one unit; on a canceled context it fails at once.
CompensateUnit(ok) ==
    /\ stage = "compensate" /\ toUndo # <<>> /\ (ctxCanceled => ~ok)
    /\ toUndo' = Tail(toUndo)
    /\ undone' = IF MustUndo(Head(toUndo)) THEN Append(undone, [unit |-> Head(toUndo), ok |-> ok]) ELSE undone
    /\ UNCHANGED <<job, stage, future, results, current, executed, report, status, stored, ctxCanceled>>

\* Wrong on purpose: the errors of the compensations are dropped.
CompensateIgnoring == "compensated"

\* What Compensate returns; no agent's compensation may be skipped.
CompensateReturns ==
    IF \E i \in 1..Len(undone) : ~undone[i].ok THEN "compensation failed" ELSE "compensated"

Compensated ==
    /\ stage = "compensate" /\ toUndo = <<>>
    /\ report' = CompensateReturns
    /\ stage' = "settle"
    /\ UNCHANGED <<job, future, results, current, executed, toUndo, undone, status, stored, ctxCanceled>>

\* Wrong on purpose: a suite fails only if it was to stop on failure.
SettledLate == IF Failed /\ (job.kind = "suite" => job.stop) THEN "failed" ELSE "completed"

\* output.Status after the units.
SettledStatus == IF Failed THEN "failed" ELSE "completed"

SettleStatus ==
    /\ stage = "settle"
    /\ status' = SettledStatus /\ stage' = "store"
    /\ UNCHANGED <<job, future, results, current, executed, toUndo, undone, report, stored, ctxCanceled>>

\* DatabaseStorageClient files every result as completed, that of a failed workflow too.
FiledAs == "completed"

\* The storage activity, tried up to three times; its failure fails nothing.
StoreResult(ok) ==
    /\ stage = "store" /\ (ctxCanceled => ~ok)
    /\ stored' = IF ok THEN stored \cup {FiledAs} ELSE stored
    /\ stage' = IF job.kind = "compensated" /\ status = "completed" THEN "notify" ELSE "returned"
    /\ UNCHANGED <<job, future, results, current, executed, toUndo, undone, report, status, ctxCanceled>>

\* The notification of a pipeline that completed; its failure fails nothing.
SendNotification ==
    /\ stage = "notify" /\ stage' = "returned"
    /\ UNCHANGED <<job, future, results, current, executed, toUndo, undone, report, status, stored, ctxCanceled>>

\* The execution timeout ends the workflow where it stands.  Without a retry policy of its own,
\* as a test case in sequence never has one, an activity is retried until then.
ExecutionTimeout ==
    /\ stage \notin {"idle", "returned", "terminated"} /\ stage' = "terminated"
    /\ UNCHANGED <<job, future, results, current, executed, toUndo, undone, report, status, stored, ctxCanceled>>

\* Another workflow begins.
NextJob ==
    /\ stage \in {"returned", "terminated"} /\ stage' = "idle"
    /\ job' = NoJob /\ future' = <<>> /\ results' = <<>> /\ current' = 1 /\ executed' = {}
    /\ toUndo' = <<>> /\ undone' = <<>> /\ report' = "none" /\ status' = "running" /\ stored' = {} /\ ctxCanceled' = FALSE

NameLists == UNION {[1..n -> UnitName] : n \in 0..MaxUnits}
WorkflowStep ==
    \/ StartUnits \/ Compensated \/ SettleStatus \/ SendNotification
    \/ \E ok \in BOOLEAN : ValidateInput(ok) \/ CollectUnit(ok) \/ CompensateUnit(ok) \/ StoreResult(ok)

PipelineNext ==
    \/ \E kind \in Kind, parallel, stop \in BOOLEAN, names \in NameLists : StartJob(kind, parallel, stop, names)
    \/ WorkflowStep \/ CancelJob \/ ExecutionTimeout \/ NextJob
    \/ \E u \in 1..MaxUnits, ok \in BOOLEAN : ExecuteAgent(u, ok) \/ ExecuteTestCase(u, ok)

PipelineSpec == PipelineInit /\ [][PipelineNext]_pipelineVars

-----------------------------------------------------------------------------
(* Properties *)

Distinct == \A u, v \in Units : job.names[u] = job.names[v] => u = v
UndoneUnits == {undone[i].unit : i \in 1..Len(undone)}
CompletedUnits == {u \in Units : results[u] = "completed"}

\* When a pipeline with compensation returns, it has tried to roll back every agent it knows
\* to have completed if an agent failed, each once, in the reverse of the order in which they
\* were registered, and none if all completed: in parallel too, where agents end before and
\* after the failure.  Agents of the same name are told apart by nothing, so only with
\* distinct names is no other agent touched.  Its error says whether all rollbacks
\* succeeded.  The agents it knows of are all whose activity succeeded unless the workflow was
\* canceled: then what is under way is given up, and every rollback fails.
RolledBackExactly ==
    /\ PipelineTypeOK
    /\ \A i, j \in 1..Len(undone) : i < j => undone[i].unit > undone[j].unit
    /\ stage = "returned" /\ job.kind = "compensated" =>
          /\ Failed <=> report # "none"
          /\ report = "none" => undone = <<>>
          /\ report # "none" => CompletedUnits \subseteq UndoneUnits /\ (Distinct => UndoneUnits = CompletedUnits)
          /\ report = "compensated" => \A i \in 1..Len(undone) : undone[i].ok
          /\ report = "compensation failed" => \E i \in 1..Len(undone) : ~undone[i].ok
          /\ ctxCanceled \/ CompletedUnits = {u \in Units : future[u] = "ok"}

\* When units have run, none is left "running" in the results that a suite or a completed
\* pipeline returns: completed, failed and skipped test cases add up to all of them, and the
\* workflow completed if and only if every unit did.
ResultsAddUp ==
    stage \in {"store", "notify", "returned"} /\ results # <<>> /\ (\E u \in Units : results[u] # "none") =>
       /\ job.kind = "suite" => \A u \in Units : results[u] \in {"completed", "failed", "canceled"}
       /\ job.parallel => \A u \in Units : results[u] \in {"completed", "failed"}
       /\ (status = "completed") = (\A u \in Units : results[u] = "completed")

\* The built-in workflows try to undo what has to go and say whether they could, and the
\* status and the results they report add up (AIPipelineWorkflow, TestSuiteWorkflow).
PipelinesAccounted == RolledBackExactly /\ ResultsAddUp
=============================================================================
