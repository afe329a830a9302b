----------------------------- MODULE Scheduler -----------------------------
(***************************************************************************)
(* internal/scheduler: SchedulerService over a job repository and the      *)
(* asynq queue, as the job handlers of internal/api and the task handlers  *)
(* use it.  Records live in the database and tasks in Redis, both survive  *)
(* a restart; cron entries live in the process.  Every call to the         *)
(* repository or to the queue is a step, and may fail; one that fails may  *)
(* have taken effect all the same (made).                                  *)
(*                                                                         *)
(* asynq is external: its tasks are retried up to MaxRetry times, a task   *)
(* whose server died is recovered, and one whose server was shut down is   *)
(* put back.  The task handlers are taken to report to MarkJobStarted      *)
(* before they work and to one of the other Mark operations after it.      *)
(***************************************************************************)
EXTENDS Integers

CONSTANTS
    Job, Canceller,
    MaxRetry,     \* JobRequest.MaxRetries
    MaxFires,     \* bound: tasks a cron entry makes
    MaxRestarts   \* bound: how often the process is started anew

ASSUME SchedulerAssumption == MaxRetry \in Nat /\ MaxFires \in Nat /\ MaxRestarts \in Nat

VARIABLES
    kind,        \* how each job is asked for
    request,     \* where SubmitJob, ScheduleJob or CreateRecurringJob is
    record,      \* [Job -> [status, cron, retries, result]]
    task,        \* the job's asynq task
    attempts,    \* how often asynq has retried it
    entry,       \* a cron entry is registered
    fires,       \* how often it has fired
    runner,      \* where the handler of the task is
    canceller,   \* each caller of CancelJob: [at, job]
    server,      \* "down", "serving", or "closed" for good
    running,     \* Manager.running
    restarts,    \* history: how often the process was started anew
    disturbed,   \* history: jobs with a failed repository call, or cut short by a crash or Stop
    requeued,    \* history: jobs whose task was put back by a shutdown
    cancelOk     \* history: jobs whose CancelJob returned nil

history == <<restarts, disturbed, requeued, cancelOk>>
queue == <<task, attempts, entry, fires>>
vars == <<kind, request, record, queue, runner, canceller, server, running, history>>

Kind == {"submit", "schedule", "recurring"}
Status == {"pending", "scheduled", "running", "completed", "failed", "cancelled", "retrying"}
Record == [status : Status \cup {"none"}, cron : BOOLEAN, retries : Nat, result : BOOLEAN]
NoRecord == [status |-> "none", cron |-> FALSE, retries |-> 0, result |-> FALSE]
NotFound(j) == record[j].status = "none"

TypeOK ==
    /\ kind \in [Job -> Kind]
    /\ request \in [Job -> {"new", "create", "enqueue", "markFailed", "register", "unregister",
                            "accepted", "refused"}]
    /\ record \in [Job -> Record]
    /\ task \in [Job -> {"none", "scheduled", "pending", "active", "retry", "done", "archived"}]
    /\ attempts \in [Job -> 0..MaxRetry] /\ fires \in [Job -> 0..MaxFires]
    /\ entry \in [Job -> BOOLEAN]
    /\ runner \in [Job -> {"none", "start", "work", "complete", "result", "fail", "retrying", "count",
                           "ackOk", "ackError"}]
    /\ canceller \in [Canceller -> [at : {"idle", "unregister", "update"}, job : Job]]
    /\ server \in {"down", "serving", "closed"} /\ running \in BOOLEAN
    /\ restarts \in 0..MaxRestarts
    /\ disturbed \subseteq Job /\ requeued \subseteq Job /\ cancelOk \subseteq Job

Init ==
    /\ kind \in [Job -> Kind]
    /\ request = [j \in Job |-> "new"]
    /\ record = [j \in Job |-> NoRecord]
    /\ task = [j \in Job |-> "none"] /\ attempts = [j \in Job |-> 0]
    /\ entry = [j \in Job |-> FALSE] /\ fires = [j \in Job |-> 0]
    /\ runner = [j \in Job |-> "none"]
    /\ canceller \in [Canceller -> [at : {"idle"}, job : Job]]
    /\ server = "down" /\ running = FALSE
    /\ restarts = 0 /\ disturbed = {} /\ requeued = {} /\ cancelOk = {}

-----------------------------------------------------------------------------
\* SubmitJob, ScheduleJob and CreateRecurringJob

RequestStep(j, label) ==
    /\ request' = [request EXCEPT ![j] = label]
    /\ UNCHANGED <<kind, attempts, fires, runner, canceller, server, running, restarts, requeued,
                   cancelOk>>

Disturb(j) == disturbed' = disturbed \cup {j}

Begin(j) ==
    /\ request[j] = "new"
    /\ RequestStep(j, IF kind[j] = "recurring" THEN "register" ELSE "create")
    /\ UNCHANGED <<record, task, entry, disturbed>>

NewRecord(j) ==
    [NoRecord EXCEPT !.status = IF kind[j] = "submit" THEN "pending" ELSE "scheduled",
                     !.cron = (kind[j] = "recurring")]

\* Wrong on purpose: a recurring job that cannot be recorded stays registered.
AfterFailedCreateGiveUp(j) == "refused"

AfterFailedCreate(j) == IF kind[j] = "recurring" THEN "unregister" ELSE "refused"

CreateJob(j, ok, made) ==
    /\ request[j] = "create"
    /\ ok => made
    /\ record' = IF made THEN [record EXCEPT ![j] = NewRecord(j)] ELSE record
    /\ RequestStep(j, IF ~ok THEN AfterFailedCreate(j)
                      ELSE IF kind[j] = "recurring" THEN "accepted" ELSE "enqueue")
    /\ IF ok THEN UNCHANGED disturbed ELSE Disturb(j)
    /\ UNCHANGED <<task, entry>>

\* Wrong on purpose: the record is left as it is.
AfterFailedEnqueueReturn == "refused"

\* Wrong on purpose: the error is dropped.
AfterFailedEnqueueGoOn == "accepted"

AfterFailedEnqueue == "markFailed"

\* EnqueueTask or ScheduleTask; a client that Stop has closed refuses.
EnqueueTask(j, ok, made) ==
    /\ request[j] = "enqueue"
    /\ ok => made
    /\ made => server # "closed"
    /\ task' = IF made THEN [task EXCEPT ![j] = IF kind[j] = "submit" THEN "pending" ELSE "scheduled"]
               ELSE task
    /\ RequestStep(j, IF ok THEN "accepted" ELSE AfterFailedEnqueue)
    /\ UNCHANGED <<record, entry, disturbed>>

\* UpdateJobStatus(Failed), whose own failure is ignored.
SubmitFailed(j, ok) ==
    /\ request[j] = "markFailed"
    /\ record' = IF ok THEN [record EXCEPT ![j].status = "failed"] ELSE record
    /\ RequestStep(j, "refused")
    /\ IF ok THEN UNCHANGED disturbed ELSE Disturb(j)
    /\ UNCHANGED <<task, entry>>

\* EnqueueRecurringTask: the record comes after it.
Register(j, ok) ==
    /\ request[j] = "register"
    /\ entry' = [entry EXCEPT ![j] = ok]
    /\ RequestStep(j, IF ok THEN "create" ELSE "refused")
    /\ UNCHANGED <<record, task, disturbed>>

Unregister(j) ==
    /\ request[j] = "unregister"
    /\ entry' = [entry EXCEPT ![j] = FALSE]
    /\ RequestStep(j, "refused")
    /\ UNCHANGED <<record, task, disturbed>>

-----------------------------------------------------------------------------
\* CancelJob

\* Wrong on purpose: the entry of a recurring job is not looked for.
HasCronEntryNever(j) == FALSE

HasCronEntry(j) == record[j].cron

Cancellable(j) == ~NotFound(j) /\ record[j].status \notin {"completed", "cancelled"}

CancelStep(c, label) ==
    /\ canceller' = [canceller EXCEPT ![c].at = label]
    /\ UNCHANGED <<kind, request, task, attempts, fires, runner, server, running, restarts, requeued>>

\* GetJob and the check; the record may have changed by the time it is written.
CancelJob(c, j) ==
    /\ canceller[c].at = "idle"
    /\ Cancellable(j)
    /\ canceller' = [canceller EXCEPT ![c] =
                        [at |-> IF HasCronEntry(j) THEN "unregister" ELSE "update", job |-> j]]
    /\ UNCHANGED <<kind, request, record, queue, runner, server, running, history>>

\* An entry that is not there is an error, and ignored.
CancelUnregister(c) ==
    /\ canceller[c].at = "unregister"
    /\ entry' = [entry EXCEPT ![canceller[c].job] = FALSE]
    /\ CancelStep(c, "update")
    /\ UNCHANGED <<record, disturbed, cancelOk>>

CancelUpdate(c, ok, made) ==
    LET j == canceller[c].job
    IN  /\ canceller[c].at = "update"
        /\ ok => made
        /\ record' = IF made THEN [record EXCEPT ![j].status = "cancelled"] ELSE record
        /\ cancelOk' = IF ok THEN cancelOk \cup {j} ELSE cancelOk
        /\ IF ok THEN UNCHANGED disturbed ELSE Disturb(j)
        /\ CancelStep(c, "idle")
        /\ UNCHANGED entry

-----------------------------------------------------------------------------
\* The queue

TaskStep(j, label) ==
    /\ task' = [task EXCEPT ![j] = label]
    /\ UNCHANGED <<kind, request, record, entry, canceller, server, running, history>>

\* The time of a scheduled task or of a retry comes.
Due(j) ==
    /\ task[j] \in {"scheduled", "retry"}
    /\ TaskStep(j, "pending")
    /\ UNCHANGED <<attempts, fires, runner>>

Fire(j) ==
    /\ server = "serving" /\ entry[j]
    /\ fires[j] < MaxFires
    /\ task[j] \in {"none", "done", "archived"}
    /\ TaskStep(j, "pending")
    /\ fires' = [fires EXCEPT ![j] = @ + 1]
    /\ attempts' = [attempts EXCEPT ![j] = 0]
    /\ UNCHANGED runner

Take(j) ==
    /\ server = "serving"
    /\ task[j] = "pending"
    /\ TaskStep(j, "active")
    /\ runner' = [runner EXCEPT ![j] = "start"]
    /\ UNCHANGED <<attempts, fires>>

\* What becomes of a task whose run ended in an error or with its server.
RetryOrArchive(j) ==
    IF attempts[j] < MaxRetry
    THEN TaskStep(j, "retry") /\ attempts' = [attempts EXCEPT ![j] = @ + 1]
    ELSE TaskStep(j, "archived") /\ UNCHANGED attempts

Ack(j) ==
    /\ runner[j] \in {"ackOk", "ackError"}
    /\ IF runner[j] = "ackOk" THEN TaskStep(j, "done") /\ UNCHANGED attempts ELSE RetryOrArchive(j)
    /\ runner' = [runner EXCEPT ![j] = "none"]
    /\ UNCHANGED fires

Recover(j) ==
    /\ server = "serving"
    /\ task[j] = "active" /\ runner[j] = "none"
    /\ RetryOrArchive(j)
    /\ UNCHANGED <<fires, runner>>

-----------------------------------------------------------------------------
\* The task handler's reports

\* A repository call of a Mark operation: rec is what it writes, next where the
\* handler goes on, which it does even if the call fails.
Report(j, rec, next, ok) ==
    /\ record' = IF ok THEN [record EXCEPT ![j] = rec] ELSE record
    /\ runner' = [runner EXCEPT ![j] = next]
    /\ IF ok THEN UNCHANGED disturbed ELSE Disturb(j)
    /\ UNCHANGED <<kind, request, queue, canceller, server, running, restarts, requeued, cancelOk>>

MarkJobStarted(j, ok) ==
    /\ runner[j] = "start"
    /\ ok => ~NotFound(j)
    /\ Report(j, [record[j] EXCEPT !.status = "running"], "work", ok)

Work(j, ok) ==
    /\ runner[j] = "work"
    /\ runner' = [runner EXCEPT ![j] = IF ok THEN "complete"
                                       ELSE IF attempts[j] < MaxRetry THEN "retrying" ELSE "fail"]
    /\ UNCHANGED <<kind, request, record, queue, canceller, server, running, history>>

MarkJobCompleted(j, ok) ==
    /\ runner[j] = "complete"
    /\ ok => ~NotFound(j)
    /\ Report(j, [record[j] EXCEPT !.status = "completed"], IF ok THEN "result" ELSE "ackOk", ok)

\* The end of MarkJobCompleted, for a job that has a result.
SetJobResult(j, ok) ==
    /\ runner[j] = "result"
    /\ Report(j, [record[j] EXCEPT !.result = TRUE], "ackOk", ok)

\* Wrong on purpose: a last failure is reported like the others.
FailedStatusRetrying == "retrying"

FailedStatus == "failed"

MarkJobFailed(j, ok) ==
    /\ runner[j] = "fail"
    /\ ok => ~NotFound(j)
    /\ Report(j, [record[j] EXCEPT !.status = FailedStatus], "ackError", ok)

MarkJobRetrying(j, ok) ==
    /\ runner[j] = "retrying"
    /\ ok => ~NotFound(j)
    /\ Report(j, [record[j] EXCEPT !.status = "retrying"], IF ok THEN "count" ELSE "ackError", ok)

\* Wrong on purpose: the count is raised once more for the run that comes.
CountedTwice(n) == n + 2

Counted(n) == n + 1

IncrementRetryCount(j, ok) ==
    /\ runner[j] = "count"
    /\ Report(j, [record[j] EXCEPT !.retries = Counted(@)], "ackError", ok)

RunnerStep(j) ==
    \/ Ack(j)
    \/ \E ok \in BOOLEAN :
         \/ MarkJobStarted(j, ok) \/ Work(j, ok) \/ MarkJobCompleted(j, ok) \/ SetJobResult(j, ok)
         \/ MarkJobFailed(j, ok) \/ MarkJobRetrying(j, ok) \/ IncrementRetryCount(j, ok)

-----------------------------------------------------------------------------
\* The process

\* A server that has been shut down does not run again.
Start ==
    /\ ~running
    /\ running' = TRUE
    /\ server' = IF server = "down" THEN "serving" ELSE server
    /\ UNCHANGED <<kind, request, record, queue, runner, canceller, history>>

Active == {j \in Job : runner[j] # "none"}

\* Handlers that have not returned within ShutdownTimeout are cut short and their
\* tasks put back.
Stop ==
    /\ running
    /\ running' = FALSE /\ server' = "closed"
    /\ task' = [j \in Job |-> IF j \in Active THEN "pending" ELSE task[j]]
    /\ runner' = [j \in Job |-> "none"]
    /\ requeued' = requeued \cup Active
    /\ disturbed' = disturbed \cup Active
    /\ UNCHANGED <<kind, request, record, attempts, entry, fires, canceller, restarts, cancelOk>>

InCall == {j \in Job : request[j] \notin {"new", "accepted", "refused"}}
         \cup {canceller[c].job : c \in {d \in Canceller : canceller[d].at # "idle"}}

\* The process ends, after Stop or by a crash, and is started anew: calls, handlers
\* and cron entries are gone.
Restart ==
    /\ restarts < MaxRestarts
    /\ restarts' = restarts + 1
    /\ running' = FALSE /\ server' = "down"
    /\ entry' = [j \in Job |-> FALSE]
    /\ runner' = [j \in Job |-> "none"]
    /\ request' = [j \in Job |-> IF request[j] \in {"new", "accepted"} THEN request[j] ELSE "refused"]
    /\ canceller' = [c \in Canceller |-> [canceller[c] EXCEPT !.at = "idle"]]
    /\ disturbed' = disturbed \cup Active \cup InCall \cup {j \in Job : entry[j]}
    /\ UNCHANGED <<kind, record, task, attempts, fires, requeued, cancelOk>>

RequestNext(j) ==
    \/ Begin(j) \/ Unregister(j)
    \/ \E ok \in BOOLEAN : SubmitFailed(j, ok) \/ Register(j, ok)
    \/ \E ok, made \in BOOLEAN : CreateJob(j, ok, made) \/ EnqueueTask(j, ok, made)

CancelNext(c) ==
    \/ \E j \in Job : CancelJob(c, j)
    \/ CancelUnregister(c)
    \/ \E ok, made \in BOOLEAN : CancelUpdate(c, ok, made)

Next ==
    \/ \E j \in Job : RequestNext(j) \/ RunnerStep(j) \/ Due(j) \/ Fire(j) \/ Take(j) \/ Recover(j)
    \/ \E c \in Canceller : CancelNext(c)
    \/ Start \/ Stop \/ Restart

Spec == Init /\ [][Next]_vars

\* asynq serves its queues and task handlers return.
Fairness ==
    \A j \in Job : WF_vars(RunnerStep(j)) /\ WF_vars(Take(j)) /\ WF_vars(Due(j)) /\ WF_vars(Recover(j))

FairSpec == Spec /\ Fairness

-----------------------------------------------------------------------------
(* Properties *)

Over(j) == request[j] \in {"accepted", "refused"} /\ j \notin InCall /\ runner[j] = "none"

\* A cron entry always has a record, or the call that registered it is still at work: one
\* step of CreateRecurringJob failing does not leave a job that fires for ever unseen.
\* CancelJob removes the entry through that record, with one exception: it refuses a job
\* whose last run was reported completed, until the start of the next one is reported.  It
\* never meets a record that says cancelled while the entry still fires.
NoOrphanEntry ==
    /\ TypeOK
    /\ \A j \in Job :
          entry[j] =>
              \/ request[j] \in {"create", "unregister"}
              \/ /\ record[j].cron
                 /\ Cancellable(j) \/ (record[j].status = "completed" /\ fires[j] > 0)

\* Once CancelJob has returned without an error, the job's cron entry is gone.
CancelledStopsFiring == \A j \in cancelOk : ~entry[j]

\* Whatever fails, a cron entry is on record and open to CancelJob except after a completed
\* run, and a CancelJob that reports success has removed it.
EntriesUnderControl == NoOrphanEntry /\ CancelledStopsFiring

\* A record that waits to be run has a task or a cron entry behind it, unless the
\* repository or the process failed: a submission the queue refused is not left
\* looking as if it were queued.
WaitingIsQueued ==
    \A j \in Job \ disturbed :
        Over(j) /\ record[j].status \in {"pending", "scheduled"} => task[j] # "none" \/ entry[j]

\* When the task is over and nobody is at work on the job, its record says how it
\* ended, in whatever order the submission, the handler and cancellations wrote it.
StatusSettles ==
    \A j \in Job \ disturbed :
        Over(j) /\ task[j] \in {"done", "archived"}
            => record[j].status \in {"completed", "failed", "cancelled"}

\* The record of a job counts no more retries than it was allowed, as long as no
\* shutdown put its task back, through crashes between counting and acknowledging.
RetriesWithinLimit ==
    \A j \in Job \ requeued : kind[j] # "recurring" => record[j].retries <= MaxRetry

\* The record of a job tells what became of it, through refused submissions, cancellations
\* and Mark operations in any order, and crashes.
RecordTellsTruth == WaitingIsQueued /\ StatusSettles /\ RetriesWithinLimit

\* A job whose submission was accepted is run to the end or given up, if the server
\* stays up from some time on, whatever crashes came before.
AcceptedRuns ==
    <>[](server = "serving") =>
        \A j \in Job : request[j] = "accepted" /\ kind[j] # "recurring" ~> task[j] \in {"done", "archived"}
=============================================================================
