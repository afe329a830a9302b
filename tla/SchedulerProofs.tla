--------------------------- MODULE SchedulerProofs ---------------------------
(***************************************************************************)
(* Of every set of jobs and callers of CancelJob, whatever calls fail and  *)
(* however often the process is started anew: cron entries stay under the  *)
(* control of the job records.                                             *)
(***************************************************************************)
EXTENDS Scheduler, TLAPS

\* A record is made once, after the registration that comes with its kind, and
\* says whether its job is recurring; a task is enqueued after it.
RecordMatchesKind ==
    \A j \in Job :
        /\ ~NotFound(j) => /\ record[j].cron = (kind[j] = "recurring")
                           /\ request[j] \notin {"new", "register", "create"}
        /\ request[j] \in {"enqueue", "markFailed"} => ~NotFound(j)

\* Only CreateRecurringJob registers.
OnlyRecurringRegistered ==
    \A j \in Job : /\ request[j] \in {"register", "unregister"} => kind[j] = "recurring"
                   /\ entry[j] => kind[j] = "recurring" /\ request[j] \notin {"new", "register"}

\* CancelJob works on jobs that have a record, and has removed the entry before it
\* writes the status.
CancelBehind ==
    \A c \in Canceller :
        canceller[c].at # "idle" =>
            /\ ~NotFound(canceller[c].job)
            /\ canceller[c].at = "update" => ~entry[canceller[c].job]

EntriesRecorded ==
    \A j \in Job :
        entry[j] => request[j] \in {"create", "unregister"} \/ (~NotFound(j) /\ record[j].cron)

\* A job that was cancelled has a record and no entry.
CancelledRecorded == \A j \in cancelOk : ~NotFound(j) /\ ~entry[j]

IInv ==
    /\ TypeOK /\ RecordMatchesKind /\ OnlyRecurringRegistered /\ CancelBehind /\ EntriesRecorded
    /\ CancelledRecorded

-----------------------------------------------------------------------------
\* The program starts with nothing recorded, registered or cancelled.
LEMMA InitInv == Init => IInv
<1> USE SchedulerAssumption
<1> SUFFICES ASSUME Init PROVE IInv
  OBVIOUS
<1>1. TypeOK
  <2>1. NoRecord \in Record
    BY DEF NoRecord, Record
  <2>2. canceller \in [Canceller -> [at : {"idle", "unregister", "update"}, job : Job]]
    BY DEF Init
  <2>3. record \in [Job -> Record] /\ kind \in [Job -> Kind]
    BY <2>1 DEF Init
  <2>4. attempts \in [Job -> 0..MaxRetry] /\ fires \in [Job -> 0..MaxFires] /\ restarts \in 0..MaxRestarts
    BY DEF Init
  <2> QED
    BY <2>2, <2>3, <2>4 DEF Init, TypeOK
<1>2. RecordMatchesKind /\ OnlyRecurringRegistered /\ CancelBehind /\ EntriesRecorded /\ CancelledRecorded
  BY DEF Init, NoRecord, NotFound, RecordMatchesKind, OnlyRecurringRegistered, CancelBehind,
         EntriesRecorded, CancelledRecorded
<1> QED
  BY <1>1, <1>2 DEF IInv

\* Writing a status into a record changes neither whether it exists nor its kind.
LEMMA StatusUpdate ==
  ASSUME NEW j \in Job, NEW s \in Status \ {"none"}, record \in [Job -> Record], record[j].status # "none",
         record' = [record EXCEPT ![j].status = s] \/ record' = record
  PROVE  /\ record' \in [Job -> Record]
         /\ \A i \in Job : (NotFound(i)' <=> NotFound(i)) /\ record'[i].cron = record[i].cron
  BY DEF Record, NotFound

\* The links hold on when the records change in nothing they speak of, calls of CancelJob end,
\* and jobs are cancelled that have a record and no entry.
LEMMA LinksKept ==
  ASSUME IInv, TypeOK', kind' = kind, entry' = entry,
         \A i \in Job : (NotFound(i)' <=> NotFound(i)) /\ record'[i].cron = record[i].cron,
         \A i \in Job : request'[i] = request[i] \/ (request[i] = "markFailed" /\ request'[i] = "refused"),
         \A d \in Canceller : canceller'[d].at = "idle" \/ canceller'[d] = canceller[d],
         \A i \in cancelOk' : i \in cancelOk \/ (~NotFound(i) /\ ~entry[i])
  PROVE  IInv'
<1>1. cancelOk' \subseteq Job /\ canceller \in [Canceller -> [at : {"idle", "unregister", "update"}, job : Job]]
  BY DEF IInv, TypeOK
<1>2. RecordMatchesKind' /\ OnlyRecurringRegistered' /\ EntriesRecorded'
  BY DEF IInv, RecordMatchesKind, OnlyRecurringRegistered, EntriesRecorded
<1>3. CancelBehind' /\ CancelledRecorded'
  BY <1>1 DEF IInv, CancelBehind, CancelledRecorded
<1> QED
  BY <1>2, <1>3 DEF IInv

\* The record of a submission that failed is marked.
LEMMA SubmitFailedKeeps == ASSUME IInv, NEW j \in Job, NEW ok \in BOOLEAN, SubmitFailed(j, ok) PROVE IInv'
<1>1. record' = [record EXCEPT ![j].status = "failed"] \/ record' = record
  BY DEF SubmitFailed
<1>2. /\ request[j] = "markFailed" /\ request' = [request EXCEPT ![j] = "refused"]
      /\ disturbed' = disturbed \/ disturbed' = disturbed \cup {j}
      /\ UNCHANGED <<kind, canceller, task, attempts, fires, runner, server, running, restarts,
                     requeued, entry, cancelOk>>
  BY DEF SubmitFailed, RequestStep, Disturb
<1>3. record \in [Job -> Record] /\ record[j].status # "none"
  BY <1>2 DEF IInv, TypeOK, RecordMatchesKind, NotFound
<1>4. /\ record' \in [Job -> Record]
      /\ \A i \in Job : (NotFound(i)' <=> NotFound(i)) /\ record'[i].cron = record[i].cron
  BY <1>1, <1>3, StatusUpdate DEF Status
<1>5. request \in [Job -> {"new", "create", "enqueue", "markFailed", "register", "unregister",
                           "accepted", "refused"}]
  BY DEF IInv, TypeOK
<1>6. TypeOK'
  BY <1>2, <1>4 DEF IInv, TypeOK
<1> QED
  BY <1>2, <1>4, <1>5, <1>6, LinksKept

\* CancelJob writes its status last.
LEMMA CancelUpdateKeeps ==
  ASSUME IInv, NEW c \in Canceller, NEW ok \in BOOLEAN, NEW made \in BOOLEAN, CancelUpdate(c, ok, made)
  PROVE  IInv'
<1> DEFINE k == canceller[c].job
<1>1. k \in Job /\ canceller[c].at = "update" /\ ~NotFound(k) /\ ~entry[k]
  BY DEF CancelUpdate, IInv, TypeOK, CancelBehind
<1>2. record' = [record EXCEPT ![k].status = "cancelled"] \/ record' = record
  BY DEF CancelUpdate
<1>3. /\ canceller' = [canceller EXCEPT ![c].at = "idle"]
      /\ cancelOk' = cancelOk \cup {k} \/ cancelOk' = cancelOk
      /\ disturbed' = disturbed \cup {k} \/ disturbed' = disturbed
      /\ UNCHANGED <<kind, request, task, attempts, fires, runner, server, running, restarts,
                     requeued, entry>>
  BY DEF CancelUpdate, CancelStep, Disturb
<1>4. canceller \in [Canceller -> [at : {"idle", "unregister", "update"}, job : Job]]
  BY DEF IInv, TypeOK
<1>5. /\ canceller' \in [Canceller -> [at : {"idle", "unregister", "update"}, job : Job]]
      /\ \A d \in Canceller : canceller'[d].at = "idle" \/ canceller'[d] = canceller[d]
  BY <1>3, <1>4
<1> HIDE DEF k
<1>6. record \in [Job -> Record] /\ record[k].status # "none"
  BY <1>1 DEF IInv, TypeOK, NotFound
<1>7. /\ record' \in [Job -> Record]
      /\ \A i \in Job : (NotFound(i)' <=> NotFound(i)) /\ record'[i].cron = record[i].cron
  BY <1>1, <1>2, <1>6, StatusUpdate DEF Status
<1>8. TypeOK'
  BY <1>1, <1>3, <1>5, <1>7 DEF IInv, TypeOK
<1> QED
  BY <1>1, <1>3, <1>5, <1>7, <1>8, LinksKept

\* A step of the three submission calls keeps the types and the links.
LEMMA RequestKeeps == ASSUME IInv, NEW j \in Job, RequestNext(j) PROVE IInv'
<1> USE SchedulerAssumption DEF IInv, TypeOK, Record, Status, Kind, RequestStep, Disturb, NotFound,
        RecordMatchesKind, OnlyRecurringRegistered, CancelBehind, EntriesRecorded, CancelledRecorded
<1>1. CASE Begin(j)
  BY <1>1 DEF Begin
<1>2. CASE Unregister(j)
  BY <1>2 DEF Unregister
<1>3. ASSUME NEW ok \in BOOLEAN, SubmitFailed(j, ok) PROVE IInv'
  BY <1>3, SubmitFailedKeeps
<1>4. ASSUME NEW ok \in BOOLEAN, Register(j, ok) PROVE IInv'
  BY <1>4 DEF Register
<1>5. ASSUME NEW ok \in BOOLEAN, NEW made \in BOOLEAN, CreateJob(j, ok, made) PROVE IInv'
  <2>1. NewRecord(j) \in Record /\ NewRecord(j).status # "none"
        /\ NewRecord(j).cron = (kind[j] = "recurring")
    BY DEF NewRecord, NoRecord
  <2>2. CASE made
    BY <1>5, <2>1, <2>2 DEF CreateJob, AfterFailedCreate
  <2>3. CASE ~made
    BY <1>5, <2>3 DEF CreateJob, AfterFailedCreate
  <2> QED
    BY <2>2, <2>3
<1>6. ASSUME NEW ok \in BOOLEAN, NEW made \in BOOLEAN, EnqueueTask(j, ok, made) PROVE IInv'
  BY <1>6 DEF EnqueueTask, AfterFailedEnqueue
<1> QED
  BY <1>1, <1>2, <1>3, <1>4, <1>5, <1>6 DEF RequestNext

\* So does a step of CancelJob.
LEMMA CancelKeeps == ASSUME IInv, NEW c \in Canceller, CancelNext(c) PROVE IInv'
<1> USE SchedulerAssumption DEF IInv, TypeOK, Record, Status, Kind, CancelStep, Disturb, NotFound,
        RecordMatchesKind, OnlyRecurringRegistered, CancelBehind, EntriesRecorded, CancelledRecorded
<1>1. ASSUME NEW j \in Job, CancelJob(c, j) PROVE IInv'
  BY <1>1 DEF CancelJob, Cancellable, HasCronEntry, queue, history
<1>2. CASE CancelUnregister(c)
  BY <1>2 DEF CancelUnregister
<1>3. ASSUME NEW ok \in BOOLEAN, NEW made \in BOOLEAN, CancelUpdate(c, ok, made) PROVE IInv'
  BY <1>3, CancelUpdateKeeps
<1> QED
  BY <1>1, <1>2, <1>3 DEF CancelNext

\* So does a report of a task handler: none changes whether a record exists or is
\* that of a recurring job.
LEMMA ReportKeeps ==
  ASSUME IInv, NEW j \in Job, NEW ok \in BOOLEAN, NEW rec \in Record,
         NEW next \in {"work", "result", "count", "ackOk", "ackError"},
         Report(j, rec, next, ok), rec.cron = record[j].cron,
         ok /\ rec.status = "none" => NotFound(j),
         ok /\ NotFound(j) => rec.status = "none"
  PROVE  IInv'
  BY SchedulerAssumption
  DEF Report, queue, IInv, TypeOK, Kind, Disturb, NotFound, RecordMatchesKind,
      OnlyRecurringRegistered, CancelBehind, EntriesRecorded, CancelledRecorded

\* The queue and the server leave records alone, and entries but for Restart.
LEMMA RunnerKeeps == ASSUME IInv, NEW j \in Job, RunnerStep(j) PROVE IInv'
<1>1. CASE Ack(j)
  BY <1>1, SchedulerAssumption
  DEF Ack, TaskStep, RetryOrArchive, history, IInv, TypeOK, NotFound, RecordMatchesKind,
      OnlyRecurringRegistered, CancelBehind, EntriesRecorded, CancelledRecorded
<1>2. ASSUME NEW ok \in BOOLEAN, Work(j, ok) PROVE IInv'
  BY <1>2, SchedulerAssumption
  DEF Work, queue, history, IInv, TypeOK, NotFound, RecordMatchesKind,
      OnlyRecurringRegistered, CancelBehind, EntriesRecorded, CancelledRecorded
<1>3. record[j] \in Record
  BY DEF IInv, TypeOK
<1>4. ASSUME NEW ok \in BOOLEAN, MarkJobStarted(j, ok) PROVE IInv'
  BY <1>3, <1>4, ReportKeeps DEF MarkJobStarted, Record, Status, NotFound
<1>5. ASSUME NEW ok \in BOOLEAN, MarkJobCompleted(j, ok) PROVE IInv'
  BY <1>3, <1>5, ReportKeeps DEF MarkJobCompleted, Record, Status, NotFound
<1>6. ASSUME NEW ok \in BOOLEAN, SetJobResult(j, ok) PROVE IInv'
  <2> DEFINE rec == [record[j] EXCEPT !.result = TRUE]
  <2>1. Report(j, rec, "ackOk", ok)
    BY <1>6 DEF SetJobResult
  <2>2. rec \in Record /\ rec.cron = record[j].cron /\ rec.status = record[j].status
    BY <1>3 DEF Record
  <2> QED
    BY <2>1, <2>2, ReportKeeps DEF NotFound
<1>7. ASSUME NEW ok \in BOOLEAN, MarkJobFailed(j, ok) PROVE IInv'
  BY <1>3, <1>7, ReportKeeps DEF MarkJobFailed, FailedStatus, Record, Status, NotFound
<1>8. ASSUME NEW ok \in BOOLEAN, MarkJobRetrying(j, ok) PROVE IInv'
  BY <1>3, <1>8, ReportKeeps DEF MarkJobRetrying, Record, Status, NotFound
<1>9. ASSUME NEW ok \in BOOLEAN, IncrementRetryCount(j, ok) PROVE IInv'
  BY <1>3, <1>9, ReportKeeps DEF IncrementRetryCount, Counted, Record, NotFound
<1> QED
  BY <1>1, <1>2, <1>4, <1>5, <1>6, <1>7, <1>8, <1>9 DEF RunnerStep

\* The rest of the queue, the server and the process: records stay, and entries
\* but for Restart, which ends the calls as well.
LEMMA ProcessKeeps ==
  ASSUME IInv,
         Start \/ Stop \/ Restart \/ \E j \in Job : Due(j) \/ Fire(j) \/ Take(j) \/ Recover(j)
  PROVE  IInv'
<1> USE SchedulerAssumption DEF IInv, TypeOK, NotFound, RecordMatchesKind, OnlyRecurringRegistered,
        CancelBehind, EntriesRecorded, CancelledRecorded
<1>1. CASE Start
  BY <1>1 DEF Start, queue, history
<1>2. CASE Stop
  BY <1>2 DEF Stop, Active
<1>3. CASE Restart
  <2>1. canceller' \in [Canceller -> [at : {"idle", "unregister", "update"}, job : Job]]
        /\ \A c \in Canceller : canceller'[c].at = "idle"
    BY <1>3 DEF Restart
  <2>2. InCall \subseteq Job /\ Active \subseteq Job
    BY DEF InCall, Active
  <2>3. /\ kind' = kind /\ record' = record /\ cancelOk' = cancelOk
        /\ entry' = [j \in Job |-> FALSE]
        /\ request' = [j \in Job |-> IF request[j] \in {"new", "accepted"} THEN request[j] ELSE "refused"]
    BY <1>3 DEF Restart
  <2>4. TypeOK'
    <3>1. disturbed' \subseteq Job
      BY <1>3, <2>2 DEF Restart
    <3>2. UNCHANGED <<task, attempts, fires, requeued>> /\ server' = "down" /\ running' = FALSE
          /\ runner' = [j \in Job |-> "none"] /\ restarts' \in 0..MaxRestarts
      BY <1>3 DEF Restart
    <3> QED
      BY <2>1, <2>3, <3>1, <3>2
  <2> QED
    BY <2>1, <2>3, <2>4
<1>4. ASSUME NEW j \in Job, Due(j) \/ Take(j) PROVE IInv'
  BY <1>4 DEF Due, Take, TaskStep, history
<1>5. ASSUME NEW j \in Job, Fire(j) PROVE IInv'
  BY <1>5 DEF Fire, TaskStep, history
<1>6. ASSUME NEW j \in Job, Recover(j) PROVE IInv'
  BY <1>6 DEF Recover, RetryOrArchive, TaskStep, history
<1> QED
  BY <1>1, <1>2, <1>3, <1>4, <1>5, <1>6

\* IInv mentions nothing but variables.
LEMMA StutterKeeps == IInv /\ UNCHANGED vars => IInv'
  BY DEF vars, queue, history, IInv, TypeOK, NotFound, RecordMatchesKind, OnlyRecurringRegistered,
         CancelBehind, EntriesRecorded, CancelledRecorded

-----------------------------------------------------------------------------
\* The inductive invariant holds in every behaviour.
THEOREM Inductive == Spec => []IInv
<1>1. IInv /\ [Next]_vars => IInv'
  BY RequestKeeps, CancelKeeps, RunnerKeeps, ProcessKeeps, StutterKeeps DEF Next
<1> QED
  BY InitInv, <1>1, PTL DEF Spec

\* Where the handler of a task is.
Runners == {"none", "start", "work", "complete", "result", "fail", "retrying", "count", "ackOk", "ackError"}

\* The types that steps are computed with.
JobTypes ==
    /\ kind \in [Job -> Kind] /\ record \in [Job -> Record] /\ entry \in [Job -> BOOLEAN]
    /\ request \in [Job -> {"new", "create", "enqueue", "markFailed", "register", "unregister",
                            "accepted", "refused"}]
    /\ task \in [Job -> {"none", "scheduled", "pending", "active", "retry", "done", "archived"}]
    /\ attempts \in [Job -> 0..MaxRetry] /\ runner \in [Job -> Runners]
    /\ MaxRetry \in Nat

\* They follow from IInv.
LEMMA Types == IInv => JobTypes
  BY SchedulerAssumption DEF IInv, TypeOK, JobTypes, Runners

\* A recurring job has no task and no handler before its entry fires, so no run is reported
\* of it; and what is recorded as cancelled has no entry.
FiresFirst(j) ==
    /\ kind[j] = "recurring" => request[j] \notin {"enqueue", "markFailed"}
    /\ kind[j] = "recurring" /\ fires[j] = 0 =>
          /\ task[j] = "none" /\ runner[j] = "none"
          /\ record[j].status \in {"none", "scheduled", "cancelled"}
    /\ record[j].status = "cancelled" => ~entry[j]

\* The submission calls keep it: only CreateRecurringJob registers, before its record is made.
LEMMA RequestFires ==
  ASSUME IInv, NEW j \in Job, FiresFirst(j), NEW i \in Job, RequestNext(i)
  PROVE  FiresFirst(j)'
<1> USE Types DEF JobTypes
<1>1. UNCHANGED <<kind, fires, runner>>
  BY DEF RequestNext, Begin, Unregister, SubmitFailed, Register, CreateJob, EnqueueTask, RequestStep
<1>2. CASE Begin(i)
  BY <1>1, <1>2 DEF Begin, RequestStep, FiresFirst
<1>3. CASE Unregister(i)
  BY <1>1, <1>3 DEF Unregister, RequestStep, FiresFirst
<1>4. ASSUME NEW ok \in BOOLEAN, SubmitFailed(i, ok) PROVE FiresFirst(j)'
  BY <1>1, <1>4 DEF SubmitFailed, RequestStep, FiresFirst, Record, Status
<1>5. ASSUME NEW ok \in BOOLEAN, Register(i, ok) PROVE FiresFirst(j)'
  BY <1>1, <1>5 DEF Register, RequestStep, FiresFirst, IInv, RecordMatchesKind, NotFound
<1>6. ASSUME NEW ok \in BOOLEAN, NEW made \in BOOLEAN, CreateJob(i, ok, made) PROVE FiresFirst(j)'
  <2>1. NewRecord(i).status = IF kind[i] = "submit" THEN "pending" ELSE "scheduled"
    BY DEF NewRecord, NoRecord
  <2>2. /\ record' = IF made THEN [record EXCEPT ![i] = NewRecord(i)] ELSE record
        /\ UNCHANGED <<task, entry>>
        /\ request'[j] = request[j] \/ request'[j] \in {"unregister", "refused", "accepted"}
           \/ (request'[j] = "enqueue" /\ kind[j] # "recurring")
    BY <1>6 DEF CreateJob, RequestStep, AfterFailedCreate
  <2> QED
    BY <1>1, <2>1, <2>2 DEF FiresFirst
<1>7. ASSUME NEW ok \in BOOLEAN, NEW made \in BOOLEAN, EnqueueTask(i, ok, made) PROVE FiresFirst(j)'
  BY <1>1, <1>7 DEF EnqueueTask, AfterFailedEnqueue, RequestStep, FiresFirst
<1> QED
  BY <1>2, <1>3, <1>4, <1>5, <1>6, <1>7 DEF RequestNext

\* So does CancelJob, which has taken the entry when it writes the status.
LEMMA CancelFires ==
  ASSUME IInv, NEW j \in Job, FiresFirst(j), NEW c \in Canceller, CancelNext(c)
  PROVE  FiresFirst(j)'
<1>1. entry \in [Job -> BOOLEAN] /\ record \in [Job -> Record]
  BY DEF IInv, TypeOK
<1>2. UNCHANGED <<kind, fires, runner, request, task>>
  BY DEF CancelNext, CancelJob, CancelUnregister, CancelUpdate, CancelStep, queue
<1>3. ASSUME NEW i \in Job, CancelJob(c, i) PROVE FiresFirst(j)'
  BY <1>2, <1>3 DEF CancelJob, queue, FiresFirst
<1>4. CASE CancelUnregister(c)
  BY <1>1, <1>2, <1>4 DEF CancelUnregister, FiresFirst
<1>5. ASSUME NEW ok \in BOOLEAN, NEW made \in BOOLEAN, CancelUpdate(c, ok, made) PROVE FiresFirst(j)'
  <2> DEFINE k == canceller[c].job
  <2>1. ~entry[k] /\ entry' = entry
    BY <1>5 DEF CancelUpdate, IInv, CancelBehind
  <2>2. record' = [record EXCEPT ![k].status = "cancelled"] \/ record' = record
    BY <1>5 DEF CancelUpdate
  <2>3. record'[j].status = record[j].status \/ (j = k /\ record'[j].status = "cancelled")
    BY <1>1, <2>2 DEF Record
  <2> QED
    BY <1>2, <2>1, <2>3 DEF FiresFirst
<1> QED
  BY <1>3, <1>4, <1>5 DEF CancelNext

\* So does a report of a handler, which works only after a firing: none reports a cancellation.
LEMMA ReportFires ==
  ASSUME IInv, NEW j \in Job, FiresFirst(j), NEW i \in Job, runner[i] # "none",
         NEW rec, NEW next, NEW ok \in BOOLEAN, Report(i, rec, next, ok),
         rec.status \in {record[i].status, "running", "completed", "failed", "retrying"}
  PROVE  FiresFirst(j)'
  BY Types DEF JobTypes, Report, queue, FiresFirst

\* So does every step of a handler.
LEMMA RunnerFires ==
  ASSUME IInv, NEW j \in Job, FiresFirst(j), NEW i \in Job, RunnerStep(i)
  PROVE  FiresFirst(j)'
<1>1. JobTypes /\ record[i] \in Record
  BY Types DEF JobTypes
<1>2. CASE Ack(i)
  BY <1>1, <1>2 DEF Ack, TaskStep, RetryOrArchive, FiresFirst, JobTypes
<1>3. ASSUME NEW ok \in BOOLEAN, Work(i, ok) PROVE FiresFirst(j)'
  BY <1>1, <1>3 DEF Work, queue, FiresFirst, JobTypes
<1>4. ASSUME NEW ok \in BOOLEAN, MarkJobStarted(i, ok) PROVE FiresFirst(j)'
  BY <1>1, <1>4, ReportFires DEF MarkJobStarted, Record
<1>5. ASSUME NEW ok \in BOOLEAN, MarkJobCompleted(i, ok) PROVE FiresFirst(j)'
  BY <1>1, <1>5, ReportFires DEF MarkJobCompleted, Record
<1>6. ASSUME NEW ok \in BOOLEAN, SetJobResult(i, ok) PROVE FiresFirst(j)'
  BY <1>1, <1>6, ReportFires DEF SetJobResult, Record
<1>7. ASSUME NEW ok \in BOOLEAN, MarkJobFailed(i, ok) PROVE FiresFirst(j)'
  BY <1>1, <1>7, ReportFires DEF MarkJobFailed, FailedStatus, Record
<1>8. ASSUME NEW ok \in BOOLEAN, MarkJobRetrying(i, ok) PROVE FiresFirst(j)'
  BY <1>1, <1>8, ReportFires DEF MarkJobRetrying, Record
<1>9. ASSUME NEW ok \in BOOLEAN, IncrementRetryCount(i, ok) PROVE FiresFirst(j)'
  BY <1>1, <1>9, ReportFires DEF IncrementRetryCount, Record
<1> QED
  BY <1>2, <1>3, <1>4, <1>5, <1>6, <1>7, <1>8, <1>9 DEF RunnerStep

\* So do the queue and the process.
LEMMA ProcessFires ==
  ASSUME IInv, NEW j \in Job, FiresFirst(j),
         Start \/ Stop \/ Restart \/ \E i \in Job : Due(i) \/ Fire(i) \/ Take(i) \/ Recover(i)
  PROVE  FiresFirst(j)'
<1>1. JobTypes /\ fires \in [Job -> 0..MaxFires]
  BY Types DEF IInv, TypeOK
<1>2. CASE Start
  BY <1>2 DEF Start, queue, FiresFirst
<1>3. CASE Stop
  BY <1>3 DEF Stop, Active, FiresFirst
<1>4. CASE Restart
  BY <1>4 DEF Restart, FiresFirst
<1>5. ASSUME NEW i \in Job, Due(i) PROVE FiresFirst(j)'
  BY <1>1, <1>5 DEF Due, TaskStep, FiresFirst, JobTypes
<1>6. ASSUME NEW i \in Job, Fire(i) PROVE FiresFirst(j)'
  <2>1. /\ UNCHANGED <<kind, request, record, entry, runner>>
        /\ task' = [task EXCEPT ![i] = "pending"] /\ fires' = [fires EXCEPT ![i] = @ + 1]
    BY <1>6 DEF Fire, TaskStep
  <2>2. fires[i] + 1 # 0
    BY <1>1, SchedulerAssumption
  <2> QED
    BY <1>1, <2>1, <2>2 DEF FiresFirst, JobTypes
<1>7. ASSUME NEW i \in Job, Take(i) PROVE FiresFirst(j)'
  BY <1>1, <1>7 DEF Take, TaskStep, FiresFirst, JobTypes
<1>8. ASSUME NEW i \in Job, Recover(i) PROVE FiresFirst(j)'
  BY <1>1, <1>8 DEF Recover, RetryOrArchive, TaskStep, FiresFirst, JobTypes
<1> QED
  BY <1>2, <1>3, <1>4, <1>5, <1>6, <1>7, <1>8

\* For every set of jobs and callers: a cron entry is on record or in the hands of the call
\* that made it, and CancelJob refuses its job only after a completed run; and every
\* variable keeps its type.
THEOREM EntriesAreRecorded == Spec => []NoOrphanEntry
<1> DEFINE FInv == IInv /\ \A j \in Job : FiresFirst(j)
<1>1. Init => FInv
  BY InitInv DEF Init, NoRecord, FiresFirst
<1>2. FInv /\ [Next]_vars => FInv'
  <2> SUFFICES ASSUME FInv, [Next]_vars, NEW j \in Job PROVE FiresFirst(j)'
    BY RequestKeeps, CancelKeeps, RunnerKeeps, ProcessKeeps, StutterKeeps DEF Next
  <2>1. CASE UNCHANGED vars
    BY <2>1 DEF vars, queue, FiresFirst
  <2> QED
    BY <2>1, RequestFires, CancelFires, RunnerFires, ProcessFires DEF Next
<1>3. FInv => NoOrphanEntry
  <2> SUFFICES ASSUME FInv, NEW j \in Job, entry[j], request[j] \notin {"create", "unregister"}
               PROVE  /\ record[j].cron
                      /\ Cancellable(j) \/ (record[j].status = "completed" /\ fires[j] > 0)
    BY DEF IInv, NoOrphanEntry
  <2>1. ~NotFound(j) /\ record[j].cron /\ kind[j] = "recurring" /\ FiresFirst(j)
    BY DEF IInv, EntriesRecorded, OnlyRecurringRegistered
  <2>2. fires[j] \in 0..MaxFires
    BY DEF IInv, TypeOK
  <2>3. fires[j] = 0 => record[j].status # "completed"
    BY <2>1 DEF FiresFirst
  <2> QED
    BY <2>1, <2>2, <2>3, SchedulerAssumption DEF FiresFirst, Cancellable
<1> QED
  BY <1>1, <1>2, <1>3, PTL DEF Spec

\* For every set of jobs and callers: no entry is left of a job whose CancelJob
\* returned without an error.
THEOREM CancelStopsCron == Spec => []CancelledStopsFiring
<1>1. IInv => CancelledStopsFiring
  BY DEF IInv, CancelledRecorded, CancelledStopsFiring
<1> QED
  BY Inductive, <1>1, PTL

\* The two together, for every set of jobs and callers: a cron entry is on record and open
\* to CancelJob except after a completed run, and a CancelJob that reports success has
\* removed it.
THEOREM EntriesStayUnderControl == Spec => []EntriesUnderControl
<1> QED
  BY EntriesAreRecorded, CancelStopsCron, PTL DEF EntriesUnderControl

-----------------------------------------------------------------------------
(* What a record tells *)

Final == {"completed", "failed", "cancelled"}
Waiting == {"pending", "scheduled"}

\* A handler works on an active task; it reports a retry or a last failure as asynq will
\* count it; a task is enqueued after the record, and by one call.
TaskSound(j) ==
    /\ runner[j] # "none" => task[j] = "active"
    /\ task[j] = "active" /\ runner[j] = "none" => j \in disturbed
    /\ runner[j] \in {"retrying", "count"} => attempts[j] < MaxRetry
    /\ runner[j] = "fail" => attempts[j] >= MaxRetry
    /\ request[j] \in {"new", "create", "enqueue"} /\ kind[j] # "recurring" => task[j] = "none"
    /\ request[j] \in {"enqueue", "markFailed"} => kind[j] # "recurring"

\* A task that is over, or is about to be, has left its outcome in the record.
Settling(j) ==
    j \notin disturbed =>
        /\ NotFound(j) => runner[j] \in {"none", "start"} /\ task[j] \notin {"done", "archived"}
        /\ task[j] \in {"done", "archived"} \/ runner[j] \in {"result", "ackOk"}
              => record[j].status \in Final
        /\ runner[j] = "ackError" => attempts[j] < MaxRetry \/ record[j].status \in Final

\* CancelJob has removed the cron entry of j and not yet written the record.
BeingCancelled(j) == \E c \in Canceller : canceller[c].at = "update" /\ canceller[c].job = j

\* A record that waits has something behind it that will run it, or is being cancelled.
Backed(j) ==
    j \notin disturbed =>
        /\ request[j] = "refused" => record[j].status \notin Waiting
        /\ request[j] = "accepted" /\ kind[j] # "recurring" => task[j] # "none"
        /\ request[j] = "accepted" /\ kind[j] = "recurring" /\ record[j].status \in Waiting
              => entry[j] \/ BeingCancelled(j)
        /\ request[j] = "create" /\ kind[j] = "recurring" => entry[j]
        /\ request[j] # "unregister"

\* The record is ahead of asynq by at most one retry, between the count and the end of the run.
RetriesCounted(j) ==
    j \notin requeued /\ kind[j] # "recurring" =>
        \/ record[j].retries <= attempts[j]
        \/ /\ record[j].retries <= attempts[j] + 1 /\ attempts[j] < MaxRetry
           /\ task[j] = "active" /\ runner[j] \in {"none", "ackError"}

JobInv(j) == TaskSound(j) /\ Settling(j) /\ Backed(j) /\ RetriesCounted(j)

\* The invariant of the cron entries and that of every job.
TruthInv == IInv /\ \A j \in Job : JobInv(j)

\* A step that concerns another job leaves this one as it was.
LEMMA JobKept ==
  ASSUME NEW i \in Job, JobInv(i), kind' = kind,
         request'[i] = request[i], record'[i] = record[i], task'[i] = task[i],
         attempts'[i] = attempts[i], runner'[i] = runner[i], entry'[i] = entry[i],
         disturbed \subseteq disturbed', requeued \subseteq requeued',
         BeingCancelled(i) => BeingCancelled(i)'
  PROVE  JobInv(i)'
<1>1. TaskSound(i)'
  BY DEF JobInv, TaskSound
<1>2. Settling(i)'
  BY DEF JobInv, Settling, NotFound
<1>3. Backed(i)'
  BY DEF JobInv, Backed
<1>4. RetriesCounted(i)'
  BY DEF JobInv, RetriesCounted
<1> QED
  BY <1>1, <1>2, <1>3, <1>4 DEF JobInv

\* A status written into a record leaves its count of retries.
LEMMA StatusWritten ==
  ASSUME record \in [Job -> Record], NEW j \in Job, NEW s \in Status,
         record' = [record EXCEPT ![j].status = s]
  PROVE  record'[j].status = s /\ record'[j].retries = record[j].retries
  BY DEF Record

\* The calls of CancelJob do not change in a step of another caller.
LEMMA CancelsKept ==
  ASSUME canceller' = canceller, NEW i \in Job, BeingCancelled(i)
  PROVE  BeingCancelled(i)'
  BY DEF BeingCancelled

\* A step of a submission keeps the invariant of its job.
LEMMA RequestTells ==
  ASSUME TruthInv, NEW j \in Job, RequestNext(j)
  PROVE  \A i \in Job : JobInv(i)'
<1> USE DEF RequestStep, Disturb
<1>1. /\ JobTypes /\ JobInv(j)
      /\ NotFound(j) \/ request[j] \notin {"new", "register", "create"}
      /\ request[j] \in {"enqueue", "markFailed"} => ~NotFound(j)
      /\ request[j] \in {"register", "unregister"} => kind[j] = "recurring"
  BY Types DEF TruthInv, IInv, RecordMatchesKind, OnlyRecurringRegistered
<1>2. /\ UNCHANGED <<kind, attempts, runner, canceller, requeued>> /\ disturbed \subseteq disturbed'
      /\ \E l : request' = [request EXCEPT ![j] = l]
      /\ \A i \in Job \ {j} : record'[i] = record[i] /\ task'[i] = task[i] /\ entry'[i] = entry[i]
  BY <1>1 DEF RequestNext, Begin, Unregister, SubmitFailed, Register, CreateJob, EnqueueTask, JobTypes
<1>3. ASSUME NEW i \in Job, i # j PROVE JobInv(i)'
  BY <1>1, <1>2, <1>3, JobKept, CancelsKept DEF TruthInv, JobTypes
<1>4. BeingCancelled(j) => BeingCancelled(j)'
  BY <1>2, CancelsKept
<1>5. JobInv(j)'
  <2> USE DEF JobInv, TaskSound, Settling, Backed, RetriesCounted, JobTypes, NotFound
  <2>1. CASE Begin(j)
    BY <1>1, <1>2, <1>4, <2>1 DEF Begin, Waiting
  <2>2. CASE Unregister(j)
    BY <1>1, <1>2, <1>4, <2>2 DEF Unregister
  <2>3. ASSUME NEW ok \in BOOLEAN, SubmitFailed(j, ok) PROVE JobInv(j)'
    <3>1. /\ request[j] = "markFailed" /\ request'[j] = "refused" /\ UNCHANGED <<task, entry>>
          /\ ok => record' = [record EXCEPT ![j].status = "failed"]
          /\ ~ok => record' = record /\ j \in disturbed'
      BY <1>1, <2>3 DEF SubmitFailed
    <3>2. ok => record'[j].status = "failed" /\ record'[j].retries = record[j].retries
      BY <1>1, <3>1, StatusWritten DEF Status, JobTypes
    <3>3. CASE ok
      BY <1>1, <1>2, <3>1, <3>2, <3>3 DEF Final, Waiting
    <3>4. CASE ~ok
      BY <1>1, <1>2, <3>1, <3>4
    <3> QED
      BY <3>3, <3>4
  <2>4. ASSUME NEW ok \in BOOLEAN, Register(j, ok) PROVE JobInv(j)'
    BY <1>1, <1>2, <2>4 DEF Register, Waiting
  <2>5. ASSUME NEW ok \in BOOLEAN, NEW made \in BOOLEAN, CreateJob(j, ok, made) PROVE JobInv(j)'
    <3>1. NewRecord(j).status \in Waiting /\ NewRecord(j).retries = 0
      BY DEF NewRecord, NoRecord, Waiting
    <3>2. /\ request[j] = "create" /\ UNCHANGED <<task, entry>> /\ NotFound(j)
          /\ made => record'[j] = NewRecord(j)
          /\ ~made => record' = record
          /\ ok => made /\ request'[j] = IF kind[j] = "recurring" THEN "accepted" ELSE "enqueue"
          /\ ~ok => j \in disturbed' /\ request'[j] = IF kind[j] = "recurring" THEN "unregister" ELSE "refused"
      BY <1>1, <2>5 DEF CreateJob, AfterFailedCreate
    <3>3. RetriesCounted(j)'
      BY <1>1, <1>2, <3>1, <3>2
    <3>4. CASE ok
      <4>1. record'[j].status # "none"
        BY <3>1, <3>2, <3>4 DEF Waiting
      <4>2. Settling(j)'
        BY <1>1, <1>2, <3>2, <3>4, <4>1
      <4> QED
        BY <1>1, <1>2, <3>2, <3>3, <3>4, <4>2
    <3>5. CASE ~ok
      BY <1>1, <1>2, <3>2, <3>3, <3>5
    <3> QED
      BY <3>4, <3>5
  <2>6. ASSUME NEW ok \in BOOLEAN, NEW made \in BOOLEAN, EnqueueTask(j, ok, made) PROVE JobInv(j)'
    <3>1. /\ request[j] = "enqueue" /\ UNCHANGED <<record, entry, disturbed>> /\ task[j] = "none"
          /\ runner[j] = "none" /\ kind[j] # "recurring"
          /\ made => task'[j] \in {"pending", "scheduled"}
          /\ ~made => task'[j] = "none"
          /\ ok => made /\ request'[j] = "accepted"
          /\ ~ok => request'[j] = "markFailed"
      BY <1>1, <2>6 DEF EnqueueTask, AfterFailedEnqueue
    <3> QED
      BY <1>1, <1>2, <3>1
  <2> QED
    BY <2>1, <2>2, <2>3, <2>4, <2>5, <2>6 DEF RequestNext
<1> QED
  BY <1>3, <1>5

\* A step of CancelJob keeps the invariant of its job: the entry goes first, and the job is
\* being cancelled until the record says so.
LEMMA CancelTells ==
  ASSUME TruthInv, NEW c \in Canceller, CancelNext(c)
  PROVE  \A i \in Job : JobInv(i)'
<1> USE DEF CancelStep, Disturb
<1>1. /\ JobTypes /\ \A i \in Job : JobInv(i)
      /\ canceller \in [Canceller -> [at : {"idle", "unregister", "update"}, job : Job]]
      /\ canceller[c].at # "idle" => ~NotFound(canceller[c].job)
      /\ canceller[c].at = "update" => ~entry[canceller[c].job]
  BY Types DEF TruthInv, IInv, TypeOK, CancelBehind
<1>2. UNCHANGED <<kind, request, task, attempts, runner, requeued>> /\ disturbed \subseteq disturbed'
  BY DEF CancelNext, CancelJob, CancelUnregister, CancelUpdate, queue, history
<1>3. ASSUME NEW k \in Job, CancelJob(c, k) PROVE \A i \in Job : JobInv(i)'
  <2>1. \A i \in Job : BeingCancelled(i) => BeingCancelled(i)'
    BY <1>1, <1>3 DEF CancelJob, BeingCancelled
  <2>2. UNCHANGED <<record, entry>>
    BY <1>3 DEF CancelJob, queue
  <2> QED
    BY <1>1, <1>2, <2>1, <2>2, JobKept
<1>4. CASE CancelUnregister(c)
  <2>0. PICK k \in Job : k = canceller[c].job
    BY <1>1
  <2>1. /\ canceller' = [canceller EXCEPT ![c].at = "update"]
        /\ UNCHANGED <<record, disturbed>> /\ entry' = [entry EXCEPT ![k] = FALSE]
        /\ request[k] # "create"
    BY <1>1, <1>4, <2>0 DEF CancelUnregister, TruthInv, IInv, RecordMatchesKind
  <2>2. BeingCancelled(k)' /\ \A i \in Job : BeingCancelled(i) => BeingCancelled(i)'
    BY <1>1, <2>0, <2>1 DEF BeingCancelled
  <2>3. ASSUME NEW i \in Job, i # k PROVE JobInv(i)'
    BY <1>1, <1>2, <2>1, <2>2, <2>3, JobKept DEF JobTypes
  <2>4. JobInv(k)'
    <3>1. TaskSound(k)' /\ Settling(k)' /\ RetriesCounted(k)'
      BY <1>1, <1>2, <2>1 DEF JobInv, TaskSound, Settling, RetriesCounted, NotFound
    <3>2. Backed(k)'
      BY <1>1, <1>2, <2>1, <2>2 DEF JobInv, Backed
    <3> QED
      BY <3>1, <3>2 DEF JobInv
  <2> QED
    BY <2>3, <2>4
<1>5. ASSUME NEW ok \in BOOLEAN, NEW made \in BOOLEAN, CancelUpdate(c, ok, made)
      PROVE  \A i \in Job : JobInv(i)'
  <2>0. PICK k \in Job : k = canceller[c].job
    BY <1>1
  <2>1. /\ canceller' = [canceller EXCEPT ![c].at = "idle"] /\ ~NotFound(k)
        /\ UNCHANGED entry
        /\ made => record' = [record EXCEPT ![k].status = "cancelled"]
        /\ ~made => record' = record
        /\ ok => made
        /\ ~ok => k \in disturbed'
    BY <1>1, <1>5, <2>0 DEF CancelUpdate
  <2>2. \A i \in Job : i # k /\ BeingCancelled(i) => BeingCancelled(i)'
    BY <1>1, <2>0, <2>1 DEF BeingCancelled
  <2>3. ASSUME NEW i \in Job, i # k PROVE JobInv(i)'
    BY <1>1, <1>2, <2>1, <2>2, <2>3, JobKept DEF JobTypes
  <2>4. JobInv(k)'
    <3>2. made => record'[k].status = "cancelled" /\ record'[k].retries = record[k].retries
      BY <1>1, <2>1, StatusWritten DEF Status, JobTypes
    <3>3. ~made => record'[k] = record[k]
      BY <2>1
    <3>4. TaskSound(k)' /\ RetriesCounted(k)'
      BY <1>1, <1>2, <2>1, <3>2, <3>3 DEF JobInv, TaskSound, RetriesCounted
    <3>5. CASE ok
      BY <1>1, <1>2, <2>1, <3>2, <3>4, <3>5 DEF JobInv, Settling, Backed, NotFound, Final, Waiting
    <3>6. CASE ~ok
      BY <2>1, <3>4, <3>6 DEF JobInv, Settling, Backed
    <3> QED
      BY <3>5, <3>6
  <2> QED
    BY <2>3, <2>4
<1> QED
  BY <1>3, <1>4, <1>5 DEF CancelNext

\* A report of a task handler concerns one job, and one that fails marks it as disturbed.
LEMMA ReportTells ==
  ASSUME TruthInv, NEW j \in Job, NEW ok \in BOOLEAN, NEW rec, NEW next \in Runners \ {"none"},
         Report(j, rec, next, ok), runner[j] \notin {"none", "ackOk", "ackError"},
         ~ok => next \in {"work", "ackOk", "ackError"}, ok => JobInv(j)'
  PROVE  \A i \in Job : JobInv(i)'
<1>1. /\ JobTypes /\ JobInv(j) /\ task[j] = "active"
  BY Types DEF TruthInv, JobInv, TaskSound
<1>2. /\ UNCHANGED <<kind, request, task, attempts, entry, canceller, requeued>>
      /\ disturbed \subseteq disturbed'
      /\ runner' = [runner EXCEPT ![j] = next]
      /\ ok => record' = [record EXCEPT ![j] = rec] /\ disturbed' = disturbed
      /\ ~ok => record' = record /\ j \in disturbed'
  BY DEF Report, queue, Disturb
<1>3. ASSUME NEW i \in Job, i # j PROVE JobInv(i)'
  BY <1>1, <1>2, <1>3, JobKept, CancelsKept DEF TruthInv, JobTypes
<1>4. CASE ~ok
  <2>1. runner'[j] = next /\ next \in {"work", "ackOk", "ackError"}
    BY <1>1, <1>2, <1>4 DEF JobTypes
  <2>2. TaskSound(j)'
    BY <1>1, <1>2, <1>4, <2>1 DEF JobInv, TaskSound
  <2>3. Settling(j)' /\ Backed(j)'
    BY <1>2, <1>4 DEF Settling, Backed
  <2>4. RetriesCounted(j)'
    <3>1. j \notin requeued /\ kind[j] # "recurring" => record[j].retries <= attempts[j]
      BY <1>1 DEF JobInv, RetriesCounted
    <3>2. UNCHANGED <<record, attempts, kind, requeued>>
      BY <1>2, <1>4
    <3> QED
      BY <3>1, <3>2 DEF RetriesCounted
  <2> QED
    BY <1>3, <2>2, <2>3, <2>4 DEF JobInv
<1> QED
  BY <1>3, <1>4

\* A report that succeeds, by the fields of what it writes.
LEMMA ReportWrites ==
  ASSUME JobTypes, NEW j \in Job, NEW rec, NEW next, NEW ok \in BOOLEAN, ok, Report(j, rec, next, ok)
  PROVE  /\ UNCHANGED <<kind, request, task, attempts, entry, canceller, requeued, disturbed>>
         /\ runner'[j] = next /\ record'[j] = rec
         /\ BeingCancelled(j) => BeingCancelled(j)'
  BY DEF Report, queue, JobTypes, BeingCancelled

\* A step of a task handler keeps the invariant of its job: the run ends with the outcome on
\* record, or with a retry to come.
LEMMA RunnerTells ==
  ASSUME TruthInv, NEW j \in Job, RunnerStep(j)
  PROVE  \A i \in Job : JobInv(i)'
<1>1. JobTypes /\ JobInv(j) /\ record[j] \in Record
  BY Types DEF TruthInv, JobTypes
<1> USE DEF JobInv, TaskSound, Settling, Backed, RetriesCounted, NotFound
<1>2. CASE Ack(j)
  <2>1. /\ UNCHANGED <<kind, request, record, entry, canceller, disturbed, requeued>>
        /\ runner' = [runner EXCEPT ![j] = "none"]
        /\ \A i \in Job \ {j} : task'[i] = task[i] /\ attempts'[i] = attempts[i]
    BY <1>1, <1>2 DEF Ack, TaskStep, RetryOrArchive, history, JobTypes
  <2>2. ASSUME NEW i \in Job, i # j PROVE JobInv(i)'
    BY <1>1, <2>1, <2>2, JobKept, CancelsKept DEF TruthInv, JobTypes
  <2>3. BeingCancelled(j) => BeingCancelled(j)'
    BY <2>1, CancelsKept
  <2>4. /\ task[j] = "active" /\ runner'[j] = "none"
        /\ \/ runner[j] = "ackOk" /\ task'[j] = "done" /\ attempts' = attempts
           \/ runner[j] = "ackError" /\ attempts[j] < MaxRetry /\ task'[j] = "retry"
                 /\ attempts'[j] = attempts[j] + 1
           \/ runner[j] = "ackError" /\ ~(attempts[j] < MaxRetry) /\ task'[j] = "archived"
                 /\ attempts' = attempts
    BY <1>1, <1>2, <2>1 DEF Ack, TaskStep, RetryOrArchive, JobTypes
  <2>5. attempts[j] \in Nat /\ record[j].retries \in Nat /\ MaxRetry \in Nat
    BY <1>1 DEF JobTypes, Record
  <2>6. request[j] \notin {"new", "create", "enqueue"} \/ kind[j] = "recurring"
    BY <1>1, <2>4
  <2>7. JobInv(j)'
    BY <1>1, <2>1, <2>3, <2>4, <2>5, <2>6
  <2> QED
    BY <2>2, <2>7
<1>3. ASSUME NEW ok \in BOOLEAN, Work(j, ok) PROVE \A i \in Job : JobInv(i)'
  <2>1. /\ UNCHANGED <<kind, request, record, task, attempts, entry, canceller, disturbed, requeued>>
        /\ runner[j] = "work"
        /\ runner' = [runner EXCEPT ![j] = IF ok THEN "complete"
                                           ELSE IF attempts[j] < MaxRetry THEN "retrying" ELSE "fail"]
    BY <1>3 DEF Work, queue, history
  <2>2. ASSUME NEW i \in Job, i # j PROVE JobInv(i)'
    BY <1>1, <2>1, <2>2, JobKept, CancelsKept DEF TruthInv, JobTypes
  <2>3. BeingCancelled(j) => BeingCancelled(j)'
    BY <2>1, CancelsKept
  <2>4. runner'[j] = IF ok THEN "complete" ELSE IF attempts[j] < MaxRetry THEN "retrying" ELSE "fail"
    BY <1>1, <2>1 DEF JobTypes
  <2>5. attempts[j] \in Nat /\ MaxRetry \in Nat
    BY <1>1 DEF JobTypes
  <2>6. JobInv(j)'
    BY <1>1, <2>1, <2>3, <2>4, <2>5
  <2> QED
    BY <2>2, <2>6
<1>4. ASSUME NEW ok \in BOOLEAN, MarkJobStarted(j, ok) PROVE \A i \in Job : JobInv(i)'
  <2> DEFINE rec == [record[j] EXCEPT !.status = "running"]
  <2>1. runner[j] = "start" /\ Report(j, rec, "work", ok) /\ (ok => record[j].status # "none")
    BY <1>4 DEF MarkJobStarted
  <2>2. rec.status = "running" /\ rec.retries = record[j].retries
    BY <1>1 DEF Record
  <2> HIDE DEF rec
  <2>3. ASSUME ok PROVE JobInv(j)'
    <3>1. /\ UNCHANGED <<kind, request, task, attempts, entry, canceller, requeued, disturbed>>
          /\ runner'[j] = "work" /\ record'[j] = rec
          /\ BeingCancelled(j) => BeingCancelled(j)'
      BY <1>1, <2>1, <2>3, ReportWrites
    <3> QED
      BY <1>1, <2>1, <2>2, <2>3, <3>1 DEF Waiting
  <2> QED
    BY <2>1, <2>3, ReportTells DEF Runners
<1>5. ASSUME NEW ok \in BOOLEAN, MarkJobCompleted(j, ok) PROVE \A i \in Job : JobInv(i)'
  <2> DEFINE rec == [record[j] EXCEPT !.status = "completed"]
             next == IF ok THEN "result" ELSE "ackOk"
  <2>1. runner[j] = "complete" /\ Report(j, rec, next, ok) /\ (ok => record[j].status # "none")
    BY <1>5 DEF MarkJobCompleted
  <2>2. rec.status = "completed" /\ rec.retries = record[j].retries
    BY <1>1 DEF Record
  <2>3. next \in Runners \ {"none"} /\ (ok => next = "result") /\ (~ok => next = "ackOk")
    BY DEF Runners
  <2> HIDE DEF rec, next
  <2>4. ASSUME ok PROVE JobInv(j)'
    <3>1. /\ UNCHANGED <<kind, request, task, attempts, entry, canceller, requeued, disturbed>>
          /\ runner'[j] = next /\ record'[j] = rec
          /\ BeingCancelled(j) => BeingCancelled(j)'
      BY <1>1, <2>1, <2>4, ReportWrites
    <3> QED
      BY <1>1, <2>1, <2>2, <2>3, <2>4, <3>1 DEF Waiting, Final
  <2> QED
    BY <2>1, <2>3, <2>4, ReportTells
<1>6. ASSUME NEW ok \in BOOLEAN, SetJobResult(j, ok) PROVE \A i \in Job : JobInv(i)'
  <2> DEFINE rec == [record[j] EXCEPT !.result = TRUE]
  <2>1. runner[j] = "result" /\ Report(j, rec, "ackOk", ok)
    BY <1>6 DEF SetJobResult
  <2>2. rec.status = record[j].status /\ rec.retries = record[j].retries
    BY <1>1 DEF Record
  <2> HIDE DEF rec
  <2>3. ASSUME ok PROVE JobInv(j)'
    <3>1. /\ UNCHANGED <<kind, request, task, attempts, entry, canceller, requeued, disturbed>>
          /\ runner'[j] = "ackOk" /\ record'[j] = rec
          /\ BeingCancelled(j) => BeingCancelled(j)'
      BY <1>1, <2>1, <2>3, ReportWrites
    <3> QED
      BY <1>1, <2>1, <2>2, <2>3, <3>1 DEF Waiting, Final
  <2> QED
    BY <2>1, <2>3, ReportTells DEF Runners
<1>7. ASSUME NEW ok \in BOOLEAN, MarkJobFailed(j, ok) PROVE \A i \in Job : JobInv(i)'
  <2> DEFINE rec == [record[j] EXCEPT !.status = FailedStatus]
  <2>1. runner[j] = "fail" /\ Report(j, rec, "ackError", ok) /\ (ok => record[j].status # "none")
    BY <1>7 DEF MarkJobFailed
  <2>2. rec.status = "failed" /\ rec.retries = record[j].retries
    BY <1>1 DEF Record, FailedStatus
  <2> HIDE DEF rec
  <2>3. ASSUME ok PROVE JobInv(j)'
    <3>1. /\ UNCHANGED <<kind, request, task, attempts, entry, canceller, requeued, disturbed>>
          /\ runner'[j] = "ackError" /\ record'[j] = rec
          /\ BeingCancelled(j) => BeingCancelled(j)'
      BY <1>1, <2>1, <2>3, ReportWrites
    <3> QED
      BY <1>1, <2>1, <2>2, <2>3, <3>1 DEF Waiting, Final
  <2> QED
    BY <2>1, <2>3, ReportTells DEF Runners
<1>8. ASSUME NEW ok \in BOOLEAN, MarkJobRetrying(j, ok) PROVE \A i \in Job : JobInv(i)'
  <2> DEFINE rec == [record[j] EXCEPT !.status = "retrying"]
             next == IF ok THEN "count" ELSE "ackError"
  <2>1. runner[j] = "retrying" /\ Report(j, rec, next, ok) /\ (ok => record[j].status # "none")
    BY <1>8 DEF MarkJobRetrying
  <2>2. rec.status = "retrying" /\ rec.retries = record[j].retries
    BY <1>1 DEF Record
  <2>3. next \in Runners \ {"none"} /\ (ok => next = "count") /\ (~ok => next = "ackError")
    BY DEF Runners
  <2> HIDE DEF rec, next
  <2>4. ASSUME ok PROVE JobInv(j)'
    <3>1. /\ UNCHANGED <<kind, request, task, attempts, entry, canceller, requeued, disturbed>>
          /\ runner'[j] = next /\ record'[j] = rec
          /\ BeingCancelled(j) => BeingCancelled(j)'
      BY <1>1, <2>1, <2>4, ReportWrites
    <3> QED
      BY <1>1, <2>1, <2>2, <2>3, <2>4, <3>1 DEF Waiting, Final
  <2> QED
    BY <2>1, <2>3, <2>4, ReportTells
<1>9. ASSUME NEW ok \in BOOLEAN, IncrementRetryCount(j, ok) PROVE \A i \in Job : JobInv(i)'
  <2> DEFINE rec == [record[j] EXCEPT !.retries = Counted(@)]
  <2>1. runner[j] = "count" /\ Report(j, rec, "ackError", ok)
    BY <1>9 DEF IncrementRetryCount
  <2>2. rec.status = record[j].status /\ rec.retries = record[j].retries + 1
    BY <1>1 DEF Record, Counted
  <2>3. attempts[j] \in Nat /\ record[j].retries \in Nat /\ MaxRetry \in Nat
    BY <1>1 DEF JobTypes, Record
  <2> HIDE DEF rec
  <2>4. ASSUME ok PROVE JobInv(j)'
    <3>1. /\ UNCHANGED <<kind, request, task, attempts, entry, canceller, requeued, disturbed>>
          /\ runner'[j] = "ackError" /\ record'[j] = rec
          /\ BeingCancelled(j) => BeingCancelled(j)'
      BY <1>1, <2>1, <2>4, ReportWrites
    <3> QED
      BY <1>1, <2>1, <2>2, <2>3, <2>4, <3>1 DEF Waiting, Final
  <2> QED
    BY <2>1, <2>4, ReportTells DEF Runners
<1> QED
  BY <1>2, <1>3, <1>4, <1>5, <1>6, <1>7, <1>8, <1>9 DEF RunnerStep

\* So does a step of the queue or of the process.  Stop and Restart mark what they cut short.
LEMMA ProcessTells ==
  ASSUME TruthInv,
         Start \/ Stop \/ Restart \/ \E j \in Job : Due(j) \/ Fire(j) \/ Take(j) \/ Recover(j)
  PROVE  \A i \in Job : JobInv(i)'
<1>1. JobTypes /\ \A i \in Job : JobInv(i)
  BY Types DEF TruthInv
<1>2. CASE Start
  <2>1. UNCHANGED <<kind, request, record, task, attempts, entry, runner, canceller, disturbed, requeued>>
    BY <1>2 DEF Start, queue, history
  <2> QED
    BY <1>1, <2>1, JobKept, CancelsKept
<1>3. CASE Stop
  <2>1. /\ UNCHANGED <<kind, request, record, attempts, entry, canceller>>
        /\ \A i \in Job : /\ runner'[i] = "none"
                          /\ runner[i] # "none" => task'[i] = "pending" /\ i \in requeued' /\ i \in disturbed'
                          /\ runner[i] = "none" => task'[i] = task[i]
        /\ requeued \subseteq requeued' /\ disturbed \subseteq disturbed'
    BY <1>3 DEF Stop, Active
  <2>2. ASSUME NEW i \in Job PROVE JobInv(i)'
    <3>1. CASE runner[i] = "none"
      BY <1>1, <2>1, <3>1, JobKept, CancelsKept
    <3>2. CASE runner[i] # "none"
      <4>1. task[i] = "active"
        BY <1>1, <3>2 DEF JobInv, TaskSound
      <4>2. TaskSound(i)'
        BY <1>1, <2>1, <3>2, <4>1 DEF JobInv, TaskSound
      <4> QED
        BY <2>1, <3>2, <4>2 DEF JobInv, Settling, Backed, RetriesCounted
    <3> QED
      BY <3>1, <3>2
  <2> QED
    BY <2>2
<1>4. CASE Restart
  <2>1. /\ UNCHANGED <<kind, record, task, attempts, requeued>>
        /\ \A i \in Job : /\ runner'[i] = "none" /\ entry'[i] = FALSE
                          /\ request'[i] = IF request[i] \in {"new", "accepted"} THEN request[i]
                                           ELSE "refused"
                          /\ runner[i] # "none" \/ entry[i] => i \in disturbed'
                          /\ request[i] \notin {"new", "accepted", "refused"} => i \in disturbed'
                          /\ BeingCancelled(i) => i \in disturbed'
        /\ disturbed \subseteq disturbed'
    BY <1>4 DEF Restart, Active, InCall, BeingCancelled
  <2>2. ASSUME NEW i \in Job PROVE JobInv(i)'
    <3>1. TaskSound(i)'
      BY <1>1, <2>1 DEF JobInv, TaskSound
    <3>2. Settling(i)'
      BY <1>1, <2>1 DEF JobInv, Settling, NotFound
    <3>3. Backed(i)'
      BY <1>1, <2>1 DEF JobInv, Backed
    <3>4. RetriesCounted(i)'
      BY <1>1, <2>1 DEF JobInv, RetriesCounted
    <3> QED
      BY <3>1, <3>2, <3>3, <3>4 DEF JobInv
  <2> QED
    BY <2>2
<1>5. ASSUME NEW j \in Job, Due(j) \/ Fire(j) \/ Take(j) \/ Recover(j)
      PROVE  \A i \in Job : JobInv(i)'
  <2>1. /\ UNCHANGED <<kind, request, record, entry, canceller, disturbed, requeued>>
        /\ \A i \in Job \ {j} : task'[i] = task[i] /\ attempts'[i] = attempts[i] /\ runner'[i] = runner[i]
    BY <1>1, <1>5 DEF Due, Fire, Take, Recover, RetryOrArchive, TaskStep, history, JobTypes
  <2>2. ASSUME NEW i \in Job, i # j PROVE JobInv(i)'
    BY <1>1, <2>1, <2>2, JobKept, CancelsKept
  <2>3. BeingCancelled(j) => BeingCancelled(j)'
    BY <2>1, CancelsKept
  <2>4. attempts[j] \in Nat /\ attempts[j] <= MaxRetry /\ record[j].retries \in Nat /\ MaxRetry \in Nat
    BY <1>1 DEF JobTypes, Record
  <2>5. JobInv(j)'
    <3> USE DEF JobInv, TaskSound, Settling, Backed, RetriesCounted, NotFound
    <3>1. CASE Due(j)
      <4>1. /\ task[j] \in {"scheduled", "retry"} /\ task'[j] = "pending"
            /\ UNCHANGED <<attempts, runner>>
        BY <1>1, <3>1 DEF Due, TaskStep, JobTypes
      <4> QED
        BY <1>1, <2>1, <2>3, <4>1
    <3>2. CASE Fire(j)
      <4>1. /\ task[j] \in {"none", "done", "archived"} /\ task'[j] = "pending" /\ entry[j]
            /\ attempts'[j] = 0 /\ UNCHANGED runner
        BY <1>1, <3>2 DEF Fire, TaskStep, JobTypes
      <4>2. kind[j] = "recurring"
        BY <4>1 DEF TruthInv, IInv, OnlyRecurringRegistered
      <4> QED
        BY <1>1, <2>1, <2>3, <4>1, <4>2
    <3>3. CASE Take(j)
      <4>1. task[j] = "pending" /\ task'[j] = "active" /\ runner'[j] = "start" /\ UNCHANGED attempts
        BY <1>1, <3>3 DEF Take, TaskStep, JobTypes
      <4> QED
        BY <1>1, <2>1, <2>3, <4>1
    <3>4. CASE Recover(j)
      <4>1. /\ task[j] = "active" /\ runner[j] = "none" /\ UNCHANGED runner
            /\ \/ attempts[j] < MaxRetry /\ task'[j] = "retry" /\ attempts'[j] = attempts[j] + 1
               \/ ~(attempts[j] < MaxRetry) /\ task'[j] = "archived" /\ attempts' = attempts
        BY <1>1, <3>4 DEF Recover, RetryOrArchive, TaskStep, JobTypes
      <4>2. j \in disturbed
        BY <1>1, <4>1
      <4> QED
        BY <1>1, <2>1, <2>4, <4>1, <4>2
    <3> QED
      BY <1>5, <3>1, <3>2, <3>3, <3>4
  <2> QED
    BY <2>2, <2>5
<1> QED
  BY <1>2, <1>3, <1>4, <1>5

\* For every set of jobs and callers, and however often the process dies: the record of a job
\* tells what became of it.  A record that waits has a task or an entry behind it, a task that
\* is over has left its outcome, and no more retries are counted than are allowed.
THEOREM RecordsTellTruth == Spec => []RecordTellsTruth
<1>1. Init => TruthInv
  <2> SUFFICES ASSUME Init, NEW j \in Job PROVE JobInv(j)
    BY InitInv DEF TruthInv
  <2>1. TaskSound(j) /\ Settling(j) /\ Backed(j)
    BY DEF Init, NoRecord, TaskSound, Settling, Backed
  <2>2. RetriesCounted(j)
    BY DEF Init, NoRecord, RetriesCounted
  <2> QED
    BY <2>1, <2>2 DEF JobInv
<1>2. TruthInv /\ [Next]_vars => TruthInv'
  <2> SUFFICES ASSUME TruthInv, [Next]_vars PROVE \A i \in Job : JobInv(i)'
    BY RequestKeeps, CancelKeeps, RunnerKeeps, ProcessKeeps, StutterKeeps DEF Next, TruthInv
  <2>1. CASE UNCHANGED vars
    BY <2>1, JobKept, CancelsKept DEF TruthInv, vars, queue, history
  <2> QED
    BY <2>1, RequestTells, CancelTells, RunnerTells, ProcessTells DEF Next
<1>3. TruthInv => RecordTellsTruth
  <2> SUFFICES ASSUME TruthInv PROVE RecordTellsTruth
    OBVIOUS
  <2>1. WaitingIsQueued
    <3> SUFFICES ASSUME NEW j \in Job, j \notin disturbed, Over(j), record[j].status \in Waiting
                 PROVE  task[j] # "none" \/ entry[j]
      BY DEF WaitingIsQueued, Waiting
    <3>1. Backed(j)
      BY DEF TruthInv, JobInv
    <3>2. ~BeingCancelled(j)
      BY DEF Over, InCall, BeingCancelled
    <3> QED
      BY <3>1, <3>2 DEF Over, Backed
  <2>2. StatusSettles
    BY DEF TruthInv, JobInv, Settling, StatusSettles, Final
  <2>3. RetriesWithinLimit
    <3> SUFFICES ASSUME NEW j \in Job, j \notin requeued, kind[j] # "recurring"
                 PROVE  record[j].retries <= MaxRetry
      BY DEF RetriesWithinLimit
    <3>1. RetriesCounted(j) /\ JobTypes
      BY Types DEF TruthInv, JobInv
    <3> QED
      BY <3>1 DEF RetriesCounted, JobTypes, Record
  <2> QED
    BY <2>1, <2>2, <2>3 DEF RecordTellsTruth
<1> QED
  BY <1>1, <1>2, <1>3, PTL DEF Spec
=============================================================================
