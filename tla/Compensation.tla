---------------------------- MODULE Compensation ----------------------------
(***************************************************************************)
(* What undoes the work of a workflow.                                     *)
(*                                                                         *)
(* internal/workflow/compensation/repository and its HTTP handlers: the    *)
(* collection of compensation records, used by several callers at once.    *)
(* A record's ID is the second it was made in (the "random" part is        *)
(* always the same), so that records of one second share a document.       *)
(* Saving sets the fields of the document that the record has and leaves   *)
(* the others alone.  Completing and failing a record in the collection    *)
(* read it first and update it afterwards.                                 *)
(*                                                                         *)
(* internal/workflow/activities/compensation: the rollback of a file       *)
(* operation as an activity, which is tried again after an error, and      *)
(* after an attempt whose answer did not come in time.  The activity does  *)
(* not look at its context: such an attempt goes on beside its retry.      *)
(***************************************************************************)
EXTENDS Integers, FiniteSets, Sequences

CONSTANTS
    Flow,           \* workflow IDs
    User,           \* callers of the repository
    MaxSeconds,     \* bound: the clock
    MaxRecords,     \* bound: records made
    MaxIncrements   \* bound: retries counted per record

RecordAssumption == MaxSeconds \in Nat /\ MaxRecords \in Nat /\ MaxIncrements \in Nat

VARIABLES
    second,         \* the clock
    made,           \* the records in the order they were made: their second, and their workflow
    docs,           \* the collection, by ID
    held,           \* the record each caller made, or has read to mark it
    saved           \* history: records that were saved, and not deleted since

recordVars == <<second, made, docs, held, saved>>

RecordStatus == {"pending", "running", "completed", "failed", "skipped"}
RecordID == 0..MaxSeconds

MadeRecord == [id : RecordID, flow : Flow]

\* What a record holds, or a document, which is the record `by` that was saved last.
Doc == [by : 1..MaxRecords, status : RecordStatus, retries : 0..MaxIncrements, started : BOOLEAN, ended : BOOLEAN]
FreshRecord(r, status) == [by |-> r, status |-> status, retries |-> 0, started |-> FALSE, ended |-> FALSE]
Empty == FreshRecord(0, "none")
NothingHeld == [what |-> "nothing", id |-> 0, doc |-> Empty]

RecordTypeOK ==
    /\ second \in RecordID
    /\ made \in Seq(MadeRecord) /\ Len(made) <= MaxRecords
    /\ docs \in [RecordID -> Doc \cup {Empty}]
    /\ held \in [User -> [what : {"nothing", "record", "completed", "failed"}, id : RecordID, doc : Doc \cup {Empty}]]
    /\ saved \subseteq DOMAIN made

RecordInit ==
    /\ second = 0 /\ made = <<>> /\ docs = [id \in RecordID |-> Empty]
    /\ held = [u \in User |-> NothingHeld] /\ saved = {}

Tick ==
    /\ second < MaxSeconds /\ second' = second + 1
    /\ UNCHANGED <<made, docs, held, saved>>

\* NewCompensationRecord; generateID formats the second.
NewCompensationRecord(u, f) ==
    /\ held[u] = NothingHeld /\ Len(made) < MaxRecords
    /\ made' = Append(made, [id |-> second, flow |-> f])
    /\ held' = [held EXCEPT ![u] = [what |-> "record", id |-> second, doc |-> FreshRecord(Len(made) + 1, "pending")]]
    /\ UNCHANGED <<second, docs, saved>>

\* Status and times of a record that is marked.
WithStatus(doc, status) ==
    [doc EXCEPT !.status = status, !.started = @ \/ status = "running", !.ended = @ \/ status \in {"completed", "failed"}]

\* MarkStarted, MarkSkipped, MarkComplete and MarkFailed of a record in memory.
MarkHeld(u, status) ==
    /\ held[u].what = "record"
    /\ held' = [held EXCEPT ![u].doc = WithStatus(@, status)]
    /\ UNCHANGED <<second, made, docs, saved>>

\* $set with a record: a time that is zero is left out, and stays what it is in the document.
FieldsSet(old, doc) == [doc EXCEPT !.started = @ \/ old.started, !.ended = @ \/ old.ended]

\* SaveCompensationRecord: an upsert.  The caller may go on with the record and save it again.
SaveCompensationRecord(u, again) ==
    /\ held[u].what = "record"
    /\ docs' = [docs EXCEPT ![held[u].id] = FieldsSet(@, held[u].doc)]
    /\ saved' = saved \cup {held[u].doc.by}
    /\ held' = IF again THEN held ELSE [held EXCEPT ![u] = NothingHeld]
    /\ UNCHANGED <<second, made>>

\* MarkCompensationStarted: one update of what is there.
MarkCompensationStarted(id) ==
    /\ docs[id] # Empty
    /\ docs' = [docs EXCEPT ![id] = WithStatus(@, "running")]
    /\ UNCHANGED <<second, made, held, saved>>

\* MarkCompensationCompleted and MarkCompensationFailed read the record, for how long it took...
ReadRecord(u, id, outcome) ==
    /\ held[u] = NothingHeld /\ docs[id] # Empty
    /\ held' = [held EXCEPT ![u] = [what |-> outcome, id |-> id, doc |-> FreshRecord(docs[id].by, outcome)]]
    /\ UNCHANGED <<second, made, docs, saved>>

\* Wrong on purpose: the update inserts the record if it is gone.
MarkedUpsert(u) == WithStatus(held[u].doc, held[u].what)

\* What the update makes of the record: nothing, if it matches none.
Marked(u) ==
    LET doc == docs[held[u].id]
    IN IF doc = Empty THEN Empty ELSE WithStatus(doc, held[u].what)

\* ...and update it.
MarkEnded(u) ==
    /\ held[u].what \in {"completed", "failed"}
    /\ docs' = [docs EXCEPT ![held[u].id] = Marked(u)]
    /\ held' = [held EXCEPT ![u] = NothingHeld]
    /\ UNCHANGED <<second, made, saved>>

\* IncrementRetryCount.
IncrementRetryCount(id) ==
    /\ docs[id] # Empty /\ docs[id].retries < MaxIncrements
    /\ docs' = [docs EXCEPT ![id].retries = @ + 1]
    /\ UNCHANGED <<second, made, held, saved>>

\* DeleteCompensationHistory, by the workflow a document has.
DeleteCompensationHistory(f) ==
    /\ docs' = [id \in RecordID |-> IF docs[id] # Empty /\ made[docs[id].by].flow = f THEN Empty ELSE docs[id]]
    /\ saved' = {r \in saved : made[r].flow # f}
    /\ UNCHANGED <<second, made, held>>

\* The index that lets records expire.
Expire(id) ==
    /\ docs[id] # Empty
    /\ docs' = [docs EXCEPT ![id] = Empty] /\ saved' = saved \ {docs[id].by}
    /\ UNCHANGED <<second, made, held>>

RecordNext ==
    \/ Tick \/ \E f \in Flow : DeleteCompensationHistory(f)
    \/ \E id \in RecordID : MarkCompensationStarted(id) \/ IncrementRetryCount(id) \/ Expire(id)
    \/ \E u \in User :
          \/ MarkEnded(u) \/ \E f \in Flow : NewCompensationRecord(u, f)
          \/ \E again \in BOOLEAN : SaveCompensationRecord(u, again)
          \/ \E status \in RecordStatus \ {"pending"} : MarkHeld(u, status)
          \/ \E id \in RecordID, outcome \in {"completed", "failed"} : ReadRecord(u, id, outcome)

RecordSpec == RecordInit /\ [][RecordNext]_recordVars

-----------------------------------------------------------------------------
(* The rollback of a file *)

CONSTANTS MaxRollbackAttempts   \* of the compensation's retry policy

RollbackAssumption == MaxRollbackAttempts \in Nat \ {0}

VARIABLES
    undo,           \* FileRollbackInput: operation, and what it can be undone from
    file, backup,   \* what is at FilePath and at BackupPath
    attempt,        \* attempts begun; the server waits for the last of them
    outcome,        \* what the workflow was told
    step,           \* where each attempt is
    late,           \* history: an attempt nobody waited for any more touched the files
    broken          \* history: a write broke off

rollbackVars == <<undo, file, backup, attempt, outcome, step, late, broken>>

Operation == {"create", "update", "delete", "other"}
Source == {"backup", "content", "nothing"}
Content == {"absent", "old", "new", "torn"}
RollbackAttempt == 1..MaxRollbackAttempts
RollbackStep == {"none", "begin", "truncate", "fill", "remove", "success", "error", "dead"}
NoUndo == [operation |-> "other", from |-> "nothing"]

RollbackTypeOK ==
    /\ undo \in [operation : Operation, from : Source]
    /\ file \in Content /\ backup \in Content
    /\ attempt \in 0..MaxRollbackAttempts /\ outcome \in {"none", "success", "failed"}
    /\ step \in [RollbackAttempt -> RollbackStep] /\ late \in BOOLEAN /\ broken \in BOOLEAN

RollbackInit ==
    /\ undo = NoUndo /\ file = "absent" /\ backup = "absent"
    /\ attempt = 0 /\ outcome = "none" /\ step = [a \in RollbackAttempt |-> "none"]
    /\ late = FALSE /\ broken = FALSE

\* The operation has been done and is to be undone.
BeginRollback(operation, from) ==
    /\ attempt = 0
    /\ undo' = [operation |-> operation, from |-> from]
    /\ file' = IF operation = "delete" THEN "absent" ELSE "new"
    /\ backup' = IF from = "backup" THEN "old" ELSE "absent"
    /\ attempt' = 1 /\ step' = [step EXCEPT ![1] = "begin"]
    /\ UNCHANGED <<outcome, late, broken>>

\* The server waits for an answer of the attempt.
Awaited(a) == a = attempt /\ outcome = "none"

Goes(a, next) == step' = [step EXCEPT ![a] = next]
Touches(a) == late' = (late \/ ~Awaited(a))

\* RollbackFile of a file that was created: it is deleted, which may fail.
DeleteCreated(a, ok) ==
    /\ step[a] = "begin" /\ undo.operation = "create"
    /\ file' = IF ok THEN "absent" ELSE file
    /\ Goes(a, IF ok THEN "success" ELSE "error") /\ Touches(a)
    /\ UNCHANGED <<undo, backup, attempt, outcome, broken>>

\* RollbackFile up to its first effect otherwise: the old content is read, or at hand.
ReadContent(a, ok) ==
    /\ step[a] = "begin" /\ undo.operation # "create"
    /\ Goes(a, IF undo.operation \in {"update", "delete"} /\ ok
                     /\ (undo.from = "content" \/ (undo.from = "backup" /\ backup = "old"))
               THEN "truncate" ELSE "error")
    /\ UNCHANGED <<undo, file, backup, attempt, outcome, late, broken>>

\* os.WriteFile empties the file...
Truncate(a, ok) ==
    /\ step[a] = "truncate"
    /\ IF ok THEN file' = "torn" /\ Touches(a) ELSE UNCHANGED <<file, late>>
    /\ Goes(a, IF ok THEN "fill" ELSE "error")
    /\ UNCHANGED <<undo, backup, attempt, outcome, broken>>

\* Wrong on purpose: the error of the write is not looked at.
AfterAnyWrite(ok) == IF undo.from = "backup" THEN "remove" ELSE "success"

AfterWrite(ok) == IF ~ok THEN "error" ELSE IF undo.from = "backup" THEN "remove" ELSE "success"

\* ...and writes what was read, all of it or a part.
Fill(a, ok) ==
    /\ step[a] = "fill"
    /\ file' = IF ok THEN "old" ELSE file
    /\ broken' = (broken \/ ~ok)
    /\ Goes(a, AfterWrite(ok)) /\ Touches(a)
    /\ UNCHANGED <<undo, backup, attempt, outcome>>

\* The backup goes after the file is back; that it may stay is ignored.
RemoveBackup(a, ok) ==
    /\ step[a] = "remove"
    /\ backup' = IF ok THEN "absent" ELSE backup
    /\ Goes(a, "success") /\ Touches(a)
    /\ UNCHANGED <<undo, file, attempt, outcome, broken>>

\* A worker is gone, with the attempt it ran.
WorkerLost(a) ==
    /\ step[a] \in {"begin", "truncate", "fill", "remove"}
    /\ broken' = (broken \/ step[a] = "fill")
    /\ Goes(a, "dead")
    /\ UNCHANGED <<undo, file, backup, attempt, outcome, late>>

\* The next attempt, if there may be one.
TryAgain ==
    IF attempt < MaxRollbackAttempts
    THEN attempt' = attempt + 1 /\ step' = [step EXCEPT ![attempt + 1] = "begin"] /\ UNCHANGED outcome
    ELSE outcome' = "failed" /\ UNCHANGED <<attempt, step>>

\* The answer of the attempt reaches the server.
AnswerRollback(a) ==
    /\ Awaited(a) /\ step[a] \in {"success", "error"}
    /\ IF step[a] = "success" THEN outcome' = "success" /\ UNCHANGED <<attempt, step>> ELSE TryAgain
    /\ UNCHANGED <<undo, file, backup, late, broken>>

\* It does not come in time: it was lost, its worker is gone, or it is still at work.
AttemptTimesOut ==
    /\ attempt > 0 /\ outcome = "none" /\ TryAgain
    /\ UNCHANGED <<undo, file, backup, late, broken>>

RollbackNext ==
    \/ \E operation \in Operation, from \in Source : BeginRollback(operation, from)
    \/ \E a \in RollbackAttempt :
          \/ \E ok \in BOOLEAN :
                DeleteCreated(a, ok) \/ ReadContent(a, ok) \/ Truncate(a, ok) \/ Fill(a, ok) \/ RemoveBackup(a, ok)
          \/ WorkerLost(a) \/ AnswerRollback(a)
    \/ AttemptTimesOut

RollbackSpec == RollbackInit /\ [][RollbackNext]_rollbackVars

-----------------------------------------------------------------------------
(* Properties *)

\* No other record was made in the second of this one.
Alone(r) == \A s \in DOMAIN made : made[s].id = made[r].id => s = r

\* Records that callers save, read, mark and delete side by side are not lost, do not come back
\* and are not mixed up: a document is a record that was saved under this ID and not deleted
\* since, also when it is deleted between the read and the update of a mark; a record that was
\* saved is in the collection, unless another one was made in the same second; and what
\* runs has a start and what ended an end, although saving a record again takes it back to what
\* its caller had in memory.
SavedAreKept ==
    /\ RecordTypeOK
    /\ \A id \in RecordID : docs[id] # Empty =>
          /\ docs[id].by \in saved /\ made[docs[id].by].id = id
          /\ docs[id].status = "running" => docs[id].started
          /\ docs[id].status \in {"completed", "failed"} => docs[id].ended
    /\ \A r \in saved : Alone(r) => docs[made[r].id].by = r

\* A write by an attempt nobody waited for may be half done for ever, or for now.
LeftTorn == late /\ (broken \/ \E a \in RollbackAttempt : step[a] = "fill")

\* However often attempts break off, fail half-way, are repeated and go on beside their
\* repetition, what was in the file is in the file again, or still in the backup, and a rollback
\* that is reported a success left the file as it was, unless an attempt that had timed out
\* touched the files and some write is not finished.  A repeated attempt may report an error
\* although the file is right, because the backup it would read is gone.
NothingLost ==
    /\ RollbackTypeOK
    /\ attempt > 0 /\ undo.from = "backup" /\ undo.operation \in {"update", "delete"} /\ ~LeftTorn =>
          "old" \in {file, backup}
    /\ outcome = "success" /\ ~LeftTorn => file = IF undo.operation = "create" THEN "absent" ELSE "old"

\* Undoing loses nothing, but what is named: neither of the records of what is to be undone,
\* nor of the files.
UndoingIsSafe == SavedAreKept /\ NothingLost
=============================================================================
