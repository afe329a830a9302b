---------------------------- MODULE WorkflowRuns ----------------------------
(***************************************************************************)
(* internal/workflow/engine, internal/workflow/repository and the HTTP     *)
(* handlers of internal/api/handlers/workflow: workflows are started and   *)
(* canceled through the engine's client while the engine starts and stops, *)
(* and a record of each start is kept in a table.                          *)
(*                                                                         *)
(* A handler is a sequence of calls without a transaction around them.     *)
(* Temporal is external: per workflow ID it has at most one open run, and  *)
(* a start of an ID that has one joins it.  A call of the client that ends *)
(* in an error may reach Temporal all the same, and later.                 *)
(***************************************************************************)
EXTENDS Integers, Sequences, SequencesExt

CONSTANTS
    WorkflowID, Handler,
    MaxStarts,      \* bound: records in the table
    MaxEngines      \* bound: how often the engine is started

RunAssumption == MaxStarts \in Nat /\ MaxEngines \in Nat

VARIABLES
    engine,         \* number of the engine's client, 0 if it is not running
    engines,        \* clients made so far
    rows,           \* workflow_executions, in the order of created_at
    open,           \* Temporal: workflow IDs with an open run
    begun,          \* history: rows whose start reached Temporal
    revoked,        \* history: rows for which a cancel reached Temporal
    astray,         \* history: <<call, row>> of calls that ended in an error
    unwritten,      \* history: rows a status update of which failed
    handler         \* the requests being served

runVars == <<engine, engines, rows, open, begun, revoked, astray, unwritten, handler>>

Row == [workflow : WorkflowID, status : {"pending", "running", "failed", "canceled"}, finished : BOOLEAN]
IdleHandler == [stage |-> "idle", row |-> 0, client |-> 0]
Stage == {"idle", "execute", "execute_call", "running", "failed", "cancel", "cancel_call", "canceled"}

RunTypeOK ==
    /\ engines \in 0..MaxEngines /\ engine \in 0..engines
    /\ rows \in Seq(Row) /\ Len(rows) <= MaxStarts /\ open \subseteq WorkflowID
    /\ begun \subseteq DOMAIN rows /\ revoked \subseteq DOMAIN rows /\ unwritten \subseteq DOMAIN rows
    /\ astray \subseteq {"start", "cancel"} \X DOMAIN rows
    /\ handler \in [Handler -> [stage : Stage, row : 0..Len(rows), client : 0..engines]]

RunInit ==
    /\ engine = 0 /\ engines = 0 /\ rows = <<>> /\ open = {}
    /\ begun = {} /\ revoked = {} /\ astray = {} /\ unwritten = {}
    /\ handler = [h \in Handler |-> IdleHandler]

To(h, stage) == handler' = [handler EXCEPT ![h].stage = stage]
Back(h) == handler' = [handler EXCEPT ![h] = IdleHandler]

-----------------------------------------------------------------------------
(* The engine *)

\* Start: the client is dialed and the worker started, both under the lock.
StartEngine ==
    /\ engine = 0 /\ engines < MaxEngines
    /\ engines' = engines + 1 /\ engine' = engines'
    /\ UNCHANGED <<rows, open, begun, revoked, astray, unwritten, handler>>

\* Stop closes the client that calls may still hold.
StopEngine ==
    /\ engine # 0 /\ engine' = 0
    /\ UNCHANGED <<engines, rows, open, begun, revoked, astray, unwritten, handler>>

\* The check every call of the engine begins with: it takes the client and gives up the lock.
TakeClient(h, from, to, otherwise) ==
    /\ handler[h].stage = from
    /\ handler' = [handler EXCEPT ![h].client = engine, ![h].stage = IF engine = 0 THEN otherwise ELSE to]
    /\ UNCHANGED <<engine, engines, rows, open, begun, revoked, astray, unwritten>>

\* A call of a client works while its engine runs.
ClientWorks(h) == handler[h].client = engine

-----------------------------------------------------------------------------
(* Starting a workflow *)

\* StartWorkflow decodes, and SaveExecution inserts a row.
SaveExecution(h, w) ==
    /\ handler[h].stage = "idle" /\ Len(rows) < MaxStarts
    /\ rows' = Append(rows, [workflow |-> w, status |-> "pending", finished |-> FALSE])
    /\ handler' = [handler EXCEPT ![h] = [stage |-> "execute", row |-> Len(rows) + 1, client |-> 0]]
    /\ UNCHANGED <<engine, engines, open, begun, revoked, astray, unwritten>>

\* ToPipelineInput or ToTestSuiteInput fails: the answer is 400 and the row stays as it is.
RejectInput(h) ==
    /\ handler[h].stage = "execute"
    /\ Back(h)
    /\ UNCHANGED <<engine, engines, rows, open, begun, revoked, astray, unwritten>>

\* Client.ExecuteWorkflow.
ExecuteWorkflow(h, ok) ==
    /\ handler[h].stage = "execute_call" /\ (ok => ClientWorks(h))
    /\ astray' = IF ok THEN astray ELSE astray \cup {<<"start", handler[h].row>>}
    /\ open' = IF ok THEN open \cup {rows[handler[h].row].workflow} ELSE open
    /\ begun' = IF ok THEN begun \cup {handler[h].row} ELSE begun
    /\ To(h, IF ok THEN "running" ELSE "failed")
    /\ UNCHANGED <<engine, engines, rows, revoked, unwritten>>

\* Wrong on purpose: completed_at is set by every update.
FinishedAlways(status) == TRUE

\* UpdateStatus sets completed_at with a final status and leaves it alone with any other.
Finished(status) == status \in {"completed", "failed", "canceled"}

\* The handler's last step: UpdateStatus, whose error it ignores.
UpdateStatus(h, ok) ==
    /\ handler[h].stage \in {"running", "failed", "canceled"}
    /\ LET r == handler[h].row
           status == handler[h].stage
       IN /\ rows' = IF ok THEN [rows EXCEPT ![r].status = status, ![r].finished = @ \/ Finished(status)] ELSE rows
          /\ unwritten' = IF ok THEN unwritten ELSE unwritten \cup {r}
    /\ Back(h)
    /\ UNCHANGED <<engine, engines, open, begun, revoked, astray>>

-----------------------------------------------------------------------------
(* Canceling one *)

\* GetExecutionByWorkflowID: the newest row, 0 if there is none.
NewestRow(w) == SelectLastInSeq(rows, LAMBDA row : row.workflow = w)

\* CancelWorkflow up to its check of the status.
LookUp(h, w) ==
    /\ handler[h].stage = "idle" /\ NewestRow(w) # 0
    /\ rows[NewestRow(w)].status \in {"pending", "running"}
    /\ handler' = [handler EXCEPT ![h] = [stage |-> "cancel", row |-> NewestRow(w), client |-> 0]]
    /\ UNCHANGED <<engine, engines, rows, open, begun, revoked, astray, unwritten>>

\* Client.CancelWorkflow; a workflow without an open run is an error.
CancelWorkflow(h, ok) ==
    /\ handler[h].stage = "cancel_call"
    /\ ok => ClientWorks(h) /\ rows[handler[h].row].workflow \in open
    /\ revoked' = IF ok THEN revoked \cup {handler[h].row} ELSE revoked
    /\ astray' = IF ok THEN astray ELSE astray \cup {<<"cancel", handler[h].row>>}
    /\ IF ok THEN To(h, "canceled") ELSE Back(h)
    /\ UNCHANGED <<engine, engines, rows, open, begun, unwritten>>

\* A call that its caller gave up reaches Temporal, once.
StartArrives(r) ==
    /\ <<"start", r>> \in astray /\ r \notin begun
    /\ begun' = begun \cup {r} /\ open' = open \cup {rows[r].workflow}
    /\ UNCHANGED <<engine, engines, rows, revoked, astray, unwritten, handler>>

CancelArrives(r) ==
    /\ <<"cancel", r>> \in astray /\ r \notin revoked /\ rows[r].workflow \in open
    /\ revoked' = revoked \cup {r}
    /\ UNCHANGED <<engine, engines, rows, open, begun, astray, unwritten, handler>>

\* A run ends; no row is told.
RunEnds(w) ==
    /\ w \in open /\ open' = open \ {w}
    /\ UNCHANGED <<engine, engines, rows, begun, revoked, astray, unwritten, handler>>

RunNext ==
    \/ StartEngine \/ StopEngine \/ \E w \in WorkflowID : RunEnds(w)
    \/ \E r \in DOMAIN rows : StartArrives(r) \/ CancelArrives(r)
    \/ \E h \in Handler :
          \/ \E w \in WorkflowID : SaveExecution(h, w) \/ LookUp(h, w)
          \/ RejectInput(h)
          \/ TakeClient(h, "execute", "execute_call", "failed") \/ TakeClient(h, "cancel", "cancel_call", "idle")
          \/ \E ok \in BOOLEAN : ExecuteWorkflow(h, ok) \/ CancelWorkflow(h, ok) \/ UpdateStatus(h, ok)

RunSpec == RunInit /\ [][RunNext]_runVars

-----------------------------------------------------------------------------
(* Properties *)

Serving(r) == \E h \in Handler : handler[h].stage # "idle" /\ handler[h].row = r

\* What a row says is true of Temporal, in whatever order handlers get there and whether the
\* engine stops or not: a row that is "running" was begun, and one that is "canceled" was
\* canceled there; one that is "failed" was not begun, unless the call that was to begin it
\* got lost with an error and went through; a row has an end (completed_at) only if it failed
\* or was canceled, although a late "running" may overwrite "canceled"; and one that is still
\* "pending", is served by nobody and lost no update was never begun, nor canceled but by a
\* call that got lost.
RowsTruthful ==
    /\ RunTypeOK
    /\ \A r \in DOMAIN rows :
          /\ rows[r].status = "running" => r \in begun
          /\ rows[r].status = "canceled" => r \in revoked
          /\ rows[r].status = "failed" /\ r \in begun => <<"start", r>> \in astray
          /\ rows[r].status \in {"failed", "canceled"} => rows[r].finished
          /\ rows[r].finished => rows[r].status = "failed" \/ r \in revoked
          /\ rows[r].status = "pending" /\ ~Serving(r) /\ r \notin unwritten =>
                r \notin begun /\ (r \in revoked => <<"cancel", r>> \in astray)
=============================================================================
