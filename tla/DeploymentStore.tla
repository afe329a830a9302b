--------------------------- MODULE DeploymentStore ---------------------------
(***************************************************************************)
(* The deployments API over its two stores: internal/api/handlers          *)
(* (deployments, configs, executions), internal/database/repository (SQL,  *)
(* with the constraints of the initial migration) and                      *)
(* internal/database/mongodb/adapters (documents). Both stores are given   *)
(* the same requests in the same interleaving, so that they can be         *)
(* compared.                                                               *)
(***************************************************************************)
EXTENDS Integers, Functions

CONSTANTS
    ApiHandler,         \* requests served at the same time
    Name,               \* names of deployments and configs
    DeploymentStatus,   \* statuses a PUT may ask for, beside "pending"
    MaxRequests         \* bound: requests of all handlers

StoreAssumption == MaxRequests \in Nat

Null == 0                \* NULL, nil

VARIABLES
    sql,        \* tables of the SQL store
    documents,  \* collections of the document store
    api,        \* per handler: the request it serves
    requests,   \* requests begun; each one's number is the id of what it creates
    refused,    \* a constraint of the SQL schema refused a write
    removed     \* <<table, id>> of the rows deleted

storeVars == <<sql, documents, api, requests, refused, removed>>

RowID == 1..MaxRequests
Table == {"deployments", "configs", "executions"}
Deployment == [name : Name, configId : RowID \union {Null}, status : DeploymentStatus \union {"pending"}]
Config == [name : Name, content : Name]
Execution == [deploymentId : RowID]
Rows(t) == IF t = "deployments" THEN Deployment ELSE IF t = "configs" THEN Config ELSE Execution
Idle == [kind |-> "none"]

StoreTypeOK ==
    /\ \A t \in Table : DOMAIN sql[t] \subseteq RowID /\ \A i \in DOMAIN sql[t] : sql[t][i] \in Rows(t)
    /\ \A t \in Table : DOMAIN documents[t] \subseteq RowID
    /\ requests \in 0..MaxRequests /\ refused \in BOOLEAN /\ removed \subseteq Table \X RowID

EmptyTable == [i \in {} |-> Null]
StoreInit ==
    /\ sql = [t \in Table |-> EmptyTable] /\ documents = [t \in Table |-> EmptyTable]
    /\ api = [h \in ApiHandler |-> Idle]
    /\ requests = 0 /\ refused = FALSE /\ removed = {}

-----------------------------------------------------------------------------
\* The SQL repositories: a row is refused by a UNIQUE or a REFERENCES.
CreateDeployment(d) ==
    /\ \A i \in DOMAIN sql.deployments : sql.deployments[i].name # d.name
    /\ d.configId # Null => d.configId \in DOMAIN sql.configs
UpdateDeployment(i, d) ==
    /\ \A j \in DOMAIN sql.deployments \ {i} : sql.deployments[j].name # d.name
    /\ d.configId # Null => d.configId \in DOMAIN sql.configs
DeleteDeployment(i) == \A e \in DOMAIN sql.executions : sql.executions[e].deploymentId # i
DeleteConfig(i) == \A d \in DOMAIN sql.deployments : sql.deployments[d].configId # i
CreateExecution(e) == e.deploymentId \in DOMAIN sql.deployments

InsertAllowed(t, row) ==
    /\ t = "deployments" => CreateDeployment(row)
    /\ t = "executions" => CreateExecution(row)
UpdateAllowed(t, i, row) == t = "deployments" => UpdateDeployment(i, row)
DeleteAllowed(t, i) ==
    /\ t = "deployments" => DeleteDeployment(i)
    /\ t = "configs" => DeleteConfig(i)

-----------------------------------------------------------------------------
\* The adapters: a model to a document, and back. A field that is not valid
\* is left out when the document is inserted, and set to nil by an update.
InsertedDeployment(d) == [f \in {"name", "status"} \union (IF d.configId = Null THEN {} ELSE {"configId"}) |-> d[f]]
SetFields(doc, fields, d) == [f \in DOMAIN doc \union fields |-> IF f \in fields THEN d[f] ELSE doc[f]]
UpdatedDeployment(doc, d) == SetFields(doc, {"name", "status", "configId"}, d)
InsertedConfig(c) == [f \in {"name", "content"} |-> c[f]]
UpdatedConfig(doc, c) == SetFields(doc, {"name", "content"}, c)
InsertedExecution(e) == [f \in {"deploymentId"} |-> e[f]]

Field(doc, f) == IF f \in DOMAIN doc THEN doc[f] ELSE Null
DocumentToDeployment(doc) == [name |-> Field(doc, "name"), status |-> Field(doc, "status"), configId |-> Field(doc, "configId")]
DocumentToConfig(doc) == [name |-> Field(doc, "name"), content |-> Field(doc, "content")]
DocumentToExecution(doc) == [deploymentId |-> Field(doc, "deploymentId")]

\* What the repositories do with one row or document.
InsertOne(c, i, doc) == [j \in DOMAIN c \union {i} |-> IF j = i THEN doc ELSE c[j]]
DeleteOne(c, i) == Restrict(c, DOMAIN c \ {i})
UpdateOne(c, i, doc) == [j \in DOMAIN c |-> IF j = i THEN doc ELSE c[j]]
FindOne(t, i) == documents[t][i]

Inserted(t, row) ==
    IF t = "deployments" THEN InsertedDeployment(row) ELSE IF t = "configs" THEN InsertedConfig(row) ELSE InsertedExecution(row)
\* Wrong on purpose: Update of the adapter leaves configId as it is.
UpdatedWithoutConfig(t, doc, row) ==
    IF t = "deployments" THEN SetFields(doc, {"name", "status"}, row) ELSE UpdatedConfig(doc, row)
Updated(t, doc, row) ==
    IF t = "deployments" THEN UpdatedDeployment(doc, row) ELSE UpdatedConfig(doc, row)
Model(t, doc) ==
    IF t = "deployments" THEN DocumentToDeployment(doc) ELSE IF t = "configs" THEN DocumentToConfig(doc) ELSE DocumentToExecution(doc)

-----------------------------------------------------------------------------
\* What a handler wants: a create, an update, a delete or an execution.
NewDeployment(name, config) == [name |-> name, configId |-> config, status |-> "pending"]
Patched(row, patch) == [f \in DOMAIN row |-> IF f \in DOMAIN patch THEN patch[f] ELSE row[f]]
Patches(t) ==
    [{"name"} -> Name] \union
    IF t = "deployments" THEN [{"configId"} -> RowID] \union [{"status"} -> DeploymentStatus] ELSE [{"content"} -> Name]

\* One write to both stores. The SQL one may be refused; a document is
\* written whenever it can be found.
Insert(t, row) ==
    /\ sql' = IF InsertAllowed(t, row) THEN [sql EXCEPT ![t] = InsertOne(@, requests', row)] ELSE sql
    /\ documents' = [documents EXCEPT ![t] = InsertOne(@, requests', Inserted(t, row))]
    /\ refused' = (refused \/ ~InsertAllowed(t, row))
    /\ UNCHANGED removed

\* POST /deployments and POST /configs
Create(h, t, row) ==
    /\ api[h] = Idle /\ requests < MaxRequests /\ requests' = requests + 1
    /\ Insert(t, row) /\ UNCHANGED api

\* DELETE: one call of the repository.
Delete(h, t, i) ==
    /\ api[h] = Idle /\ requests < MaxRequests /\ requests' = requests + 1
    /\ i \in DOMAIN sql[t] \union DOMAIN documents[t]
    /\ LET allowed == DeleteAllowed(t, i) IN
       /\ sql' = IF allowed THEN [sql EXCEPT ![t] = Restrict(@, DOMAIN @ \ {i})] ELSE sql
       /\ documents' = [documents EXCEPT ![t] = DeleteOne(@, i)]
       /\ refused' = (refused \/ ~allowed)
    /\ removed' = removed \union {<<t, i>>} /\ UNCHANGED api

\* PUT and POST .../execute begin with GetByID in each store; a missing row
\* ends the request there.
Read(h, kind, t, i, patch) ==
    /\ api[h] = Idle /\ requests < MaxRequests /\ requests' = requests + 1
    /\ i \in DOMAIN sql[t] /\ i \in DOMAIN documents[t]
    /\ api' = [api EXCEPT ![h] =
         [kind |-> kind, table |-> t, id |-> i, patch |-> patch, number |-> requests',
          row |-> sql[t][i], model |-> Model(t, FindOne(t, i))]]
    /\ UNCHANGED <<sql, documents, refused, removed>>

\* Wrong on purpose: an update of a row that has gone inserts it.
WrittenAlways(rows, i) == DOMAIN rows \union {i}
\* The rows after an UPDATE ... WHERE id = i: it inserts nothing.
Written(rows, i) == DOMAIN rows

\* The second half of PUT: Update with everything that was read, patched.
WriteBack(h) ==
    LET c == api[h]
        row == Patched(c.row, c.patch)
        allowed == UpdateAllowed(c.table, c.id, row) IN
    /\ c.kind = "put"
    /\ sql' = IF allowed
              THEN [sql EXCEPT ![c.table] = [i \in Written(@, c.id) |-> IF i = c.id THEN row ELSE @[i]]]
              ELSE sql
    /\ documents' = IF c.id \notin DOMAIN documents[c.table] THEN documents
               ELSE [documents EXCEPT ![c.table] =
                       UpdateOne(@, c.id, Updated(c.table, FindOne(c.table, c.id), Patched(c.model, c.patch)))]
    /\ refused' = (refused \/ (~allowed /\ c.id \in DOMAIN sql[c.table]))
    /\ api' = [api EXCEPT ![h] = Idle] /\ UNCHANGED <<requests, removed>>

\* The second half of POST .../execute: an execution of the deployment read.
ExecuteDeployment(h) ==
    LET c == api[h]
        row == [deploymentId |-> c.id] IN
    /\ c.kind = "execute"
    /\ sql' = IF InsertAllowed("executions", row) THEN [sql EXCEPT !.executions = InsertOne(@, c.number, row)] ELSE sql
    /\ documents' = [documents EXCEPT !.executions = InsertOne(@, c.number, Inserted("executions", row))]
    /\ refused' = (refused \/ ~InsertAllowed("executions", row))
    /\ api' = [api EXCEPT ![h] = Idle] /\ UNCHANGED <<requests, removed>>

\* The requests of the API.
PostDeployment(h, n, c) == Create(h, "deployments", NewDeployment(n, c))
PostConfig(h, n) == Create(h, "configs", [name |-> n, content |-> n])
RemoveDeployment(h, i) == Delete(h, "deployments", i)
RemoveConfig(h, i) == Delete(h, "configs", i)
PutDeployment(h, i, p) == Read(h, "put", "deployments", i, p)
PutConfig(h, i, p) == Read(h, "put", "configs", i, p)
BeginExecution(h, i) == Read(h, "execute", "deployments", i, [f \in {} |-> Null])

StoreNext ==
    \E h \in ApiHandler :
        \/ \E n \in Name, c \in DOMAIN sql.configs \union {Null} : PostDeployment(h, n, c)
        \/ \E n \in Name : PostConfig(h, n)
        \/ \E i \in RowID :
              \/ RemoveDeployment(h, i)
              \/ RemoveConfig(h, i)
              \/ \E p \in Patches("deployments") : PutDeployment(h, i, p)
              \/ \E p \in Patches("configs") : PutConfig(h, i, p)
              \/ BeginExecution(h, i)
        \/ WriteBack(h)
        \/ ExecuteDeployment(h)

StoreSpec == StoreInit /\ [][StoreNext]_storeVars

-----------------------------------------------------------------------------
\* However requests interleave, a row that was deleted does not come back
\* with a write that began before (Update of the repositories), and while no
\* constraint has refused a write the two stores hold the same rows, seen
\* through the conversions of the adapters.
StoresAgree ==
    /\ StoreTypeOK
    /\ \A t \in Table, i \in RowID : <<t, i>> \in removed /\ ~refused => i \notin DOMAIN sql[t]
    /\ ~refused => \A t \in Table :
         /\ DOMAIN sql[t] = DOMAIN documents[t]
         /\ \A i \in DOMAIN sql[t] : Model(t, documents[t][i]) = sql[t][i]
=============================================================================
