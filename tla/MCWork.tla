------------------------------- MODULE MCWork -------------------------------
(***************************************************************************)
(* The safety of what runs behind the services: workflows and what undoes  *)
(* them, migrations, stores, pages and queries, and the validators of the  *)
(* language, each a part of its own.  Parts with variables of their own    *)
(* stay where they begin while another one runs; the rest take theirs from *)
(* the pool (see MCPool).                                                  *)
(***************************************************************************)
EXTENDS MCPool, WorkflowRuns, Compensation, DslWorkflow, Migrations,
        Pipelines, DeploymentStore, Paging

\* Steps of declared workflows, blocks of more than one run in parallel.
MCWorkflows == {<<<<"a">>, <<"b", "c">>, <<"d">>>>, <<<<"a", "a">>, <<"b">>>>, <<<<"a", "b", "c">>, <<"a">>>>, <<<<"a">>, <<>>, <<"b">>>>}

\* Two releases that migrate one database, the newer one with a migration more.
MCEmbedded == [old |-> 1..2, new |-> 1..3]
MCMigrator == DOMAIN MCEmbedded

\* Keys of the rows of a table, in another order than their IDs.
MCKeyOf == <<2, 1, 4, 3>>

\* Pieces of query texts, and the rows they select from: amounts that are null, words that
\* share a prefix, a row deleted softly.
MCHeads == {<<>>, <<"count", "users">>, <<"select", "a", ",", "active", "from", "Users">>,
            <<"update", "users", "set", "a", "=", "2", ",", "count", "=", "'y'">>, <<"delete", "from", "users">>}
MCConditions == {<<"a", "between", "0", "and", "1">>, <<"count", "startswith", "x">>}
MCSimpleFilters == {<<"a", ":", "@p">>, <<"not", "a", ":", "1">>, <<"active">>, <<"not", "active">>, <<"'x'">>, <<"~", "x">>,
                    <<"(", "a", "=", "1", "or", "count", "=", "'x'", ")">>, <<"count", "!=", "x">>}
MCTails == {<<"order", "by", "a", "desc", "limit", "1">>, <<"having", "a", "<=", "1">>,
            <<"group", "by", "a", ",", "active", "having", "a", "<=", "1">>}
MCRow(id, amount, count, active, deleted) ==
    [id |-> id, amount |-> amount, count |-> count, active |-> active, tsv |-> count, deleted_at |-> deleted]
MCTable == <<MCRow("1", "0", "x", "true", "null"), MCRow("2", "1", "xy", "false", "null"),
             MCRow("3", "null", "y", "true", "null"), MCRow("4", "2", "x", "false", "now"),
             MCRow("5", "0", "xy", "true", "null")>>

\* Documents, filters on them and groups of filters, one with an operator nobody knows.
Document(id, a, b, tags) == [id |-> id, a |-> a, b |-> b, tags |-> tags]
MCCollection == <<Document(1, 1, 2, {1}), Document(2, 2, 1, {1, 2}), Document(3, 3, 3, {}), Document(4, 2, 3, {2})>>
Filter(f, op, v) == [f |-> f, op |-> op, v |-> v]
Group(type, filters, groups) == [type |-> type, filters |-> filters, groups |-> groups]
MCFilterExprs == {Filter("a", "gt", {1}), Filter("a", "lt", {3}), Filter("a", "eq", {2}), Filter("b", "regex", {2}),
                  Filter("b", "in", {1, 3}), Filter("b", "bad", {1})}
MCLogicalExprs ==
    {Group("or", <<Filter("a", "eq", {1}), Filter("b", "gt", {2})>>, <<>>),
     Group("or", <<>>, <<Group("and", <<Filter("a", "gt", {1}), Filter("b", "lt", {3})>>, <<>>),
                         Group("not", <<Filter("a", "lt", {3})>>, <<>>)>>),
     Group("not", <<Filter("a", "gt", {1})>>, <<>>), Group("not", <<Filter("b", "eq", {1})>>, <<>>),
     Group("and", <<Filter("a", "gte", {2}), Filter("a", "lte", {2})>>, <<>>)}
MCArrayExprs == {[f |-> "tags", type |-> type, v |-> {1}] : type \in {"size", "all", "elemMatch"}}
MCSortExprs == {[f |-> "a", dir |-> -1], [f |-> "b", dir |-> 1]}
Value(v) == [t |-> "value", v |-> v]
Ops(ops) == [t |-> "ops", ops |-> ops]
Items(s) == [t |-> "list", items |-> s]
MCDslFilters ==
    {[a |-> Value({2})],
     [a |-> Ops([gt |-> {1}, lt |-> {3}]), b |-> Value({3})],
     [and |-> Items(<<[a |-> Ops([gt |-> {1}])], [b |-> Value({3})]>>)],
     [or |-> Items(<<[a |-> Value({1})], [b |-> Ops([gt |-> {2}])]>>), a |-> Ops([lt |-> {3}])],
     [not |-> [of |-> [a |-> Ops([gt |-> {1}])]], b |-> Value({2})],
     [not |-> [of |-> [a |-> Ops([gt |-> {1}])]], a |-> Ops([lt |-> {3}])],
     [and |-> Items(<<[a |-> Ops([gt |-> {1}])], [a |-> Ops([lt |-> {3}])]>>)],
     [and |-> Items(<<[a |-> Ops([lt |-> {3}])], [b |-> Value({1})]>>), a |-> Value({2})],
     [and |-> Items(<<[a |-> Value({1})], [a |-> Value({2})]>>)],
     [and |-> Items(<<[or |-> Items(<<[a |-> Value({1})], [b |-> Value({1})]>>)]>>)]}

\* Programs of code and programs of declarations.
Plain(k) == [k |-> k, args |-> <<>>]
Ident(n) == [k |-> "ident", n |-> n, args |-> <<>>]
CallOf(n, args) == [k |-> "call", n |-> n, args |-> args]
MCCode ==
    {[k |-> "var", n |-> "x", e |-> Plain("number")], [k |-> "var", n |-> "y", e |-> Ident("x")],
     [k |-> "assign", n |-> "y", e |-> Plain("array")], [k |-> "if", e |-> Ident("x")], [k |-> "else"], [k |-> "end"],
     [k |-> "for", n |-> "x", e |-> Ident("y")], [k |-> "func", n |-> "f", params |-> <<"x">>],
     [k |-> "return", e |-> CallOf("f", <<Ident("x")>>)]}
Modifier(name, value) == [name |-> name, value |-> value]
FieldOf(name, type, mods) == [name |-> name, type |-> type, mods |-> mods]
MCModel == [fields |-> <<FieldOf("a", [name |-> "ref", inside |-> <<>>], <<Modifier("default", CallOf("len", <<Plain("string")>>))>>)>>,
            indexes |-> <<"a">>]
MCCollectionModel == [fields |-> <<FieldOf("a", [name |-> "embedded", inside |->
                         <<FieldOf("b", [name |-> "int", inside |-> <<>>], <<Modifier("default", Ident("nobody"))>>)>>], <<>>)>>,
                      indexes |-> <<>>]
Literal(n) == [k |-> "string", n |-> n, args |-> <<>>]
ListOf(args) == [k |-> "array", args |-> args]
MCDeclarations ==
    {[k |-> "config", db |-> "mongodb", uri |-> TRUE], [k |-> "config", db |-> "postgres", uri |-> FALSE],
     [k |-> "database", db |-> "mongodb", models |-> <<>>],
     [k |-> "database", db |-> "mongodb", models |-> <<MCCollectionModel>>], [k |-> "database", db |-> "postgres", models |-> <<MCModel>>],
     [k |-> "auth", n |-> "p", method |-> "jwt", jwks |-> "none"], [k |-> "role", n |-> "p", perms |-> {"a"}],
     [k |-> "middleware", n |-> "m", type |-> "authentication", config |-> [provider |-> Ident("p")]],
     [k |-> "middleware", n |-> "l", type |-> "authentication", config |-> [provider |-> Literal("nobody")]],
     [k |-> "middleware", n |-> "z", type |-> "authorization", config |-> [roles |-> ListOf(<<Literal("p"), Ident("nobody")>>)]],
     [k |-> "middleware", n |-> "r", type |-> "rate_limiting", config |-> [requests |-> Plain("number")]],
     [k |-> "middleware", n |-> "c", type |-> "cors", config |-> [origins |-> Plain("array")]],
     [k |-> "event", n |-> "e", fields |-> <<"a">>, types |-> <<"int">>], [k |-> "on", n |-> "e", action |-> "emit"],
     [k |-> "webhook", n |-> "w", url |-> "http", event |-> "e", attempts |-> 1],
     [k |-> "integration", n |-> "i", type |-> "rest", url |-> "http",
      auth |-> [type |-> "apikey", has |-> {"header", "value"}], cb |-> <<1, 1, 1>>]}
MCStatements == {MCCode, MCDeclarations}

\* Batches of declarations that callers validate one after the other.
Endpoint(method, path, middlewares, request) ==
    [method |-> method, path |-> path, rooted |-> TRUE, doubled |-> FALSE, params |-> <<"id">>, middlewares |-> middlewares,
     annotations |-> <<[name |-> "tag", ok |-> TRUE]>>, request |-> request,
     response |-> <<[type |-> "T", status |-> 200]>>, logic |-> <<[action |-> "a", names |-> <<"x">>]>>]
StepOf(name, act) == [parallel |-> FALSE, name |-> name, activity |-> act, input |-> <<"k">>, steps |-> <<>>]
Parallel(steps) == [parallel |-> TRUE, name |-> "", activity |-> "", input |-> <<>>, steps |-> steps]
OkRetry == [attempts |-> 1, interval |-> TRUE, backoff |-> 1]
WorkflowOf(name, steps) ==
    [name |-> name, trigger |-> [type |-> "event", value |-> "ok"], timeout |-> TRUE, steps |-> steps, retry |-> OkRetry]
MCRegistrations == {<<"middleware", "m">>, <<"type", "T">>, <<"action", "b">>, <<"activity", "a">>, <<"task", "t">>}
MCEndpointBatches ==
    {<<Endpoint("GET", "p", <<"m">>, <<>>)>>,
     <<Endpoint("POST", "p", <<"x">>, <<[type |-> "T", source |-> "body"]>>), Endpoint("GET", "p", <<>>, <<>>),
       Endpoint("DELETE", "q", <<>>, <<[type |-> "U", source |-> "query"]>>)>>}
MCWorkflowBatches ==
    {<<WorkflowOf("w", <<StepOf("s", "a"), Parallel(<<StepOf("r", "b"), StepOf("", "a")>>)>>)>>,
     <<WorkflowOf("u", <<Parallel(<<StepOf("s", "a")>>), StepOf("s", "a")>>)>>, <<WorkflowOf("w", <<StepOf("s", "a")>>)>>}
MCJobBatches == {<<[name |-> "w", queue |-> "q", schedule |-> "ok", task |-> "t", retry |-> OkRetry]>>,
                 <<[name |-> "j", queue |-> "q", schedule |-> "", task |-> "u", retry |-> OkRetry]>>}

Query == INSTANCE QueryCompiler WITH
        text <- v1, writing <- v2, query <- v3, compiled <- v4, table <- v5, answer <- v6,
        MaxDepth <- 1, Heads <- MCHeads, Conditions <- MCConditions,
        SimpleFilters <- MCSimpleFilters, Tails <- MCTails, FirstTable <- MCTable,
        SoftDelete <- TRUE, MaxConditions <- 3, MaxGroups <- 2, MaxNots <- 1, MaxTails <- 1

Builder == INSTANCE MongoBuilder WITH
        builder <- v1, builderCalls <- v2, pipeline <- v3, dsl <- v4, Collection <- MCCollection,
        FilterExprs <- MCFilterExprs, LogicalExprs <- MCLogicalExprs, ArrayExprs <- MCArrayExprs,
        SortExprs <- MCSortExprs, SkipsAndLimits <- {1, 2}, DslFilters <- MCDslFilters,
        MaxBuilderCalls <- 3

Validator == INSTANCE ProgramValidator WITH
        program <- v1, scopes <- v2, blocks <- v3, declared <- v4, vErrors <- v5,
        validated <- v6, Statements <- MCStatements, MaxStatements <- 6, MaxDeclarations <- 4,
        MaxNesting <- 1

Decls == INSTANCE DeclarationValidator WITH
        registered <- v1, accepted <- v2, found <- v3, answered <- v4, given <- v5,
        Registrations <- MCRegistrations, EndpointBatches <- MCEndpointBatches,
        WorkflowBatches <- MCWorkflowBatches, JobBatches <- MCJobBatches, InvalidNames <- {"1x"},
        InvalidTypes <- {"t"}, MaxValidatorCalls <- 3

ASSUME WorkAssumption ==
    RunAssumption /\ RecordAssumption /\ RollbackAssumption /\ EmbeddedAssumption /\ FlowAssumption
    /\ PipelineAssumption /\ StoreAssumption /\ PageAssumption

ownVars == <<runVars, recordVars, rollbackVars, flowVars, migrateVars, pipelineVars, storeVars, pageVars>>

WorkInit ==
    /\ RunInit /\ RecordInit /\ RollbackInit /\ FlowInit /\ MigrateInit /\ PipelineInit /\ StoreInit /\ PageInit
    /\ \/ part \in {"runs", "records", "rollback", "flow", "migrate", "pipeline", "store", "paging"} /\ NothingBeyond(0)
       \/ part = "query" /\ Query!QueryInit /\ NothingBeyond(6)
       \/ part = "builder" /\ Builder!BuilderInit /\ NothingBeyond(4)
       \/ part = "program" /\ Validator!ValidatorInit /\ NothingBeyond(6)
       \/ part = "declarations" /\ Decls!DeclInit /\ NothingBeyond(5)

OwnNext ==
    /\ UNCHANGED pool
    /\ \/ part = "runs" /\ RunNext
          /\ UNCHANGED <<recordVars, rollbackVars, flowVars, migrateVars, pipelineVars, storeVars, pageVars>>
       \/ part = "records" /\ RecordNext
          /\ UNCHANGED <<runVars, rollbackVars, flowVars, migrateVars, pipelineVars, storeVars, pageVars>>
       \/ part = "rollback" /\ RollbackNext
          /\ UNCHANGED <<runVars, recordVars, flowVars, migrateVars, pipelineVars, storeVars, pageVars>>
       \/ part = "flow" /\ FlowNext
          /\ UNCHANGED <<runVars, recordVars, rollbackVars, migrateVars, pipelineVars, storeVars, pageVars>>
       \/ part = "migrate" /\ MigrateNext
          /\ UNCHANGED <<runVars, recordVars, rollbackVars, flowVars, pipelineVars, storeVars, pageVars>>
       \/ part = "pipeline" /\ PipelineNext
          /\ UNCHANGED <<runVars, recordVars, rollbackVars, flowVars, migrateVars, storeVars, pageVars>>
       \/ part = "store" /\ StoreNext
          /\ UNCHANGED <<runVars, recordVars, rollbackVars, flowVars, migrateVars, pipelineVars, pageVars>>
       \/ part = "paging" /\ PageNext
          /\ UNCHANGED <<runVars, recordVars, rollbackVars, flowVars, migrateVars, pipelineVars, storeVars>>

PoolNext ==
    /\ UNCHANGED ownVars
    /\ \/ part = "query" /\ Query!QueryNext /\ SameBeyond(6)
       \/ part = "builder" /\ Builder!BuilderNext /\ SameBeyond(4)
       \/ part = "program" /\ Validator!ValidatorNext /\ SameBeyond(6)
       \/ part = "declarations" /\ Decls!DeclNext /\ SameBeyond(5)

WorkNext == UNCHANGED part /\ (OwnNext \/ PoolNext)

WorkSpec == WorkInit /\ [][WorkNext]_<<part, ownVars, pool>>

\* Nothing tells the handlers, the workflows, the callers or the flows apart.
WorkSymmetry == Permutations(Handler) \cup Permutations(WorkflowID) \cup Permutations(User) \cup Permutations(Flow)

-----------------------------------------------------------------------------
(* Properties *)

\* What a query text, or a chain of builder calls, asks for is what the compiled query or
\* pipeline selects.
QueryMeansText ==
    /\ part = "query" => Query!QueryTypeOK /\ Query!QueryMeansText
    /\ part = "builder" => Builder!BuilderTypeOK /\ Builder!PipelineMeansCalls

\* A validator's errors are those of the program, or declarations, it was given.
ErrorsMatchProgram ==
    /\ part = "program" => Validator!ValidatorTypeOK /\ Validator!ErrorsMatchProgram
    /\ part = "declarations" => Decls!DeclTypeOK /\ Decls!AnswersMeanHistory
=============================================================================
