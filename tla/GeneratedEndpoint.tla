------------------------- MODULE GeneratedEndpoint -------------------------
(***************************************************************************)
(* internal/codegen with the loaders it uses: GenerateFromAST turns a      *)
(* program into a router, and the generated handler runs the logic steps   *)
(* of its endpoint for every request. Requests run concurrently; they      *)
(* share the database, the event registry and the integration client with  *)
(* its circuit breaker (internal/integration). MongoDB, the called service *)
(* and the JWKS server are external and may fail; an insert or a call that *)
(* fails may have taken effect.                                            *)
(*                                                                         *)
(* A value is abstracted to the Go type that decides what the code does    *)
(* with it: "nil" (no interface value), "nilmap" (a map that is nil),      *)
(* "map", "list" or "text".                                                *)
(***************************************************************************)
EXTENDS Integers, Sequences, FiniteSets

CONSTANTS
    EndpointRequest,    \* the concurrent requests
    Programs,           \* the programs to generate from
    BreakerThreshold,   \* failureThreshold of the integration's circuit breaker
    MaxConcurrent       \* of the integration's circuit breaker; 0 for no limit

VARIABLES
    program,    \* the program generated from, or NoProgram
    reachable,  \* whether the JWKS server answered when the chain was built
    chain,      \* what the endpoint's references to middlewares became, if anything
    serving,    \* serving[r]: execution context and progress of request r
    breaker,    \* the circuit breaker of the program's integration
    effects     \* effects[r]: what request r did to the outside, in order

endpointVars == <<program, reachable, chain, serving, breaker, effects>>

\* A declaration has the fields of every kind; an "emit" handler names the event it emits.
Declaration == [kind : {"auth", "role", "middleware", "integration", "workflow", "event", "handler"}, name : STRING,
                bad : BOOLEAN, type : STRING, provider : STRING, required : BOOLEAN, jwks : BOOLEAN,
                mismatch : BOOLEAN, emits : STRING]
LogicStep == [action : {"validate", "authorize", "find", "findOne", "insert", "update", "delete", "transform", "emit",
                        "call", "cache.get", "cache.set", "paginate", "unknown"},
              arg : STRING, name : STRING, target : BOOLEAN]
\* The router takes the first five.
Methods == {"GET", "POST", "PUT", "DELETE", "PATCH", "HEAD", "OPTIONS"}
Program == [decls : Seq(Declaration), refs : Seq(STRING), method : Methods, request : {"none", "body", "query", "path", "header"},
            params : BOOLEAN, logic : Seq(LogicStep), code : Nat, db : BOOLEAN]

NoProgram == [decls |-> <<>>, refs |-> <<>>, method |-> "GET", request |-> "none", params |-> FALSE,
              logic |-> <<>>, code |-> 200, db |-> FALSE]

\* What the handler, the chain and the router answer of their own accord
ErrorCodes == {400, 401, 403, 404, 405, 500}

\* The status an endpoint declares for its response is none that stands for a failure. Every
\* integration has a circuit breaker of its own; programs with one are enough here.
EndpointAssumption ==
    /\ IsFiniteSet(EndpointRequest) /\ BreakerThreshold \in Int /\ MaxConcurrent \in Int
    /\ Programs \subseteq Program /\ NoProgram \notin Programs
    /\ \A p \in Programs : p.code \notin ErrorCodes /\ Cardinality({i \in DOMAIN p.decls : p.decls[i].kind = "integration"}) <= 1

Values == {"nil", "nilmap", "map", "list", "text"}
\* dispatches is the stack of Dispatch calls under way: the event, and the declaration to go on from.
Serving == [pc : {"idle", "handler", "emitting", "calling", "answered", "done"}, step : Nat,
            kind : {"nil", "nilmap", "map"}, v : BOOLEAN, data : Values \cup {"unset"}, result : Values,
            status : Nat, failed : BOOLEAN, token : {"none", "valid", "invalid"}, body : {"object", "withV", "null", "bad"},
            dispatches : Seq([event : STRING, next : Nat])]
Fresh == [pc |-> "idle", step |-> 0, kind |-> "nil", v |-> FALSE, data |-> "unset", result |-> "nil",
          status |-> 0, failed |-> FALSE, token |-> "none", body |-> "object", dispatches |-> <<>>]

EndpointInit ==
    /\ program = NoProgram /\ reachable = FALSE /\ chain = <<>> /\ effects = [r \in EndpointRequest |-> <<>>]
    /\ serving = [r \in EndpointRequest |-> Fresh]
    /\ breaker = [state |-> "closed", failures |-> 0, concurrent |-> 0]

EndpointTypeOK ==
    /\ program \in Programs \cup {NoProgram} /\ reachable \in BOOLEAN
    /\ DOMAIN chain \subseteq DOMAIN program.refs /\ \A i \in DOMAIN chain : chain[i] \in {"required", "optional", "pass"}
    /\ serving \in [EndpointRequest -> Serving]
    /\ \A r \in EndpointRequest : serving[r].step <= Len(program.logic) + 1
    /\ breaker \in [state : {"closed", "open", "half_open"}, failures : Nat, concurrent : Nat]
    /\ effects \in [EndpointRequest -> Seq([step : Nat, what : {"insert", "event", "call"}])]

(***************************************************************************)
(* Generation. The passes go over the declarations one kind after the      *)
(* other and the first error ends all.                                     *)
(***************************************************************************)

Declared(p, kind) == {i \in DOMAIN p.decls : p.decls[i].kind = kind}
Duplicate(p, kind) == \E i, j \in Declared(p, kind) : i # j /\ p.decls[i].name = p.decls[j].name
AnyBad(p, kind) == \E i \in Declared(p, kind) : p.decls[i].bad

\* auth, roles and middlewares: a name is declared once
LoadProgram(p) == \A kind \in {"auth", "role", "middleware"} : ~Duplicate(p, kind)
\* a later integration of the same name replaces the earlier one
LoadIntegrations(p) == ~AnyBad(p, "integration")
LoadWorkflows(p) == ~AnyBad(p, "workflow")
LoadEvents(p) == ~AnyBad(p, "event") /\ ~Duplicate(p, "event")
RegisterEndpoint(p) == p.method \in {"GET", "POST", "PUT", "DELETE", "PATCH"}
Generates(p) == LoadProgram(p) /\ LoadIntegrations(p) /\ LoadWorkflows(p) /\ LoadEvents(p) /\ RegisterEndpoint(p)

\* CreateMiddlewareChain: the provider is declared, has a JWKS block, and its
\* keys could be fetched.
CreateMiddlewareChain(p, up, m) ==
    up /\ \E i \in Declared(p, "auth") : p.decls[i].name = m.provider /\ p.decls[i].jwks
\* generateMiddlewareFunc, or "none" when it cannot be built. Rate limiting is
\* a placeholder, CORS and logging let every request of the endpoint's method
\* through.
GenerateMiddleware(p, up, m) ==
    IF m.type = "authentication"
    THEN IF ~CreateMiddlewareChain(p, up, m) THEN "none" ELSE IF m.required THEN "required" ELSE "optional"
    ELSE IF m.type \in {"rate_limiting", "cors", "logging"} THEN "pass" ELSE "none"
\* A reference to no declaration is skipped with a warning, as is a middleware that cannot be built.
Named(p, name) == {j \in Declared(p, "middleware") : p.decls[j].name = name}
GetMiddleware(p, name) == p.decls[CHOOSE j \in Named(p, name) : TRUE]
Usable(p, up) ==
    {i \in DOMAIN p.refs : Named(p, p.refs[i]) # {} /\ GenerateMiddleware(p, up, GetMiddleware(p, p.refs[i])) # "none"}
\* Wrong on purpose: only the innermost middleware is kept.
LastOfChain(p, up) ==
    [i \in Usable(p, up) \cap {Len(p.refs)} |-> GenerateMiddleware(p, up, GetMiddleware(p, p.refs[i]))]
BuildMiddlewareChain(p, up) == [i \in Usable(p, up) |-> GenerateMiddleware(p, up, GetMiddleware(p, p.refs[i]))]

GenerateFromAST(p, up) ==
    /\ program = NoProgram
    /\ IF Generates(p) THEN program' = p /\ reachable' = up /\ chain' = BuildMiddlewareChain(p, up)
       ELSE UNCHANGED <<program, reachable, chain>>
    /\ UNCHANGED <<serving, breaker, effects>>

(***************************************************************************)
(* A request enters: the router, the chain, extractRequestData             *)
(***************************************************************************)

Responded(q, status) == [q EXCEPT !.pc = "done", !.status = status]

\* Authenticate: required authentication turns a missing or bad token away.
Admitted(token) == \A i \in DOMAIN chain : chain[i] = "required" => token = "valid"

\* A body that is the JSON value null leaves a nil map; storing a path
\* parameter in it panics, which the Recoverer answers with 500.
ExtractRequestData(q) ==
    LET input == [q EXCEPT !.kind = "map", !.v = q.body = "withV" \/ program.params] IN
    IF program.request # "body" THEN input
    ELSE IF q.body = "bad" THEN Responded(q, 400)
    ELSE IF q.body = "null" THEN IF program.params THEN Responded(q, 500) ELSE [q EXCEPT !.kind = "nilmap"]
    ELSE input

ServeRequest(r, token, body, method) ==
    LET q == [Fresh EXCEPT !.token = token, !.body = body] IN
    /\ program # NoProgram /\ serving[r].pc = "idle"
    /\ serving' = [serving EXCEPT ![r] =
         IF method # program.method THEN Responded(q, 405)
         ELSE IF ~Admitted(token) THEN Responded(q, 401)
         ELSE LET e == [q EXCEPT !.pc = "handler", !.step = 1] IN
              IF program.request = "none" THEN e ELSE ExtractRequestData(e)]
    /\ UNCHANGED <<program, reachable, chain, breaker, effects>>

(***************************************************************************)
(* The execution context                                                   *)
(***************************************************************************)

\* Get: the data store first, then the fields of the input
GetValue(q) == IF q.data # "unset" THEN q.data ELSE IF q.kind = "map" /\ q.v THEN "text" ELSE "nil"
\* validate, insert and update read the input unless an argument names a value;
\* transform and emit read the result.
FromInput(q, arg) == IF arg = "v" THEN GetValue(q) ELSE q.kind
FromResult(q, arg) == IF arg = "v" THEN GetValue(q) ELSE q.result
\* a step with a target stores there, one without replaces the result
StoreResult(q, s, value) == IF s.target THEN [q EXCEPT !.data = value] ELSE [q EXCEPT !.result = value]
StoreTarget(q, s, value) == IF s.target THEN [q EXCEPT !.data = value] ELSE q

\* determineErrorStatusCode; the errors of database and integration are
\* wrapped, which hides their type
StatusOf(error) == IF error = "validation" THEN 400 ELSE IF error = "authorization" THEN 403
                   ELSE IF error = "not_found" THEN 404 ELSE 500

\* executeLogicSteps stops at the first error and returns it.
\* Wrong on purpose: a failed step is left out and the next one runs.
GoesOn(q, error) == [q EXCEPT !.step = @ + 1]
AfterStep(q, error) == IF error = "none" THEN [q EXCEPT !.step = @ + 1] ELSE Responded(q, StatusOf(error))

CurrentStep(r) == program.logic[serving[r].step]
AtStep(r, actions) ==
    /\ serving[r].pc = "handler" /\ serving[r].step <= Len(program.logic)
    /\ CurrentStep(r).action \in actions
Effect(r, what) == [effects EXCEPT ![r] = Append(@, [step |-> serving[r].step, what |-> what])]
Moves(r, q) == serving' = [serving EXCEPT ![r] = q]

(***************************************************************************)
(* The logic steps                                                         *)
(***************************************************************************)

\* A nil map is not nil to the check.
ExecuteValidate(r) ==
    /\ AtStep(r, {"validate"})
    /\ Moves(r, AfterStep(serving[r], IF FromInput(serving[r], CurrentStep(r).arg) = "nil" THEN "validation" ELSE "none"))
    /\ UNCHANGED <<program, reachable, chain, breaker, effects>>

\* Nothing sets the claims of a context: a step that asks for a role fails.
ExecuteAuthorize(r) ==
    /\ AtStep(r, {"authorize"})
    /\ Moves(r, AfterStep(serving[r], IF CurrentStep(r).arg = "role" THEN "authorization" ELSE "none"))
    /\ UNCHANGED <<program, reachable, chain, breaker, effects>>

ExecuteDBFind(r) ==
    /\ AtStep(r, {"find"})
    /\ \E fails \in {FALSE, program.db} :
         Moves(r, IF fails THEN AfterStep(serving[r], "other")
                  ELSE AfterStep(StoreResult(serving[r], CurrentStep(r), "list"), "none"))
    /\ UNCHANGED <<program, reachable, chain, breaker, effects>>

\* FindOne is not connected to a database and finds nothing.
ExecuteDBFindOne(r) ==
    /\ AtStep(r, {"findOne"})
    /\ Moves(r, AfterStep(serving[r], "not_found"))
    /\ UNCHANGED <<program, reachable, chain, breaker, effects>>

\* InsertDatabase: without a database a mock id; adding the timestamps to a
\* map that is nil panics; a list or a text is no document.
InsertDatabase(q, s) ==
    LET value == FromInput(q, s.arg) IN
    IF ~program.db THEN "mock"
    ELSE IF value \in {"nil", "nilmap"} THEN "panic" ELSE IF value = "map" THEN "insert" ELSE "other"
ExecuteDBInsert(r) ==
    LET q == serving[r]  outcome == InsertDatabase(q, CurrentStep(r))
        inserted == AfterStep(StoreResult(q, CurrentStep(r), "map"), "none")
    IN /\ AtStep(r, {"insert"})
       /\ \/ outcome = "mock" /\ Moves(r, inserted) /\ UNCHANGED effects
          \/ outcome \in {"panic", "other"} /\ Moves(r, AfterStep(q, outcome)) /\ UNCHANGED effects
          \/ outcome = "insert" /\ Moves(r, inserted) /\ effects' = Effect(r, "insert")
          \/ outcome = "insert" /\ Moves(r, AfterStep(q, "other")) /\ effects' \in {effects, Effect(r, "insert")}
       /\ UNCHANGED <<program, reachable, chain, breaker>>

\* UpdateDatabase and DeleteDatabase change nothing and report success, and
\* the cache answers nil.
ExecuteDisconnected(r) ==
    LET s == CurrentStep(r) IN
    /\ AtStep(r, {"update", "delete", "cache.get", "cache.set", "paginate", "unknown"})
    /\ Moves(r, AfterStep(IF s.action \in {"update", "delete"} THEN StoreTarget(serving[r], s, "map")
                          ELSE IF s.action = "cache.get" THEN StoreTarget(serving[r], s, "nil") ELSE serving[r], "none"))
    /\ UNCHANGED <<program, reachable, chain, breaker, effects>>

\* Transform: fromJSON reads what a text holds, which may be no JSON, null or
\* a text again; a transform it does not know leaves the value as it is.
Transformed(s, value) ==
    IF s.name = "toJSON" THEN {"text"}
    ELSE IF s.name = "fromJSON" /\ value = "text" THEN {"nil", "map", "list", "text", "error"} ELSE {value}
ExecuteTransform(r) ==
    /\ AtStep(r, {"transform"})
    /\ \E value \in Transformed(CurrentStep(r), FromResult(serving[r], CurrentStep(r).arg)) :
         Moves(r, IF value = "error" THEN AfterStep(serving[r], "other")
                  ELSE AfterStep(StoreResult(serving[r], CurrentStep(r), value), "none"))
    /\ UNCHANGED <<program, reachable, chain, breaker, effects>>

\* EmitEvent: the event must be registered, and a field of the payload have
\* the type of the schema. Dispatch calls the event's handlers in the order
\* they were declared, whatever they return; an "emit" handler dispatches its
\* target without these checks, the others are placeholders.
Registered(name) == \E i \in Declared(program, "event") : program.decls[i].name = name
SchemaRejects(name, payload) ==
    \E i \in Declared(program, "event") : program.decls[i].name = name /\ program.decls[i].mismatch /\ payload = "map"
HandlersFrom(frame) == {j \in Declared(program, "handler") : program.decls[j].name = frame.event /\ j >= frame.next}
Dispatch(name) == [event |-> name, next |-> 1]
ExecuteEmit(r) ==
    LET s == CurrentStep(r) IN
    /\ AtStep(r, {"emit"})
    /\ IF Registered(s.name) /\ ~SchemaRejects(s.name, FromResult(serving[r], s.arg))
       THEN /\ Moves(r, [serving[r] EXCEPT !.pc = "emitting", !.dispatches = <<Dispatch(s.name)>>])
            /\ effects' = Effect(r, "event")
       ELSE Moves(r, AfterStep(serving[r], "other")) /\ UNCHANGED effects
    /\ UNCHANGED <<program, reachable, chain, breaker>>

InnermostDispatch(r) == serving[r].dispatches[Len(serving[r].dispatches)]
OuterDispatches(r) == SubSeq(serving[r].dispatches, 1, Len(serving[r].dispatches) - 1)

\* The innermost Dispatch calls its next handler, which may dispatch in turn.
CallHandler(r) ==
    /\ serving[r].pc = "emitting"
    /\ \E j \in HandlersFrom(InnermostDispatch(r)) :
         LET resumed == Append(OuterDispatches(r), [InnermostDispatch(r) EXCEPT !.next = j + 1]) IN
         /\ \A i \in HandlersFrom(InnermostDispatch(r)) : j <= i
         /\ IF program.decls[j].emits = "nothing" THEN Moves(r, [serving[r] EXCEPT !.dispatches = resumed]) /\ UNCHANGED effects
            ELSE /\ Moves(r, [serving[r] EXCEPT !.dispatches = Append(resumed, Dispatch(program.decls[j].emits))])
                 /\ effects' = Effect(r, "event")
    /\ UNCHANGED <<program, reachable, chain, breaker>>

\* A Dispatch without a handler left returns to the handler, or the step, that called it.
EndDispatch(r) ==
    LET q == [serving[r] EXCEPT !.dispatches = OuterDispatches(r)] IN
    /\ serving[r].pc = "emitting" /\ HandlersFrom(InnermostDispatch(r)) = {}
    /\ Moves(r, IF OuterDispatches(r) # <<>> THEN q ELSE AfterStep([q EXCEPT !.pc = "handler"], "none"))
    /\ UNCHANGED <<program, reachable, chain, breaker, effects>>

(***************************************************************************)
(* The integration client and its circuit breaker. No time in the model:   *)
(* the timeout of an open breaker may or may not have passed.              *)
(***************************************************************************)

Allows(passed) ==
    \/ breaker.state = "open" /\ passed
    \/ breaker.state = "half_open" /\ breaker.concurrent < 1
    \/ breaker.state = "closed" /\ (MaxConcurrent <= 0 \/ breaker.concurrent < MaxConcurrent)
Integrations(p, name) == {i \in Declared(p, "integration") : p.decls[i].name = name}
AllowCall(r) ==
    /\ AtStep(r, {"call"})
    /\ \E passed \in BOOLEAN :
         IF Integrations(program, CurrentStep(r).name) # {} /\ Allows(passed)
         THEN /\ Moves(r, [serving[r] EXCEPT !.pc = "calling"]) /\ effects' = Effect(r, "call")
              /\ breaker' = [breaker EXCEPT !.concurrent = @ + 1, !.state = IF @ = "open" THEN "half_open" ELSE @]
         ELSE Moves(r, AfterStep(serving[r], "other")) /\ UNCHANGED <<breaker, effects>>
    /\ UNCHANGED <<program, reachable, chain>>

\* A success counts only in the half-open state: the failures of a closed
\* breaker add up however many calls succeed between them.
RecordCallSuccess == IF breaker.state = "half_open" THEN [breaker EXCEPT !.state = "closed", !.failures = 0] ELSE breaker
RecordCallFailure ==
    [breaker EXCEPT !.failures = IF @ < BreakerThreshold THEN @ + 1 ELSE @,
                    !.state = IF breaker.failures + 1 >= BreakerThreshold THEN "open" ELSE @]
\* An answer with a status of 500 and more is a failure to the breaker and a
\* result to the step. The result is recorded before Done gives the slot back.
AnswerCall(r) ==
    /\ serving[r].pc = "calling"
    /\ \E answer \in {"ok", "server_error", "failed"} :
         /\ breaker' = IF answer = "ok" THEN RecordCallSuccess ELSE RecordCallFailure
         /\ Moves(r, [serving[r] EXCEPT !.pc = "answered", !.failed = answer = "failed"])
    /\ UNCHANGED <<program, reachable, chain, effects>>

\* Done; then the body is read: it may be cut off, empty, JSON or raw text.
\* Wrong on purpose: only an answered call gives its slot back.
SlotsAfterAnswer(q) == IF q.failed THEN breaker.concurrent ELSE breaker.concurrent - 1
SlotsAfter(q) == IF breaker.concurrent > 0 THEN breaker.concurrent - 1 ELSE 0
FinishCall(r) ==
    LET q == [serving[r] EXCEPT !.pc = "handler", !.failed = FALSE] IN
    /\ serving[r].pc = "answered"
    /\ breaker' = [breaker EXCEPT !.concurrent = SlotsAfter(serving[r])]
    /\ \E value \in IF serving[r].failed THEN {"error"} ELSE {"error", "nil", "map", "list", "text"} :
         Moves(r, IF value = "error" THEN AfterStep(q, "other") ELSE AfterStep(StoreResult(q, CurrentStep(r), value), "none"))
    /\ UNCHANGED <<program, reachable, chain, effects>>

\* The response: the declared status code, 200 without one.
WriteResponse(r) ==
    /\ serving[r].pc = "handler" /\ serving[r].step > Len(program.logic)
    /\ Moves(r, Responded(serving[r], program.code))
    /\ UNCHANGED <<program, reachable, chain, breaker, effects>>

\* A token matters to a chain only, the syntax of a body to a body's reader.
PresentedTokens == IF DOMAIN chain = {} THEN {"none"} ELSE {"none", "valid", "invalid"}
Bodies == IF program.request = "body" THEN {"object", "withV", "null", "bad"} ELSE {"object", "withV"}

EndpointNext ==
    \/ \E p \in Programs, up \in BOOLEAN : GenerateFromAST(p, up)
    \/ \E r \in EndpointRequest, token \in PresentedTokens, body \in Bodies, method \in {program.method, "OPTIONS"} :
         ServeRequest(r, token, body, method)
    \/ \E r \in EndpointRequest :
         \/ ExecuteValidate(r) \/ ExecuteAuthorize(r) \/ ExecuteDBFind(r) \/ ExecuteDBFindOne(r) \/ ExecuteDBInsert(r)
         \/ ExecuteDisconnected(r) \/ ExecuteTransform(r) \/ ExecuteEmit(r) \/ CallHandler(r) \/ EndDispatch(r)
         \/ AllowCall(r) \/ AnswerCall(r) \/ FinishCall(r) \/ WriteResponse(r)

EndpointSpec == EndpointInit /\ [][EndpointNext]_endpointVars

(***************************************************************************)
(* Properties                                                              *)
(***************************************************************************)

StepsWithEffect(done) == {done[i].step : i \in DOMAIN done}
Effectful(p) == {i \in DOMAIN p.logic : p.logic[i].action \in {"emit", "call"} \/ (p.logic[i].action = "insert" /\ p.db)}
\* Steps that no request gets past
Hopeless(p) == {i \in DOMAIN p.logic : p.logic[i].action = "findOne" \/ (p.logic[i].action = "authorize" /\ p.logic[i].arg = "role")}
Succeeded(r) == serving[r].pc = "done" /\ serving[r].status = program.code

\* What a client is told is what happened, however the requests interleave:
\* executeLogicSteps runs the steps of one request in their order; a success
\* means that every insert, event and call of the endpoint was performed; a
\* refused request did nothing at all; and after a failed step nothing more
\* was done, although what was done before it stays done.
ResponsesTellEffects ==
    \A r \in EndpointRequest :
      /\ \A i, j \in DOMAIN effects[r] : i < j => effects[r][i].step <= effects[r][j].step
      /\ \A i \in StepsWithEffect(effects[r]) : i <= serving[r].step /\ \A j \in Hopeless(program) : i <= j
      /\ Succeeded(r) => StepsWithEffect(effects[r]) = Effectful(program)
      /\ serving[r].pc = "done" /\ serving[r].step = 0 => effects[r] = <<>>

\* A request without a valid token reaches the steps of an endpoint only if
\* the chain that registerEndpoint built has no required authentication; it
\* has one whenever a declared one could be built.
TokensAreChecked ==
    \A r \in EndpointRequest :
      serving[r].step > 0 /\ serving[r].token # "valid" =>
        \A i \in DOMAIN program.refs : \A j \in Named(program, program.refs[i]) :
          program.decls[j].type = "authentication" /\ program.decls[j].required =>
            ~CreateMiddlewareChain(program, reachable, program.decls[j])

\* The breaker of integration.Client counts the calls that are under way:
\* every path of Do that passed Allow gives its slot back once.
SlotsMatchCalls ==
    /\ breaker.concurrent = Cardinality({r \in EndpointRequest : serving[r].pc \in {"calling", "answered"}})
    /\ breaker.state # "closed" => breaker.failures >= BreakerThreshold

\* The generated endpoints keep the three promises above at once, whatever the program declares.
EndpointsKeepFaith == EndpointTypeOK /\ ResponsesTellEffects /\ TokensAreChecked /\ SlotsMatchCalls
=============================================================================
