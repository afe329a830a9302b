------------------------ MODULE DeclarationValidator ------------------------
(***************************************************************************)
(* internal/validator: EndpointValidator and WorkflowValidator. Each keeps *)
(* the names that were registered, the declarations it has accepted and    *)
(* every error it has found since it was made; the ValidateXxx functions   *)
(* check a batch of declarations and answer with all errors there are.     *)
(***************************************************************************)
EXTENDS Integers, Sequences, FiniteSets, SequencesExt

CONSTANTS
    Registrations,      \* pairs <<registry, name>> that callers register
    EndpointBatches,    \* sequences of endpoints that callers validate
    WorkflowBatches,    \* sequences of workflows
    JobBatches,         \* sequences of jobs
    InvalidNames,       \* names that isValidIdentifier refuses
    InvalidTypes,       \* names that isValidTypeName refuses
    MaxValidatorCalls   \* bound: calls of one validator

VARIABLES
    registered,     \* middlewares, types, actions, activities, tasks
    accepted,       \* keys of the endpoints, workflows and jobs so far
    found,          \* found[v]: the errors of validator v
    answered,       \* answered[v]: "none", "nil" or "errors", the last answer
    given           \* what was validated: <<validator, declaration, registry>>

declVars == <<registered, accepted, found, answered, given>>

Registries == {"middleware", "type", "action", "activity", "task"}
Validators == {"endpoint", "workflow"}
Kinds == {"endpoint", "workflow", "job"}
\* ValidateWorkflows and ValidateJobs are functions of the same validator.
ValidatorOf(kind) == IF kind = "endpoint" THEN "endpoint" ELSE "workflow"

DeclInit ==
    /\ registered = [r \in Registries |-> {}] /\ accepted = [k \in Kinds |-> {}]
    /\ found = [v \in Validators |-> {}] /\ answered = [v \in Validators |-> "none"] /\ given = <<>>

DeclTypeOK ==
    /\ registered \in [Registries -> SUBSET {r[2] : r \in Registrations}]
    /\ answered \in [Validators -> {"none", "nil", "errors"}]
    /\ \A i \in DOMAIN given : given[i].kind \in Kinds

Found(cond, what) == IF cond THEN {what} ELSE {}
InvalidIn(names) == Found(ToSet(names) \cap InvalidNames # {}, "invalid name")
Repeats(names) == Cardinality(ToSet(names)) < Len(names)

\* A name is looked up only if its registry holds any name at all.
Unknown(known, names) == known # {} /\ ~(names \subseteq known)

(***************************************************************************)
(* Endpoints                                                               *)
(***************************************************************************)

PathErrors(e) ==
    Found(~e.rooted, "must start with /") \cup Found(Repeats(e.params), "duplicate path parameter")
        \cup Found(e.doubled, "double slashes")

MiddlewareUseErrors(e, known) ==
    Found(Repeats(e.middlewares), "duplicate middleware") \cup InvalidIn(e.middlewares)
        \cup Found(Unknown(known.middleware, ToSet(e.middlewares)), "unknown middleware")

\* annotations: names with whether the value is one that the name allows;
\* only @tag may be repeated.
AnnotationErrors(e) ==
    LET names == [i \in DOMAIN e.annotations |-> e.annotations[i].name] IN
    Found(Repeats(SelectSeq(names, LAMBDA n : n # "tag")), "duplicate annotation") \cup InvalidIn(names)
        \cup Found(\E i \in DOMAIN e.annotations : ~e.annotations[i].ok, "invalid annotation value")

TypeUseErrors(name, known) ==
    Found(name \in InvalidTypes, "invalid type name") \cup Found(Unknown(known.type, {name}), "unknown type")

\* A step without an action is not looked at any further.
LogicErrors(e, known) ==
    UNION {LET s == e.logic[i] IN
           IF s.action = "" THEN {"empty action"}
           ELSE InvalidIn(<<s.action>> \o s.names) \cup Found(Unknown(known.action, {s.action}), "unknown action") :
           i \in DOMAIN e.logic}

\* A handler may have a request and a response: sequences of at most one.
HandlerTypeErrors(e, known) ==
    UNION {TypeUseErrors(e.request[i].type, known)
             \cup Found(e.request[i].source = "bogus", "invalid request source")
             \cup Found(e.method \in {"GET", "DELETE"} /\ e.request[i].source = "body", "request from body") : i \in DOMAIN e.request}
      \cup UNION {TypeUseErrors(e.response[i].type, known)
             \cup Found(e.response[i].status \notin 100..599, "invalid HTTP status code")
             \cup Found(e.method = "DELETE" /\ e.response[i].status = 201, "DELETE returns 201") : i \in DOMAIN e.response}

EndpointErrors(e, known) ==
    Found(e.method \notin {"GET", "POST", "PUT", "DELETE", "PATCH"}, "invalid HTTP method")
        \cup PathErrors(e) \cup MiddlewareUseErrors(e, known) \cup AnnotationErrors(e)
        \cup HandlerTypeErrors(e, known) \cup LogicErrors(e, known)

(***************************************************************************)
(* Workflows and jobs                                                      *)
(***************************************************************************)

\* triggers and schedules are "ok", "" or "bad"; a job may have no schedule.
TriggerErrors(t) ==
    IF t.type = "manual" THEN {}
    ELSE Found(t.value = "", "trigger requires a value") \cup Found(t.value = "bad", "invalid trigger value")
RetryPolicyErrors(r) == Found(r.attempts < 0 \/ ~r.interval \/ r.backoff < 0, "invalid retry policy")

\* validateWorkflowStep, with the step names met so far: it answers the
\* names after it. The steps of a parallel block are checked in its place.
RECURSIVE StepsErrors(_, _, _)
StepsErrors(steps, names, known) ==
    IF steps = <<>> THEN [names |-> names, errs |-> {}]
    ELSE LET s == Head(steps)
             here == IF s.parallel THEN StepsErrors(s.steps, names, known)
                     ELSE [names |-> names \cup ({s.name} \ {""}),
                           errs |-> Found(s.name # "" /\ s.name \in names, "duplicate step name")
                                      \cup InvalidIn(<<s.name>> \o s.input)
                                      \cup Found(s.activity = "", "must specify an activity")
                                      \cup Found(s.activity # "" /\ Unknown(known.activity, {s.activity}), "unknown activity")]
             rest == StepsErrors(Tail(steps), here.names, known)
         IN [names |-> rest.names, errs |-> here.errs \cup rest.errs]

WorkflowErrors(w, known) ==
    InvalidIn(<<w.name>>) \cup TriggerErrors(w.trigger) \cup Found(~w.timeout, "invalid timeout")
        \cup Found(w.steps = <<>>, "must have at least one step")
        \cup StepsErrors(w.steps, {}, known).errs \cup RetryPolicyErrors(w.retry)

JobErrors(j, known) ==
    InvalidIn(<<j.name, j.queue>>) \cup Found(j.schedule = "bad", "invalid cron expression")
        \cup Found(j.task = "", "must specify a task") \cup Found(j.task # "" /\ Unknown(known.task, {j.task}), "unknown task type")
        \cup RetryPolicyErrors(j.retry)

(***************************************************************************)
(* The validators                                                          *)
(***************************************************************************)

Key(kind, d) == IF kind = "endpoint" THEN <<d.method, d.path>> ELSE <<kind, d.name>>
OwnErrors(kind, d, known) ==
    CASE kind = "endpoint" -> EndpointErrors(d, known)
      [] kind = "workflow" -> WorkflowErrors(d, known)
      [] kind = "job" -> JobErrors(d, known)

\* One declaration: what is accepted and found after it. A duplicate is
\* reported and not looked at any further.
\* Wrong on purpose: the second declaration takes the place of the first.
CheckReplaced(kind, d, st) == [keys |-> st.keys \cup {Key(kind, d)}, errs |-> st.errs \cup OwnErrors(kind, d, registered)]
CheckOne(kind, d, st) ==
    IF Key(kind, d) \in st.keys THEN [st EXCEPT !.errs = @ \cup {"duplicate"}]
    ELSE [keys |-> st.keys \cup {Key(kind, d)}, errs |-> st.errs \cup OwnErrors(kind, d, registered)]

RECURSIVE CheckAll(_, _, _)
CheckAll(kind, decls, st) == IF decls = <<>> THEN st ELSE CheckAll(kind, Tail(decls), CheckOne(kind, Head(decls), st))

Register(r, name) ==
    /\ Len(given) < MaxValidatorCalls /\ name \notin registered[r]
    /\ registered' = [registered EXCEPT ![r] = @ \cup {name}]
    /\ UNCHANGED <<accepted, found, answered, given>>

\* ValidateEndpoints, ValidateWorkflows, ValidateJobs
ValidateBatch(kind, decls) ==
    LET v == ValidatorOf(kind)
        st == CheckAll(kind, decls, [keys |-> accepted[kind], errs |-> found[v]])
    IN /\ Len(given) + Len(decls) <= MaxValidatorCalls
       /\ accepted' = [accepted EXCEPT ![kind] = st.keys] /\ found' = [found EXCEPT ![v] = st.errs]
       /\ answered' = [answered EXCEPT ![v] = IF st.errs = {} THEN "nil" ELSE "errors"]
       /\ given' = given \o [i \in DOMAIN decls |-> [kind |-> kind, decl |-> decls[i], known |-> registered]]
       /\ UNCHANGED registered

DeclNext ==
    \/ \E r \in Registrations : Register(r[1], r[2])
    \/ \E b \in EndpointBatches : ValidateBatch("endpoint", b)
    \/ \E b \in WorkflowBatches : ValidateBatch("workflow", b)
    \/ \E b \in JobBatches : ValidateBatch("job", b)

(***************************************************************************)
(* What the answers mean                                                   *)
(***************************************************************************)

\* All steps of a workflow, those of its parallel blocks included
RECURSIVE AllSteps(_)
AllSteps(steps) ==
    IF steps = <<>> THEN <<>>
    ELSE (IF Head(steps).parallel THEN AllSteps(Head(steps).steps) ELSE <<Head(steps)>>) \o AllSteps(Tail(steps))

\* The names that a declaration refers to in a registry
Refers(g, r) ==
    LET d == g.decl IN
    CASE g.kind = "endpoint" /\ r = "middleware" -> ToSet(d.middlewares)
      [] g.kind = "endpoint" /\ r = "type" -> {d.request[i].type : i \in DOMAIN d.request} \cup {d.response[i].type : i \in DOMAIN d.response}
      [] g.kind = "endpoint" /\ r = "action" -> {d.logic[i].action : i \in DOMAIN d.logic}
      [] g.kind = "workflow" /\ r = "activity" -> {AllSteps(d.steps)[i].activity : i \in DOMAIN AllSteps(d.steps)}
      [] g.kind = "job" /\ r = "task" -> {d.task}
      [] OTHER -> {}

Distinct(steps) == \A i, j \in DOMAIN steps : i # j => steps[i].name # steps[j].name \/ steps[i].name = ""

\* What a validator answers nil for is one consistent system, over all the
\* batches it was given: no two endpoints with one method and path, no two
\* workflows or jobs with one name, no two steps of a workflow with one
\* name, wherever they are nested, and all names that it refers to
\* registered by then, in each registry that was in use. A batch without
\* faults is refused after a batch with one: the errors are never reset.
NilMeansConsistent ==
    \A v \in Validators : LET own == {i \in DOMAIN given : ValidatorOf(given[i].kind) = v} IN
        answered[v] = "nil" =>
            /\ \A i, j \in own : given[i].kind = given[j].kind /\ i # j
                 => Key(given[i].kind, given[i].decl) # Key(given[j].kind, given[j].decl)
            /\ \A i \in own : \A r \in Registries :
                 given[i].known[r] # {} => Refers(given[i], r) \subseteq given[i].known[r]
            /\ \A i \in own : given[i].kind = "workflow" => Distinct(AllSteps(given[i].decl.steps))
ErrorsStay ==
    \A v \in Validators : answered[v] = "errors" <=> \E i \in DOMAIN given :
        /\ ValidatorOf(given[i].kind) = v
        /\ \/ OwnErrors(given[i].kind, given[i].decl, given[i].known) # {}
           \/ \E j \in 1..i - 1 : given[j].kind = given[i].kind /\ Key(given[j].kind, given[j].decl) = Key(given[i].kind, given[i].decl)

\* The answers of the declaration validators are those of the whole history
\* of calls.
AnswersMeanHistory == NilMeansConsistent /\ ErrorsStay
=============================================================================
