----------------------------- MODULE MCServices -----------------------------
(***************************************************************************)
(* The safety of the services: graceful shutdown, caches, access control,  *)
(* health, outgoing calls, mail and generated endpoints, each a part of    *)
(* its own: a behaviour is one of one part, and the others stay where they *)
(* begin.                                                                  *)
(***************************************************************************)
EXTENDS GracefulShutdown, MemoryCache, SharedCache, AccessControl,
        HealthChecks, OutgoingCall, EmailNotifications, GeneratedEndpoint

VARIABLE part    \* the part that runs

MCPriorityOf == [http |-> 90, drainer |-> 90, database |-> 70]

\* An editor inherits from a viewer; an admin may be saved, and inherit from both.
MCRole(perms, parents) == [perms |-> perms, parents |-> parents]
MCDefaultRoles == [viewer |-> MCRole({"read"}, <<>>), editor |-> MCRole({"write"}, <<"viewer">>), admin |-> Absent]
MCRoleDef == {MCRole({"read"}, <<>>), MCRole({"write"}, <<"viewer">>), MCRole({}, <<"editor", "viewer">>)}
MCUserRoles == {<<"editor", "viewer">>}
\* In the policy a role has at most two parents, which need not differ or exist.
MCParentLists == {<<>>} \cup {<<p>> : p \in Role} \cup {<<p, q>> : p, q \in Role}

\* Two checkers share a name; one checks with a warning only.
MCNameOf == [database |-> "database", replica |-> "database", memory |-> "memory", queue |-> "queue"]
MCSeverityOf == [database |-> "critical", replica |-> "warning", memory |-> "warning", queue |-> "critical"]
MCKindOf == [database |-> "database", replica |-> "database", memory |-> "memory", queue |-> "custom"]

MCHealthChecker == DOMAIN MCNameOf

MCMailEvents == {[type |-> "workflow.failed", id |-> "w", to |-> {"a"}], [type |-> "job.completed", id |-> "", to |-> {"a"}]}
MCMailRequests == {[valid |-> TRUE, template |-> "welcome", to |-> {"a", "b"}], [valid |-> TRUE, template |-> "other", to |-> {"a"}], [valid |-> FALSE, template |-> "welcome", to |-> {}]}
MCMailFilters == {[status |-> "sent", to |-> "", limit |-> 1, offset |-> 0], [status |-> "", to |-> "b", limit |-> 0, offset |-> 1]}

\* Programs: an authenticated endpoint with all kinds of effects; one with middlewares that
\* cannot be built and values that are transformed; one without a database; ones whose steps
\* fail late; and two that do not generate or have no declarations.
Step(action, arg, name, target) == [action |-> action, arg |-> arg, name |-> name, target |-> target]
Do(action) == Step(action, "", "", FALSE)
Decl(kind, name) == [kind |-> kind, name |-> name, bad |-> FALSE, type |-> "", provider |-> "", required |-> FALSE,
                     jwks |-> FALSE, mismatch |-> FALSE, emits |-> "nothing"]
Middleware(name, type, by, required) ==
    [Decl("middleware", name) EXCEPT !.type = type, !.provider = by, !.required = required]
On(name, emits) == [Decl("handler", name) EXCEPT !.emits = emits]
Mistyped(name) == [Decl("event", name) EXCEPT !.mismatch = TRUE]
Base == <<[Decl("auth", "jwt") EXCEPT !.jwks = TRUE],
          Middleware("auth", "authentication", "jwt", TRUE), Middleware("opt", "authentication", "jwt", FALSE),
          Middleware("lost", "authentication", "nobody", TRUE), Middleware("cors", "cors", "", FALSE),
          Middleware("acl", "authorization", "", TRUE),
          Decl("integration", "crm"), Decl("event", "made"), Mistyped("typed"),
          On("made", "seen"), On("made", "nothing"), On("seen", "nothing")>>
Endpoint(decls, refs, request, params, logic, code, db) ==
    [decls |-> decls, refs |-> refs, method |-> "POST", request |-> request, params |-> params, logic |-> logic,
     code |-> code, db |-> db]
MCPrograms == {
    Endpoint(Base, <<"auth", "cors">>, "body", FALSE,
            <<Do("validate"), Do("insert"), Step("emit", "", "made", FALSE), Step("call", "v", "crm", FALSE)>>, 201, TRUE),
    Endpoint(Base, <<"opt", "lost", "acl", "gone">>, "body", TRUE,
            <<Step("insert", "", "", TRUE), Step("transform", "v", "toJSON", TRUE),
              Step("transform", "v", "fromJSON", FALSE), Step("emit", "", "typed", FALSE)>>, 200, TRUE),
    Endpoint(Base, <<>>, "none", FALSE, <<Do("insert"), Step("validate", "v", "", FALSE), Do("insert")>>, 200, FALSE),
    Endpoint(Base, <<>>, "none", FALSE,
            <<Step("update", "", "", TRUE), Step("find", "", "", TRUE), Step("cache.get", "", "", TRUE),
              Step("cache.set", "v", "", FALSE), Step("insert", "v", "", FALSE)>>, 200, TRUE),
    Endpoint(Base, <<>>, "query", FALSE,
            <<Do("find"), Step("emit", "", "made", FALSE), Do("authorize"), Step("authorize", "role", "", FALSE),
              Do("insert")>>, 200, TRUE),
    Endpoint(Base, <<>>, "path", TRUE, <<Step("emit", "", "gone", FALSE), Do("insert")>>, 200, TRUE),
    Endpoint(Base, <<>>, "path", TRUE,
            <<Step("delete", "", "", TRUE), Do("insert"), Do("findOne"), Step("emit", "", "made", FALSE)>>, 200, TRUE),
    Endpoint(Base, <<>>, "query", TRUE, <<Step("call", "", "crm", FALSE), Step("call", "", "crm", FALSE), Step("call", "", "erp", FALSE)>>, 200, FALSE),
    Endpoint(<<Decl("event", "made"), Mistyped("made")>>, <<>>, "none", FALSE, <<>>, 200, FALSE),
    Endpoint(<<>>, <<>>, "none", FALSE, <<Step("call", "", "crm", FALSE)>>, 200, FALSE)}

ASSUME ServicesAssumption ==
    /\ MemoryAssumption /\ SharedAssumption /\ AccessAssumption /\ CallAssumption /\ MailAssumption /\ HealthAssumption
    /\ EndpointAssumption

\* Checks do not differ but in name, nor do callers of Shutdown.
ServicesSymmetry == Permutations(Checker) \cup Permutations(Caller)

allVars == <<gracefulVars, memoryVars, sharedVars, rbacVars, policyVars, healthVars, outgoingVars, mailVars, endpointVars>>

ServicesInit ==
    /\ GracefulInit /\ MemoryInit /\ SharedInit /\ RbacInit /\ PolicyInit /\ HealthInit /\ CallInit /\ MailInit
    /\ EndpointInit
    /\ part \in {"shutdown", "cache", "shared", "rbac", "policy", "health", "call", "mail", "endpoint"}

ServicesNext ==
    /\ UNCHANGED part
    /\ \/ part = "shutdown" /\ GracefulNext
         /\ UNCHANGED <<memoryVars, sharedVars, rbacVars, policyVars, healthVars, outgoingVars, mailVars, endpointVars>>
       \/ part = "cache" /\ MemoryNext
         /\ UNCHANGED <<gracefulVars, sharedVars, rbacVars, policyVars, healthVars, outgoingVars, mailVars, endpointVars>>
       \/ part = "shared" /\ SharedNext
         /\ UNCHANGED <<gracefulVars, memoryVars, rbacVars, policyVars, healthVars, outgoingVars, mailVars, endpointVars>>
       \/ part = "rbac" /\ RbacNext
         /\ UNCHANGED <<gracefulVars, memoryVars, sharedVars, policyVars, healthVars, outgoingVars, mailVars, endpointVars>>
       \/ part = "policy" /\ PolicyNext
         /\ UNCHANGED <<gracefulVars, memoryVars, sharedVars, rbacVars, healthVars, outgoingVars, mailVars, endpointVars>>
       \/ part = "health" /\ HealthNext
         /\ UNCHANGED <<gracefulVars, memoryVars, sharedVars, rbacVars, policyVars, outgoingVars, mailVars, endpointVars>>
       \/ part = "call" /\ CallNext
         /\ UNCHANGED <<gracefulVars, memoryVars, sharedVars, rbacVars, policyVars, healthVars, mailVars, endpointVars>>
       \/ part = "mail" /\ MailNext
         /\ UNCHANGED <<gracefulVars, memoryVars, sharedVars, rbacVars, policyVars, healthVars, outgoingVars, endpointVars>>
       \/ part = "endpoint" /\ EndpointNext
         /\ UNCHANGED <<gracefulVars, memoryVars, sharedVars, rbacVars, policyVars, healthVars, outgoingVars, mailVars>>

ServicesSpec == ServicesInit /\ [][ServicesNext]_<<part, allVars>>
=============================================================================
