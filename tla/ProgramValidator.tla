-------------------------- MODULE ProgramValidator --------------------------
(***************************************************************************)
(* internal/validator: Validator walks a program in order, with a stack of *)
(* scopes and the declarations it has met so far, and collects errors. A   *)
(* program is a sequence of statements; "if", "else", "for" and "func"     *)
(* open a block and "end" closes it. Statements come one by one, chosen    *)
(* from one of the sets in Statements.                                     *)
(***************************************************************************)
EXTENDS Integers, Sequences, FiniteSets, SequencesExt, TLC

CONSTANTS
    Statements,         \* sets of statements; a program is made of one set
    MaxStatements,      \* bound: statements of a program of code
    MaxDeclarations,    \* bound: statements of a program of declarations
    MaxNesting          \* maxNestingDepth of embedded documents (10)

VARIABLES
    program,        \* the statements walked so far
    scopes,         \* the symbol table: scopes from global to current
    blocks,         \* kinds of the blocks that are open; "skipped" is the
                    \* body of a function that was declared before
    declared,       \* configs, databases, providers, roles, middlewares, ...
    vErrors,        \* errors so far: <<statement, what>>
    validated       \* whether Validate has returned

validatorVars == <<program, scopes, blocks, declared, vErrors, validated>>

Symbol(kind, type, params) == [kind |-> kind, type |-> type, params |-> params]
\* registerBuiltins
Builtins == [n \in {"print", "len"} |-> Symbol("function", "unknown", 1)]
NoSymbols == [n \in {} |-> Symbol("variable", "unknown", 0)]

NoneDeclared == [config |-> "none", databases |-> {}, providers |-> {}, roles |-> {}, middlewares |-> {},
                 events |-> {}, handlers |-> {}, integrations |-> {}, webhooks |-> {}]

ValidatorInit ==
    /\ program = <<>> /\ scopes = <<Builtins>> /\ blocks = <<>> /\ declared = NoneDeclared
    /\ vErrors = {} /\ validated = FALSE

ValidatorTypeOK ==
    /\ Len(program) <= MaxStatements /\ Len(scopes) >= 1 /\ validated \in BOOLEAN
    /\ \A i \in DOMAIN blocks : blocks[i] \in {"if", "else", "for", "func", "skipped"}
    /\ \A e \in vErrors : e[1] \in 0..Len(program)

(***************************************************************************)
(* Symbol table and type checker                                           *)
(***************************************************************************)

\* Lookup: the scopes that know n, innermost last; LookupLocal
Knowing(st, n) == {i \in DOMAIN st : n \in DOMAIN st[i]}
Known(st, n) == Knowing(st, n) # {}
Lookup(st, n) == st[Max(Knowing(st, n))][n]
LookupLocal(st, n) == n \in DOMAIN st[Len(st)]

Declare(st, n, sym) == [st EXCEPT ![Len(st)] = (n :> sym) @@ @]
UpdateType(st, n, type) == [st EXCEPT ![Max(Knowing(st, n))][n].type = type]
EnterScope(st) == Append(st, NoSymbols)
\* Wrong on purpose: the scope of a block outlives it.
StayInScope(st) == st
ExitScope(st) == IF Len(st) > 1 THEN Front(st) ELSE st

RECURSIVE InferType(_, _)
InferType(st, e) ==
    CASE e.k \in {"string", "number", "bool", "array"} -> e.k
      [] e.k = "ident" -> IF Known(st, e.n) THEN Lookup(st, e.n).type ELSE "unknown"
      [] e.k = "call" -> "unknown"
      [] e.k = "binary" -> IF e.op \in {"==", "and"} THEN "bool"
                           ELSE IF e.op = "+" /\ "string" \in {InferType(st, e.args[1]), InferType(st, e.args[2])} THEN "string"
                           ELSE "number"
      [] e.k = "not" -> "bool"

\* validateExpression with validateIdentifier and validateFunctionCall
RECURSIVE ExpressionErrors(_, _)
ExpressionErrors(st, e) ==
    LET inner == UNION {ExpressionErrors(st, e.args[i]) : i \in DOMAIN e.args} IN
    CASE e.k = "ident" -> IF Known(st, e.n) THEN {} ELSE {"undefined variable"}
      [] e.k = "call" ->
           inner \cup (IF ~Known(st, e.n) THEN {"undefined function"}
                       ELSE IF Lookup(st, e.n).kind # "function" THEN {"not a function"}
                       ELSE IF Len(e.args) # Lookup(st, e.n).params THEN {"wrong argument count"} ELSE {})
      [] OTHER -> inner

(***************************************************************************)
(* Statements of functions. A validate function answers the scopes, the    *)
(* blocks and the errors that it leaves.                                   *)
(***************************************************************************)

After(st, bl, errs) == [scopes |-> st, blocks |-> bl, errs |-> errs]

ValidateVarDecl(s) ==
    LET errs == ExpressionErrors(scopes, s.e) IN
    IF LookupLocal(scopes, s.n) THEN After(scopes, blocks, errs \cup {"duplicate declaration"})
    ELSE After(Declare(scopes, s.n, Symbol("variable", InferType(scopes, s.e), 0)), blocks, errs)

ValidateAssignment(s) ==
    LET errs == ExpressionErrors(scopes, s.e)
        type == InferType(scopes, s.e)
    IN IF ~Known(scopes, s.n) THEN After(scopes, blocks, errs \cup {"undefined variable"})
       ELSE IF Lookup(scopes, s.n).kind = "function" THEN After(scopes, blocks, errs \cup {"assign to function"})
       ELSE After(IF type = "unknown" THEN scopes ELSE UpdateType(scopes, s.n, type), blocks, errs)

\* validateIfStmt opens a scope for each branch.
ValidateIfStmt(s) == After(EnterScope(scopes), Append(blocks, "if"), ExpressionErrors(scopes, s.e))
ValidateElse == After(EnterScope(ExitScope(scopes)), Append(Front(blocks), "else"), {})

ValidateForLoop(s) ==
    LET type == InferType(scopes, s.e) IN
    After(Declare(EnterScope(scopes), s.n, Symbol("variable", "unknown", 0)), Append(blocks, "for"),
          ExpressionErrors(scopes, s.e) \cup IF type \in {"unknown", "array"} THEN {} ELSE {"cannot iterate"})

\* validateFunctionDecl: the body of a duplicate is not looked at.
ValidateFunctionDecl(s) ==
    LET inside == EnterScope(Declare(scopes, s.n, Symbol("function", "function", Len(s.params)))) IN
    IF LookupLocal(scopes, s.n) THEN After(scopes, Append(blocks, "skipped"), {"duplicate declaration"})
    ELSE After([inside EXCEPT ![Len(inside)] = [p \in ToSet(s.params) |-> Symbol("parameter", "unknown", 0)]],
               Append(blocks, "func"),
               IF Cardinality(ToSet(s.params)) < Len(s.params) THEN {"duplicate parameter"} ELSE {})

ValidateEnd == After(ExitScope(scopes), Front(blocks), {})
ValidateReturnStmt(s) == After(scopes, blocks, ExpressionErrors(scopes, s.e))

ValidateStatement(s) ==
    CASE s.k = "var" -> ValidateVarDecl(s)
      [] s.k = "assign" -> ValidateAssignment(s)
      [] s.k = "if" -> ValidateIfStmt(s)
      [] s.k = "else" -> ValidateElse
      [] s.k = "for" -> ValidateForLoop(s)
      [] s.k = "func" -> ValidateFunctionDecl(s)
      [] s.k = "return" -> ValidateReturnStmt(s)
      [] s.k = "end" -> ValidateEnd

(***************************************************************************)
(* Declarations                                                            *)
(***************************************************************************)

Errors(cond, what) == IF cond THEN {what} ELSE {}
Twice(s) == Cardinality(ToSet(s)) < Len(s)

\* validateModifiers and validateMongoModifiers: a modifier is its name with
\* the expression it is given; of kind "none" when it has none.
InvalidMongoModifiers == {"foreign_key", "references", "on_delete", "on_update", "cascade"}
ModifierErrors(mods, mongo) ==
    LET names == [i \in DOMAIN mods |-> mods[i].name] IN
    UNION {ExpressionErrors(scopes, mods[i].value) : i \in DOMAIN mods}
        \cup Errors(Twice(names), "duplicate modifier")
        \cup Errors({"required", "optional"} \subseteq ToSet(names), "required and optional")
        \cup Errors(mongo /\ ToSet(names) \cap InvalidMongoModifiers # {}, "modifier not valid for MongoDB")

\* validateFieldType and validateMongoFieldType: a type has a name and the
\* types inside it, an embedded document fields with modifiers; a model's
\* "ref" names a model, which is not looked up. The fields of an embedded
\* document are not checked for names that repeat.
RECURSIVE TypeErrors(_, _, _)
TypeErrors(t, mongo, depth) ==
    IF mongo /\ depth > MaxNesting THEN {"nesting exceeds maximum depth"}
    ELSE IF mongo /\ t.name = "embedded"
    THEN UNION {TypeErrors(t.inside[i].type, mongo, depth + 1) \cup ModifierErrors(t.inside[i].mods, mongo) : i \in DOMAIN t.inside}
    ELSE Errors(t.name = "bogus", "unknown type")
           \cup IF mongo \/ t.name = "ref" THEN {} ELSE UNION {TypeErrors(t.inside[i], mongo, 0) : i \in DOMAIN t.inside}

\* validateModelDecl and validateCollectionDecl
ModelErrors(m, mongo) ==
    LET names == [i \in DOMAIN m.fields |-> m.fields[i].name] IN
    Errors(Twice(names), "duplicate field")
        \cup UNION {TypeErrors(m.fields[i].type, mongo, 0) : i \in DOMAIN m.fields}
        \cup UNION {ModifierErrors(m.fields[i].mods, mongo) : i \in DOMAIN m.fields}
        \cup Errors(~(ToSet(m.indexes) \subseteq ToSet(names)), "index references unknown field")

\* validateDatabaseBlock
DatabaseErrors(s) == UNION {ModelErrors(s.models[i], s.db = "mongodb") : i \in DOMAIN s.models}

\* validateConfigDecl
ConfigErrors(s) ==
    Errors(s.db \notin {"postgres", "mongodb"}, "invalid database_type")
        \cup Errors(s.db = "mongodb" /\ ~s.uri, "mongodb_uri is required")

\* validateAuthDecl with validateJWKSConfig: jwks is "none", "" or an address.
AuthErrors(s) == Errors(s.method = "bogus", "invalid auth method") \cup Errors(s.jwks = "", "jwks_url is required")

\* validateMiddlewareDecl: a middleware's config maps keys to expressions. A
\* name that it refers to must be declared before it, where the validator
\* looks it up: a provider only when it is an identifier, roles only when
\* they are strings of a list, a strategy only when it is an identifier.
MiddlewareTypes == {"authentication", "authorization", "rate_limiting", "logging", "cors", "compression", "cache", "custom"}
Strategies == {"fixed_window", "sliding_window", "token_bucket", "leaky_bucket"}
IsIdentifier(s, key) == key \in DOMAIN s.config /\ s.config[key].k = "ident"
StringsOf(s, key) ==
    IF key \in DOMAIN s.config /\ s.config[key].k = "array"
    THEN {e.n : e \in {e \in ToSet(s.config[key].args) : e.k = "string"}} ELSE {}
MiddlewareErrors(s) ==
    CASE s.type = "authentication" ->
           Errors("provider" \notin DOMAIN s.config, "requires provider")
             \cup Errors(IsIdentifier(s, "provider") /\ s.config["provider"].n \notin declared.providers, "unknown auth provider")
      [] s.type = "authorization" -> Errors(~(StringsOf(s, "roles") \subseteq declared.roles), "unknown role")
      [] s.type = "rate_limiting" ->
           Errors(~({"requests", "window"} \subseteq DOMAIN s.config), "requires requests and window")
             \cup Errors(IsIdentifier(s, "strategy") /\ s.config["strategy"].n \notin Strategies, "unknown rate limiting strategy")
      [] OTHER -> Errors(s.type \notin MiddlewareTypes, "unknown middleware type")

\* The check of an address, in validateIntegrationDecl and validateWebhookDecl
AddressErrors(s) == Errors(s.url = "", "address is required") \cup Errors(s.url = "ftp", "address should use http")

\* validateIntegrationAuth: auth is its type with the settings it has.
IntegrationAuthErrors(auth) ==
    CASE auth.type = "bearer" -> Errors("token" \notin auth.has, "bearer auth requires token")
      [] auth.type = "apikey" -> Errors(~({"header", "value"} \subseteq auth.has), "apikey auth requires header and value")
      [] auth.type \in {"none", "basic", "oauth2"} -> {}
      [] OTHER -> {"unknown auth type"}

\* validateCircuitBreaker: threshold, max_concurrent and timeout, 0 when not set
BreakerErrors(cb) == Errors(\E i \in DOMAIN cb : cb[i] <= 0, "circuit_breaker needs threshold, max_concurrent and timeout")

IntegrationErrors(s) ==
    Errors(s.type = "bogus", "unknown integration type") \cup AddressErrors(s)
        \cup IntegrationAuthErrors(s.auth) \cup BreakerErrors(s.cb)
WebhookErrors(s) ==
    AddressErrors(s) \cup Errors(s.event = "", "requires an event name")
        \cup Errors(s.attempts <= 0, "max_attempts must be positive")

\* validateEventSchema, and the name's format, which is checked first
EventErrors(s) == Errors(Twice(s.fields), "duplicate field") \cup Errors("bogus" \in ToSet(s.types), "unknown field type")
NameErrors(s) == Errors(s.k = "event" /\ s.n = "1", "event name should follow resource.action")

\* A declaration whose name was used by one of its kind is left out with an
\* error; otherwise it is added and its own errors are collected.
\* Wrong on purpose: a name declared before is no error.
Redeclared(names, n, errs) == errs
NamedErrors(names, n, errs) == IF n \in names THEN {"duplicate"} ELSE errs

PartOf(k) == CASE k = "auth" -> "providers" [] k = "role" -> "roles" [] k = "middleware" -> "middlewares"
               [] k = "event" -> "events" [] k = "on" -> "handlers"
               [] k = "integration" -> "integrations" [] k = "webhook" -> "webhooks"

\* validateEventHandler checks the action only.
HandlerErrors(s) == Errors(s.action = "bogus", "invalid action type")

DeclarationErrors(s) ==
    CASE s.k = "config" -> IF declared.config # "none" THEN {"duplicate config"} ELSE ConfigErrors(s)
      [] s.k = "database" -> DatabaseErrors(s)
      [] s.k = "auth" -> NamedErrors(declared.providers, s.n, AuthErrors(s))
      [] s.k = "role" -> NamedErrors(declared.roles, s.n, Errors("" \in s.perms, "empty permission"))
      [] s.k = "middleware" -> NamedErrors(declared.middlewares, s.n, MiddlewareErrors(s))
      [] s.k = "event" -> NameErrors(s) \cup NamedErrors(declared.events, s.n, EventErrors(s))
      [] s.k = "on" -> HandlerErrors(s)
      [] s.k = "integration" -> NamedErrors(declared.integrations, s.n, IntegrationErrors(s))
      [] s.k = "webhook" -> NamedErrors(declared.webhooks, s.n, WebhookErrors(s))

DeclaredAfter(s) ==
    CASE s.k = "config" -> [declared EXCEPT !.config = IF @ = "none" THEN s.db ELSE @]
      [] s.k = "database" -> [declared EXCEPT !.databases = @ \cup {s.db}]
      [] OTHER -> [declared EXCEPT ![PartOf(s.k)] = @ \cup {s.n}]

\* validateDatabaseTypeConsistency, after the last statement: the default is
\* postgres; a config for mongodb wants a mongodb block if there is any.
ConsistencyErrors ==
    LET type == IF declared.config = "none" THEN "postgres" ELSE declared.config IN
    Errors(\E d \in declared.databases : d # type, "database block does not match")
        \cup Errors(type = "mongodb" /\ declared.databases # {} /\ "mongodb" \notin declared.databases, "no mongodb block")

\* validateEventReferences looks the targets of all handlers up, and the
\* events of all webhooks, and reports none that it does not find.
ReferenceErrors == {}

(***************************************************************************)
(* The walk                                                                *)
(***************************************************************************)

Openers == {"if", "for", "func"}
CodeKinds == Openers \cup {"var", "assign", "else", "return", "end"}
Skipping == \E i \in DOMAIN blocks : blocks[i] = "skipped"
At(i, errs) == {<<i, e>> : e \in errs}

\* What the grammar allows: an else after the then part of an if, an end in
\* an open block, declarations outside all blocks.
Grammatical(s) ==
    /\ s.k = "else" => blocks # <<>> /\ Last(blocks) = "if"
    /\ s.k = "end" => blocks # <<>>
    /\ s.k \notin CodeKinds => blocks = <<>> /\ Len(program) < MaxDeclarations
    /\ Len(program) + Len(blocks) + (IF s.k \in Openers THEN 2 ELSE IF s.k = "end" THEN 0 ELSE 1) <= MaxStatements

ValidateNext(s) ==
    /\ ~validated /\ Grammatical(s)
    /\ program' = Append(program, s)
    /\ IF Skipping
       THEN /\ blocks' = IF s.k \in Openers THEN Append(blocks, s.k) ELSE IF s.k = "end" THEN Front(blocks)
                         ELSE IF s.k = "else" THEN Append(Front(blocks), "else") ELSE blocks
            /\ UNCHANGED <<scopes, declared, vErrors>>
       ELSE IF s.k \in CodeKinds
       THEN LET r == ValidateStatement(s) IN
            /\ scopes' = r.scopes /\ blocks' = r.blocks
            /\ vErrors' = vErrors \cup At(Len(program) + 1, r.errs)
            /\ UNCHANGED declared
       ELSE /\ declared' = DeclaredAfter(s)
            /\ vErrors' = vErrors \cup At(Len(program) + 1, DeclarationErrors(s))
            /\ UNCHANGED <<scopes, blocks>>
    /\ UNCHANGED validated

FinishValidate ==
    /\ ~validated /\ blocks = <<>>
    /\ validated' = TRUE /\ vErrors' = vErrors \cup At(0, ConsistencyErrors \cup ReferenceErrors)
    /\ UNCHANGED <<program, scopes, blocks, declared>>

ValidatorNext ==
    \/ \E S \in Statements : ToSet(program) \subseteq S /\ \E s \in S : ValidateNext(s)
    \/ FinishValidate

(***************************************************************************)
(* What the errors should be, read from the whole program                  *)
(***************************************************************************)

\* The end of the block that i opens, as far as the program goes
Level(i) == Cardinality({j \in 1..i : program[j].k \in Openers}) - Cardinality({j \in 1..i : program[j].k = "end"})
Closes(i) == LET ends == {j \in i + 1..Len(program) : program[j].k = "end" /\ Level(j) = Level(i) - 1} IN
             IF ends = {} THEN Len(program) + 1 ELSE Min(ends)
\* An else ends the scope that its if opened and starts another one.
ScopeEnds(i) == LET elses == {j \in i + 1..Closes(i) - 1 : program[j].k = "else" /\ Level(j) = Level(i)} IN
                IF program[i].k = "if" /\ elses # {} THEN Min(elses)
                ELSE IF program[i].k = "else"
                THEN Min({Len(program) + 1} \cup {j \in i + 1..Len(program) : program[j].k = "end" /\ Level(j) = Level(i) - 1})
                ELSE Closes(i)

\* The opener whose block holds statement i most closely; 0 for none
Home(i) == Max({0} \cup {j \in 1..i - 1 : program[j].k \in Openers \cup {"else"} /\ i < ScopeEnds(j)})

\* Statement j brings name n into the scope opened at h.
Brings(j, n, h) ==
    LET s == program[j] IN
    \/ (s.k \in {"var", "func"} /\ s.n = n /\ Home(j) = h)
    \/ j = h /\ ((s.k = "for" /\ s.n = n) \/ (s.k = "func" /\ n \in ToSet(s.params)))
BuiltIn(n) == n \in DOMAIN Builtins
AlreadyThere(i, n) == (Home(i) = 0 /\ BuiltIn(n)) \/ \E j \in 1..i - 1 : Brings(j, n, Home(i))

\* Statement i is in the body of a function that was declared before.
Unread(i) == \E j \in 1..i - 1 : program[j].k = "func" /\ i < Closes(j) /\ AlreadyThere(j, program[j].n)

\* Scopes around i, and whether a use of n at i finds a declaration
RECURSIVE Around(_)
Around(i) == {Home(i)} \cup IF Home(i) = 0 THEN {} ELSE Around(Home(i))
Sees(i, n) == BuiltIn(n) \/ \E j \in 1..i - 1 : \E h \in Around(i) : Brings(j, n, h)

RECURSIVE NamesIn(_)
NamesIn(e) == (IF e.k \in {"ident", "call"} THEN {e.n} ELSE {}) \cup UNION {NamesIn(e.args[j]) : j \in DOMAIN e.args}
Uses(s) == (IF s.k \in {"var", "assign", "if", "for", "return"} THEN NamesIn(s.e) ELSE {})
             \cup (IF s.k = "assign" THEN {s.n} ELSE {})

Reported(i, whats) == \E what \in whats : <<i, what>> \in vErrors

\* The validator flags a statement for an undefined name exactly when some
\* name in it has no declaration before it in a block around it, and flags
\* a declaration as duplicate exactly when its own block has the name
\* already: the stack of scopes follows the blocks of the program, through
\* branches, loops, functions and the bodies that are skipped.
ScopesFollowBlocks ==
    \A i \in 1..Len(program) : LET s == program[i] IN
        s.k \in CodeKinds =>
            /\ Reported(i, {"undefined variable", "undefined function"})
                 <=> ~Unread(i) /\ \E n \in Uses(s) : ~Sees(i, n)
            /\ Reported(i, {"duplicate declaration"})
                 <=> ~Unread(i) /\ s.k \in {"var", "func"} /\ AlreadyThere(i, s.n)

Before(i, k) == {j \in 1..i - 1 : program[j].k = k}
NamesBefore(i, k) == {program[j].n : j \in Before(i, k)}

\* A program that Validate accepts declares every name of a kind once. An
\* authentication has a provider; a provider that a middleware gives by its
\* identifier, and the roles that it lists as strings, are declared before
\* it. What a middleware gives in another form ("nobody", roles without a
\* list) is not looked up. The database blocks are all of the type that the
\* config has, and postgres without one.
AcceptedIsConsistent ==
    validated /\ vErrors = {} =>
        /\ \A i \in 1..Len(program) : LET s == program[i] IN
             /\ s.k \in {"auth", "role", "middleware", "event", "integration", "webhook"} => s.n \notin NamesBefore(i, s.k)
             /\ s.k = "middleware" /\ s.type = "authentication" =>
                  /\ "provider" \in DOMAIN s.config
                  /\ IsIdentifier(s, "provider") => s.config["provider"].n \in NamesBefore(i, "auth")
             /\ s.k = "middleware" /\ s.type = "authorization" => StringsOf(s, "roles") \subseteq NamesBefore(i, "role")
        /\ \A i, j \in 1..Len(program) :
             /\ program[i].k = "database" /\ program[j].k = "config" => program[i].db = program[j].db
             /\ program[i].k = "config" /\ program[j].k = "config" => i = j
        /\ (\A i \in 1..Len(program) : program[i].k # "config") =>
             \A i \in 1..Len(program) : program[i].k = "database" => program[i].db = "postgres"

\* The errors that Validate reports are those the program has.
ErrorsMatchProgram == ScopesFollowBlocks /\ AcceptedIsConsistent
=============================================================================
