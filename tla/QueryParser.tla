---------------------------- MODULE QueryParser ----------------------------
(***************************************************************************)
(* internal/query/tokens.go and parser.go: the lexer and the recursive     *)
(* descent parser of the query language. A text is a sequence of lexemes.  *)
(* Every parse function takes the tokens and a position and answers        *)
(* whether it succeeded, where it stopped and what it built, as the code's *)
(* methods do with p.pos and their results.                                *)
(***************************************************************************)
EXTENDS Integers, Sequences, TLC

CONSTANT MaxDepth       \* maxDepth of NewParser (10 in the code)

Keywords == {"select", "count", "sum", "avg", "min", "max", "update", "delete", "from", "where",
             "and", "or", "not", "in", "is", "null", "order", "by", "asc", "desc", "limit", "offset",
             "with", "include", "set", "true", "false", "like", "ilike", "between", "having", "group",
             "contains", "startswith", "endswith"}
Comparisons == {"=", "!=", ">", ">=", "<", "<="}
Symbols == Comparisons \cup {"(", ")", "[", "]", ",", ".", ":", "~"}
Digits == {"0", "1", "2"}
Quoted == "'x'" :> "x" @@ "'y'" :> "y" @@ "'xy'" :> "xy"
Parameters == "@p" :> "p"

\* readIdentifier: a keyword is a token type of its own.
ReadIdentifier(w) == [type |-> IF w \in Keywords THEN w ELSE "ident", value |-> w]

\* nextToken with readString, readNumber and readParam: the type and the
\* value of one lexeme.
NextToken(w) ==
    IF w \in Symbols THEN [type |-> w, value |-> w]
    ELSE IF w = "<>" THEN [type |-> "!=", value |-> w]
    ELSE IF w \in Digits THEN [type |-> "number", value |-> w]
    ELSE IF w \in DOMAIN Quoted THEN [type |-> "string", value |-> Quoted[w]]
    ELSE IF w \in DOMAIN Parameters THEN [type |-> "param", value |-> Parameters[w]]
    ELSE IF w = "!" THEN [type |-> "error", value |-> w]
    ELSE ReadIdentifier(w)

EOF == [type |-> "eof", value |-> ""]
Tokenize(text) == [i \in 1..Len(text) |-> NextToken(text[i])]
LexerError(toks) == \E i \in 1..Len(toks) : toks[i].type = "error"

\* p.current at position i, and peek
At(toks, i) == IF i <= Len(toks) THEN toks[i] ELSE EOF
Is(toks, i, types) == At(toks, i).type \in types

\* isIdentifierOrKeyword: keywords are also names of fields.
IsIdentifierOrKeyword(toks, i) == Is(toks, i, {"ident"} \cup Keywords)

Got(i, v) == [ok |-> TRUE, pos |-> i, v |-> v]
Unexpected == [ok |-> FALSE, pos |-> 0, v |-> <<>>]
\* An error ends the parse, a result is passed on.
Then(r, Rest(_)) == IF r.ok THEN Rest(r) ELSE Unexpected

(***************************************************************************)
(* Values and lists                                                        *)
(***************************************************************************)

One(v) == [k |-> "one", v |-> v]
List(vs) == [k |-> "list", v |-> vs]
Null == [k |-> "null", v |-> ""]

RECURSIVE ParseValue(_, _), ParseList(_, _, _), CommaValues(_, _, _)

\* The values after a bare identifier that is followed by a comma: the comma
\* is consumed also when no value follows.
CommaValues(toks, i, vs) ==
    IF ~Is(toks, i, {","}) THEN Got(i, List(vs))
    ELSE IF Is(toks, i + 1, {"ident", "string", "number"})
         THEN CommaValues(toks, i + 2, Append(vs, One(toks[i + 1].value)))
         ELSE Got(i + 1, List(vs))

ParseValue(toks, i) ==
    LET t == At(toks, i) IN
    IF t.type \in {"string", "number", "true", "false"} THEN Got(i + 1, One(t.value))
    ELSE IF t.type = "null" THEN Got(i + 1, Null)
    ELSE IF t.type = "param" THEN Got(i + 1, [k |-> "param", v |-> t.value])
    ELSE IF t.type = "[" THEN ParseList(toks, i + 1, <<>>)
    ELSE IF t.type = "ident"
    THEN IF Is(toks, i + 1, {","}) THEN CommaValues(toks, i + 1, <<One(t.value)>>) ELSE Got(i + 1, One(t.value))
    ELSE Unexpected

ParseList(toks, i, vs) ==
    IF Is(toks, i, {"]"}) THEN Got(i + 1, List(vs))
    ELSE Then(ParseValue(toks, i), LAMBDA v :
           IF Is(toks, v.pos, {","}) THEN ParseList(toks, v.pos + 1, Append(vs, v.v))
           ELSE IF Is(toks, v.pos, {"]"}) THEN ParseList(toks, v.pos, Append(vs, v.v))
           ELSE Unexpected)

\* parseIdentList, parseOrderBy and parseUpdateSets share their loop: an
\* element, and another one after each comma; a trailing comma is dropped.

RECURSIVE ParseIdentList(_, _, _), ParseOrderBy(_, _, _), ParseUpdateSets(_, _, _)

ParseIdentList(toks, i, done) ==
    IF ~IsIdentifierOrKeyword(toks, i) THEN IF done = <<>> THEN Unexpected ELSE Got(i, done)
    ELSE LET all == Append(done, toks[i].value) IN
         IF Is(toks, i + 1, {","}) THEN ParseIdentList(toks, i + 2, all) ELSE Got(i + 1, all)

ParseOrderBy(toks, i, done) ==
    IF ~IsIdentifierOrKeyword(toks, i) THEN IF done = <<>> THEN Unexpected ELSE Got(i, done)
    ELSE LET all == Append(done, [field |-> toks[i].value, desc |-> Is(toks, i + 1, {"desc"})])
             next == IF Is(toks, i + 1, {"asc", "desc"}) THEN i + 2 ELSE i + 1
         IN IF Is(toks, next, {","}) THEN ParseOrderBy(toks, next + 1, all) ELSE Got(next, all)

ParseUpdateSets(toks, i, done) ==
    IF ~IsIdentifierOrKeyword(toks, i) THEN IF done = <<>> THEN Unexpected ELSE Got(i, done)
    ELSE IF ~Is(toks, i + 1, {"="}) THEN Unexpected
    ELSE Then(ParseValue(toks, i + 2), LAMBDA v :
           LET all == Append(done, [field |-> toks[i].value, value |-> v.v]) IN
           IF Is(toks, v.pos, {","}) THEN ParseUpdateSets(toks, v.pos + 1, all) ELSE Got(v.pos, all))

(***************************************************************************)
(* Conditions                                                              *)
(***************************************************************************)

NoWhere == [operator |-> "and", conditions |-> <<>>]
Group(not, where) == [t |-> "group", not |-> not, where |-> where]
Field(not, field, op, value) == [t |-> "field", not |-> not, field |-> field, op |-> op, value |-> value]
TextSearch(op, value) == [t |-> "text", not |-> FALSE, op |-> op, value |-> value]

\* parseCondition after the name of a field: the operator and its operand.
ParseOperator(toks, i, not, field) ==
    IF Is(toks, i, {"is"})
    THEN IF Is(toks, i + 1, {"null"}) THEN Got(i + 2, Field(not, field, "is null", Null))
         ELSE IF Is(toks, i + 1, {"not"}) /\ Is(toks, i + 2, {"null"})
         THEN Got(i + 3, Field(not, field, "is not null", Null)) ELSE Unexpected
    ELSE IF Is(toks, i, {"between"})
    THEN Then(ParseValue(toks, i + 1), LAMBDA low :
           IF ~Is(toks, low.pos, {"and"}) THEN Unexpected
           ELSE Then(ParseValue(toks, low.pos + 1), LAMBDA high :
                  Got(high.pos, Field(not, field, "between", List(<<low.v, high.v>>)))))
    ELSE IF Is(toks, i, Comparisons \cup {"contains", "startswith", "endswith", "like", "ilike", "in"})
    THEN Then(ParseValue(toks, i + 1), LAMBDA v : Got(v.pos, Field(not, field, toks[i].type, v.v)))
    ELSE Unexpected

RECURSIVE ParseWhereExpr(_, _, _), ParseCondition(_, _, _), WhereRest(_, _, _, _)

\* A parenthesised expression at i, inside depth others.
ParseGroup(toks, i, depth, not) ==
    IF depth >= MaxDepth THEN Unexpected
    ELSE Then(ParseWhereExpr(toks, i + 1, depth + 1), LAMBDA e :
           IF Is(toks, e.pos, {")"}) THEN Got(e.pos + 1, Group(not, e.v)) ELSE Unexpected)

ParseCondition(toks, p, depth) ==
    LET not == Is(toks, p, {"not"})
        i == IF not THEN p + 1 ELSE p
    IN IF Is(toks, i, {"("}) THEN ParseGroup(toks, i, depth, not)
       ELSE IF IsIdentifierOrKeyword(toks, i) THEN ParseOperator(toks, i + 1, not, toks[i].value)
       ELSE Unexpected

\* Wrong on purpose: "or" does not turn the clause into a disjunction.
OperatorKept(operator, type) == operator
\* The operator of a clause after one more connective: a clause has one
\* operator, and a single "or" makes it a disjunction of all its conditions.
OperatorAfter(operator, type) == IF type = "or" THEN "or" ELSE operator

\* The loop of parseWhereExpr
WhereRest(toks, i, depth, clause) ==
    IF ~Is(toks, i, {"and", "or"}) THEN Got(i, clause)
    ELSE Then(ParseCondition(toks, i + 1, depth), LAMBDA c :
           WhereRest(toks, c.pos, depth, [operator |-> OperatorAfter(clause.operator, toks[i].type),
                                          conditions |-> Append(clause.conditions, c.v)]))

ParseWhereExpr(toks, i, depth) ==
    Then(ParseCondition(toks, i, depth), LAMBDA c :
      WhereRest(toks, c.pos, depth, [operator |-> "and", conditions |-> <<c.v>>]))

(***************************************************************************)
(* Queries                                                                 *)
(***************************************************************************)

\* A limit or an offset that is not given is NotGiven.
NotGiven == -1
NumberOf == "0" :> 0 @@ "1" :> 1 @@ "2" :> 2

NewQuery(type) ==
    [type |-> type, entity |-> "", fields |-> <<>>, aggField |-> "", where |-> NoWhere, updates |-> <<>>,
     include |-> <<>>, groupBy |-> <<>>, having |-> NoWhere, orderBy |-> <<>>, limit |-> NotGiven, offset |-> NotGiven]

\* parseInt
ParseInt(toks, i) == IF Is(toks, i, {"number"}) THEN Got(i + 1, NumberOf[toks[i].value]) ELSE Unexpected

\* One case of parseClauses: the part of the query that the clause sets.
SkipBy(toks, i) == IF Is(toks, i, {"by"}) THEN i + 1 ELSE i
InPart(part, r) == [r EXCEPT !.v = [part |-> part, v |-> @]]
ParseClause(toks, i) ==
    CASE Is(toks, i, {"with", "include"}) -> InPart("include", ParseIdentList(toks, i + 1, <<>>))
      [] Is(toks, i, {"where", "having"}) -> InPart(toks[i].type, ParseWhereExpr(toks, i + 1, 0))
      [] Is(toks, i, {"order"})  -> InPart("orderBy", ParseOrderBy(toks, SkipBy(toks, i + 1), <<>>))
      [] Is(toks, i, {"group"})  -> InPart("groupBy", ParseIdentList(toks, SkipBy(toks, i + 1), <<>>))
      [] Is(toks, i, {"limit", "offset"}) -> InPart(toks[i].type, ParseInt(toks, i + 1))
      [] OTHER -> Unexpected

RECURSIVE ParseClauses(_, _, _)
ParseClauses(toks, i, q) ==
    IF Is(toks, i, {"eof"}) THEN Got(i, q)
    ELSE Then(ParseClause(toks, i), LAMBDA c : ParseClauses(toks, c.pos, [q EXCEPT ![c.v.part] = c.v.v]))

\* The name of the entity at i, after an optional "from", and the clauses.
ParseEntity(toks, p, q) ==
    LET i == IF Is(toks, p, {"from"}) THEN p + 1 ELSE p IN
    IF Is(toks, i, {"ident"}) THEN ParseClauses(toks, i + 1, [q EXCEPT !.entity = toks[i].value]) ELSE Unexpected

ParseSelect(toks) ==
    IF Is(toks, 2, {"ident"}) /\ Is(toks, 3, {",", "from"})
    THEN Then(ParseIdentList(toks, 2, <<>>), LAMBDA f :
           ParseEntity(toks, f.pos, [NewQuery("select") EXCEPT !.fields = f.v]))
    ELSE ParseEntity(toks, 2, NewQuery("select"))

ParseAggregate(toks, type) ==
    IF type # "count" /\ Is(toks, 2, {"("})
    THEN IF Is(toks, 3, {"ident"}) /\ Is(toks, 4, {")"})
         THEN ParseEntity(toks, 5, [NewQuery(type) EXCEPT !.aggField = toks[3].value]) ELSE Unexpected
    ELSE ParseEntity(toks, 2, NewQuery(type))

ParseUpdate(toks) ==
    IF Is(toks, 2, {"ident"}) /\ Is(toks, 3, {"set"})
    THEN Then(ParseUpdateSets(toks, 4, <<>>), LAMBDA u :
           ParseClauses(toks, u.pos, [NewQuery("update") EXCEPT !.entity = toks[2].value, !.updates = u.v]))
    ELSE Unexpected

ParseDelete(toks) == ParseEntity(toks, 2, NewQuery("delete"))

(***************************************************************************)
(* Simple filters: status:active priority:1                                *)
(***************************************************************************)

\* The operator of a simple filter: a colon is an equality.
FilterOperator(type) == IF type = ":" THEN "=" ELSE type

\* parseSimpleFilter. A name without an operator is a condition that the
\* field is true, and loses its NOT; "and" and "or" are such names, as
\* isIdentifierOrKeyword accepts them before the branch that would skip them.
ParseSimpleFilter(toks, p) ==
    LET not == Is(toks, p, {"not"})
        i == IF not THEN p + 1 ELSE p
    IN IF Is(toks, p, {"string"}) THEN Got(p + 1, TextSearch("exact", One(toks[p].value)))
       ELSE IF Is(toks, p, {"~"})
       THEN IF IsIdentifierOrKeyword(toks, p + 1) \/ Is(toks, p + 1, {"string"})
            THEN Got(p + 2, TextSearch("fuzzy", One(toks[p + 1].value))) ELSE Unexpected
       ELSE IF Is(toks, i, {"("}) THEN ParseGroup(toks, i, 0, not)
       ELSE IF ~IsIdentifierOrKeyword(toks, i) THEN Unexpected
       ELSE IF ~Is(toks, i + 1, Comparisons \cup {":"}) THEN Got(i + 1, Field(FALSE, toks[i].value, "=", One("true")))
       ELSE Then(ParseValue(toks, i + 2), LAMBDA v :
              Got(v.pos, Field(not, toks[i].value, FilterOperator(toks[i + 1].type), v.v)))

RECURSIVE ParseSimpleFilters(_, _, _)
ParseSimpleFilters(toks, i, q) ==
    IF Is(toks, i, {"eof"}) THEN Got(i, q)
    ELSE Then(ParseSimpleFilter(toks, i), LAMBDA f :
           ParseSimpleFilters(toks, f.pos, [q EXCEPT !.where.conditions = Append(@, f.v)]))

ParseTokens(toks) ==
    IF LexerError(toks) \/ toks = <<>> THEN Unexpected
    ELSE IF Is(toks, 1, {"select"}) THEN ParseSelect(toks)
    ELSE IF Is(toks, 1, {"count", "sum", "avg", "min", "max"}) THEN ParseAggregate(toks, toks[1].type)
    ELSE IF Is(toks, 1, {"update"}) THEN ParseUpdate(toks)
    ELSE IF Is(toks, 1, {"delete"}) THEN ParseDelete(toks)
    ELSE ParseSimpleFilters(toks, 1, NewQuery("select"))
Parse(text) == ParseTokens(Tokenize(text))
=============================================================================
