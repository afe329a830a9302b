--------------------------- MODULE QueryCompiler ---------------------------
(***************************************************************************)
(* internal/query/compiler.go and executor.go, and the translation of the  *)
(* same query to MongoDB (internal/database/mongodb/repository.go). A      *)
(* client writes the text of a query piece by piece; the executor parses   *)
(* it, compiles it to SQL with numbered parameters and runs it on a table. *)
(* SQL is a sequence of words with its parentheses, read back with SQL's   *)
(* precedences, so a parenthesis or a parameter number that is wrong in    *)
(* the SQL shows in the rows.                                              *)
(***************************************************************************)
EXTENDS QueryParser, FiniteSets, SequencesExt

CONSTANTS
    Heads,          \* first pieces of a text, by the kind of query
    Conditions,     \* conditions a client writes
    SimpleFilters,  \* filters of the simple syntax
    Tails,          \* clauses after the conditions
    FirstTable,     \* the rows of the table, by their id
    SoftDelete,     \* whether the entity has a soft delete column
    MaxConditions, MaxGroups, MaxNots, MaxTails     \* bounds of a text

VARIABLES
    text,       \* the text written so far
    writing,    \* [at, open, groups, nots, conds, tails, pieces]: what may
                \* be written next, and the simple filters so far
    query,      \* what Parse answered
    compiled,   \* what Compile answered
    table,      \* the rows of the entity's table
    answer      \* [ok, rows]: what the caller gets; rows of an update or
                \* a delete are the rows it touches

queryVars == <<text, writing, query, compiled, table, answer>>

NoAnswer == [ok |-> FALSE, rows |-> <<>>]

QueryTypeOK ==
    /\ writing.at \in {"head", "operand", "operator", "filter", "tail", "parsed", "compiled", "done"}
    /\ writing.open \in 0..MaxGroups /\ writing.conds \in 0..MaxConditions /\ writing.tails \in 0..MaxTails
    /\ query.ok \in BOOLEAN /\ compiled.ok \in BOOLEAN /\ answer.ok \in BOOLEAN
    /\ DOMAIN table \subseteq DOMAIN FirstTable

QueryInit ==
    /\ text = <<>> /\ writing = [at |-> "head", open |-> 0, groups |-> 0, nots |-> 0, conds |-> 0, tails |-> 0, pieces |-> <<>>]
    /\ query = Unexpected /\ compiled = [ok |-> FALSE] /\ table = FirstTable /\ answer = NoAnswer

(***************************************************************************)
(* The compiler. A compile function answers the words of its SQL and the   *)
(* parameters it appends; n parameters come before them.                   *)
(***************************************************************************)

\* mapColumn with the entity's Columns, else toSnakeCase; the entity's name
\* is looked up by getEntity without regard to case.
MapColumn(field) == IF field = "a" THEN "amount" ELSE field
GetEntity(name) == IF name \in {"users", "Users"} THEN "users" ELSE "none"

Placeholder(n) == <<"$1", "$2", "$3", "$4", "$5", "$6", "$7", "$8">>[n]
Sql(words, params) == [ok |-> TRUE, words |-> words, params |-> params]
CompilerError == [ok |-> FALSE, words |-> <<>>, params |-> <<>>]
Compiled(c, Rest(_)) == IF c.ok THEN Rest(c) ELSE CompilerError

\* A parameter with wildcards around its value
Pattern(pre, value, post) == [k |-> "pattern", v |-> value.v, pre |-> pre, post |-> post]

\* The parameter that an operator binds
ParamOf(op, value) ==
    CASE op \in {"contains", "ilike"} -> Pattern(TRUE, value, TRUE)
      [] op = "startswith" -> Pattern(FALSE, value, TRUE)
      [] op = "endswith" -> Pattern(TRUE, value, FALSE)
      [] OTHER -> value
SqlOperator(op) == IF op \in {"contains", "startswith", "endswith", "ilike"} THEN "ilike" ELSE op

\* compileCondition for a condition on a field; an empty IN needs no column.
CompileField(cond, n) ==
    LET col == MapColumn(cond.field)
        not == IF cond.not THEN <<"not">> ELSE <<>>
        items == cond.value.v
    IN CASE cond.op \in {"is null", "is not null"} ->
              Sql(IF cond.not # (cond.op = "is null") THEN <<col, "is", "null">> ELSE <<col, "is", "not", "null">>, <<>>)
         [] cond.op = "between" ->
              Sql(not \o <<col, "between", Placeholder(n + 1), "and", Placeholder(n + 2)>>, items)
         [] cond.op = "in" /\ cond.value.k # "list" -> CompilerError
         [] cond.op = "in" /\ cond.value.k = "list" /\ items = <<>> -> Sql(<<IF cond.not THEN "true" ELSE "false">>, <<>>)
         [] cond.op = "in" /\ cond.value.k = "list" /\ items # <<>> ->
              Sql(not \o <<col, "in">> \o [i \in 1..Len(items) |-> Placeholder(n + i)], items)
         [] OTHER -> Sql(not \o <<col, SqlOperator(cond.op), Placeholder(n + 1)>>, <<ParamOf(cond.op, cond.value)>>)

RECURSIVE CompileWhere(_, _), CompileCondition(_, _), CompileAll(_, _, _)

CompileCondition(cond, n) ==
    IF cond.t = "field" THEN CompileField(cond, n)
    ELSE IF cond.t = "text" THEN Sql(<<"tsv", cond.op, Placeholder(n + 1)>>, <<cond.value>>)    \* compileTextSearch
    ELSE Compiled(CompileWhere(cond.where, n), LAMBDA w :
           IF cond.not THEN Sql(<<"not", "(">> \o w.words \o <<")">>, w.params) ELSE w)

\* The conditions of a clause joined by its operator
CompileAll(conds, op, n) ==
    Compiled(CompileCondition(conds[1], n), LAMBDA first :
      IF Len(conds) = 1 THEN first
      ELSE Compiled(CompileAll(Tail(conds), op, n + Len(first.params)), LAMBDA rest :
             Sql(first.words \o <<op>> \o rest.words, first.params \o rest.params)))

\* Wrong on purpose: the joined conditions get no parentheses.
Bare(words) == words
InParentheses(words) == <<"(">> \o words \o <<")">>

\* compileWhere: several conditions are put in parentheses.
CompileWhere(where, n) ==
    Compiled(CompileAll(where.conditions, where.operator, n), LAMBDA all :
      IF Len(where.conditions) > 1 THEN Sql(InParentheses(all.words), all.params) ELSE all)

\* compileWhereWithSoftDelete
CompileWhereWithSoftDelete(where, n) ==
    Compiled(IF where.conditions = <<>> THEN Sql(<<>>, <<>>) ELSE CompileWhere(where, n), LAMBDA w :
      LET live == <<"deleted_at", "is", "null">> IN
      IF ~SoftDelete THEN w
      ELSE IF w.words = <<>> THEN Sql(live, <<>>)
      ELSE Sql(<<"(">> \o w.words \o <<")", "and", "(">> \o live \o <<")">>, w.params))

\* Wrong on purpose: the conditions number their parameters from one again.
CountedFromOne(updates) == 0
\* compileUpdate numbers the values that it sets before its conditions.
ParamsOfUpdates(updates) == Len(updates)

\* compileSelect, compileCount, compileAggregateFunc, compileUpdate and
\* compileDelete: what the statement does, on which rows, in which window.
Statement(verb, q, words, params, having) ==
    [ok |-> TRUE, verb |-> verb, words |-> words, params |-> params, having |-> having,
     fields |-> [i \in 1..Len(q.fields) |-> MapColumn(q.fields[i])],
     groupBy |-> [i \in 1..Len(q.groupBy) |-> MapColumn(q.groupBy[i])],
     sets |-> [i \in 1..Len(q.updates) |-> [column |-> MapColumn(q.updates[i].field), param |-> i]],
     orderBy |-> [i \in 1..Len(q.orderBy) |-> [column |-> MapColumn(q.orderBy[i].field), desc |-> q.orderBy[i].desc]],
     limit |-> q.limit, offset |-> q.offset]

CompileSelect(q) ==
    Compiled(CompileWhereWithSoftDelete(q.where, 0), LAMBDA w :
      Compiled(IF q.having.conditions = <<>> THEN Sql(<<>>, <<>>) ELSE CompileWhere(q.having, Len(w.params)), LAMBDA h :
        Statement("select", q, w.words, w.params \o h.params, h.words)))

\* Only a SELECT has groups, an order and a window.
NoWindow(q) == [q EXCEPT !.groupBy = <<>>, !.orderBy = <<>>, !.limit = NotGiven, !.offset = NotGiven]

CompileCount(q) ==
    Compiled(CompileWhereWithSoftDelete(q.where, 0), LAMBDA w :
      Statement("select", NoWindow(q), w.words, w.params, <<>>))

CompileUpdate(q) ==
    Compiled(CompileWhereWithSoftDelete(q.where, ParamsOfUpdates(q.updates)), LAMBDA w :
      Statement("update", NoWindow(q), w.words, [i \in 1..Len(q.updates) |-> q.updates[i].value] \o w.params, <<>>))

CompileDelete(q) ==
    Compiled(CompileWhereWithSoftDelete(q.where, 0), LAMBDA w :
      Statement(IF SoftDelete THEN "mark" ELSE "delete", NoWindow(q), w.words, w.params, <<>>))

Compile(q) ==
    IF GetEntity(q.entity) = "none" THEN CompilerError
    ELSE CASE q.type = "select" -> CompileSelect(q)
           [] q.type = "update" -> CompileUpdate(q)
           [] q.type = "delete" -> CompileDelete(q)
           [] OTHER -> CompileCount(q)

(***************************************************************************)
(* The database. Truth reads words with SQL's precedences (OR, AND, NOT)   *)
(* and its three truth values, false 0, unknown 1 and true 2.              *)
(***************************************************************************)

Rank == "0" :> 0 @@ "1" :> 1 @@ "2" :> 2
PrefixOf == "x" :> {"x"} @@ "y" :> {"y"} @@ "xy" :> {"x", "xy"}
SuffixOf == "x" :> {"x"} @@ "y" :> {"y"} @@ "xy" :> {"y", "xy"}

\* LIKE and ILIKE on the words x, y and xy
Like(s, p) ==
    IF p.k # "pattern" THEN s = p.v
    ELSE \/ p.v = s
         \/ p.post /\ s \in DOMAIN PrefixOf /\ p.v \in PrefixOf[s]
         \/ p.pre /\ s \in DOMAIN SuffixOf /\ p.v \in SuffixOf[s]

Compare(op, s, p) ==
    CASE op = "=" -> s = p.v
      [] op = "!=" -> s # p.v
      [] op \in {"like", "ilike", "exact", "fuzzy"} -> Like(s, p)
      [] op = "contains" -> Like(s, Pattern(TRUE, p, TRUE))
      [] op = "startswith" -> Like(s, Pattern(FALSE, p, TRUE))
      [] op = "endswith" -> Like(s, Pattern(TRUE, p, FALSE))
      [] OTHER -> /\ s \in DOMAIN Rank /\ p.v \in DOMAIN Rank
                  /\ CASE op = ">" -> Rank[s] > Rank[p.v]
                       [] op = ">=" -> Rank[s] >= Rank[p.v]
                       [] op = "<" -> Rank[s] < Rank[p.v]
                       [] op = "<=" -> Rank[s] <= Rank[p.v]

ToTruth(b) == IF b THEN 2 ELSE 0

\* The truth of column, operator, operands; bound gives the operands.
AtomTruth(e, row, bound) ==
    IF e = <<"true">> THEN 2
    ELSE IF e = <<"false">> THEN 0
    ELSE IF e[2] = "is" THEN ToTruth((row[e[1]] = "null") = (e[3] = "null"))
    ELSE IF row[e[1]] = "null" \/ (e[2] # "in" /\ bound[e[3]].k = "null") THEN 1
    ELSE IF e[2] = "in" THEN ToTruth(\E i \in 3..Len(e) : Compare("=", row[e[1]], bound[e[i]]))
    ELSE IF e[2] = "between"
    THEN ToTruth(Compare(">=", row[e[1]], bound[e[3]]) /\ Compare("<=", row[e[1]], bound[e[5]]))
    ELSE ToTruth(Compare(e[2], row[e[1]], bound[e[3]]))

Depth(e, i) == Cardinality({j \in 1..i : e[j] = "("}) - Cardinality({j \in 1..i : e[j] = ")"})

\* Places of a connective outside all parentheses; the "and" of BETWEEN is
\* not one.
TopLevel(e, w) == {i \in 1..Len(e) : e[i] = w /\ Depth(e, i) = 0 /\ ~(w = "and" /\ i > 2 /\ e[i - 2] = "between")}

RECURSIVE Truth(_, _, _)
Truth(e, row, bound) ==
    LET Split(w) == LET i == Min(TopLevel(e, w)) IN <<SubSeq(e, 1, i - 1), SubSeq(e, i + 1, Len(e))>> IN
    IF e = <<>> THEN 2
    ELSE IF TopLevel(e, "or") # {}
    THEN Max({Truth(Split("or")[1], row, bound), Truth(Split("or")[2], row, bound)})
    ELSE IF TopLevel(e, "and") # {}
    THEN Min({Truth(Split("and")[1], row, bound), Truth(Split("and")[2], row, bound)})
    ELSE IF e[1] = "not" THEN 2 - Truth(Tail(e), row, bound)
    ELSE IF e[1] = "(" THEN Truth(SubSeq(e, 2, Len(e) - 1), row, bound)
    ELSE AtomTruth(e, row, bound)

\* Values that the driver accepts as a parameter
Bindable(p) == p.k \in {"one", "null", "pattern"} 

Bound(params) == [w \in {Placeholder(i) : i \in 1..Len(params)} |-> params[CHOOSE i \in 1..8 : Placeholder(i) = w]]

ColumnsOf(words) == Range(words) \cap {"id", "amount", "count", "active", "tsv", "deleted_at"}

\* A statement with a GROUP BY or a HAVING is refused unless all that it
\* selects, compares in the HAVING and orders by are columns it groups by.
Grouping(s) == s.groupBy # <<>> \/ s.having # <<>>
Accepted(s) == Grouping(s) =>
    /\ s.fields # <<>>
    /\ Range(s.fields) \cup ColumnsOf(s.having) \cup {s.orderBy[i].column : i \in DOMAIN s.orderBy} \subseteq Range(s.groupBy)

\* Ids of the rows that satisfy the WHERE of a statement; of the groups that
\* satisfy its HAVING, each by the id of its first row
Satisfying(s) == {i \in DOMAIN table : Truth(s.words, table[i], Bound(s.params)) = 2}
Hit(s) ==
    IF ~Grouping(s) THEN Satisfying(s)
    ELSE {i \in Satisfying(s) :
             /\ \A j \in Satisfying(s) : j < i => \E k \in DOMAIN s.groupBy : table[j][s.groupBy[k]] # table[i][s.groupBy[k]]
             /\ Truth(s.having, table[i], Bound(s.params)) = 2}

\* NULL sorts after every value when ascending, as PostgreSQL has it.
SortKey(row, column) == IF row[column] \in DOMAIN Rank THEN Rank[row[column]] ELSE 9
Before(i, j, orderBy) ==
    IF orderBy = <<>> THEN i < j
    ELSE LET o == orderBy[1]
             x == SortKey(table[i], o.column)
             y == SortKey(table[j], o.column)
         IN IF x = y THEN i < j ELSE (x < y) # o.desc

\* The rows of a SELECT, ordered, from its offset and up to its limit
Window(ids, s) ==
    LET ordered == SetToSortSeq(ids, LAMBDA i, j : Before(i, j, s.orderBy))
        from == IF s.offset = NotGiven THEN 1 ELSE s.offset + 1
        to == IF s.limit = NotGiven THEN Len(ordered) ELSE from + s.limit - 1
    IN SubSeq(ordered, from, IF to > Len(ordered) THEN Len(ordered) ELSE to)

(***************************************************************************)
(* The client and the executor                                             *)
(***************************************************************************)

Write(words, next) == text' = text \o words /\ writing' = next /\ UNCHANGED <<query, compiled, table, answer>>

WriteHead(h) ==
    /\ writing.at = "head"
    /\ Write(h, [writing EXCEPT !.at = IF h = <<>> THEN "filter" ELSE "tail"])

WriteFilter(f) ==
    /\ writing.at = "filter" /\ writing.conds < MaxConditions
    /\ Write(f, [writing EXCEPT !.conds = @ + 1, !.pieces = Append(@, f)])

WriteWhere == writing.at = "tail" /\ writing.conds = 0 /\ writing.tails = 0 /\ Write(<<"where">>, [writing EXCEPT !.at = "operand"])

WriteNot ==
    /\ writing.at = "operand" /\ text[Len(text)] # "not" /\ writing.nots < MaxNots
    /\ Write(<<"not">>, [writing EXCEPT !.nots = @ + 1])

WriteOpen ==
    /\ writing.at = "operand" /\ writing.groups < MaxGroups
    /\ Write(<<"(">>, [writing EXCEPT !.open = @ + 1, !.groups = @ + 1])

WriteCondition(c) ==
    /\ writing.at = "operand" /\ writing.conds < MaxConditions
    /\ Write(c, [writing EXCEPT !.conds = @ + 1, !.at = IF writing.open = 0 THEN "tail" ELSE "operator"])

WriteClose ==
    /\ writing.at = "operator" /\ writing.open > 0
    /\ Write(<<")">>, [writing EXCEPT !.open = @ - 1, !.at = IF writing.open = 1 THEN "tail" ELSE "operator"])

WriteConnective(w) ==
    /\ \/ writing.at = "operator"
       \/ writing.at = "tail" /\ writing.tails = 0 /\ writing.conds > 0
    /\ writing.conds < MaxConditions
    /\ Write(<<w>>, [writing EXCEPT !.at = "operand"])

WriteTail(t) ==
    /\ writing.at = "tail" /\ writing.tails < MaxTails /\ text[1] = "select"
    /\ Write(t, [writing EXCEPT !.tails = @ + 1])

\* ExecuteString: Parse
ParseText ==
    /\ writing.at \in {"tail", "filter"}
    /\ query' = Parse(text)
    /\ writing' = [writing EXCEPT !.at = IF query'.ok THEN "parsed" ELSE "done"]
    /\ UNCHANGED <<text, compiled, table, answer>>

\* Execute, ExecuteCount, ExecuteUpdate or ExecuteDelete, by the type of the
\* query. A simple filter names no entity: its caller sets it.
CompileQuery ==
    /\ writing.at = "parsed"
    /\ compiled' = Compile([query.v EXCEPT !.entity = IF @ = "" THEN "users" ELSE @])
    /\ writing' = [writing EXCEPT !.at = IF compiled'.ok THEN "compiled" ELSE "done"]
    /\ UNCHANGED <<text, query, table, answer>>

Changed(row, s) == [c \in DOMAIN row |->
    IF \E i \in DOMAIN s.sets : s.sets[i].column = c
    THEN s.params[(CHOOSE i \in DOMAIN s.sets : s.sets[i].column = c)].v ELSE row[c]]

Run ==
    /\ writing.at = "compiled"
    /\ writing' = [writing EXCEPT !.at = "done"]
    /\ IF Accepted(compiled) /\ \A i \in DOMAIN compiled.params : Bindable(compiled.params[i])
       THEN /\ answer' = [ok |-> TRUE, rows |-> Window(Hit(compiled), compiled)]
            /\ table' = CASE compiled.verb = "update" -> [i \in DOMAIN table |-> IF i \in Hit(compiled) THEN Changed(table[i], compiled) ELSE table[i]]
                          [] compiled.verb = "mark" -> [i \in DOMAIN table |-> IF i \in Hit(compiled) THEN [table[i] EXCEPT !["deleted_at"] = "now"] ELSE table[i]]
                          [] compiled.verb = "delete" -> [i \in DOMAIN table \ Hit(compiled) |-> table[i]]
                          [] OTHER -> table
       ELSE UNCHANGED <<answer, table>>
    /\ UNCHANGED <<text, query, compiled>>

QueryNext ==
    \/ \E h \in Heads : WriteHead(h)
    \/ \E f \in SimpleFilters : WriteFilter(f)
    \/ WriteWhere \/ WriteNot \/ WriteOpen \/ WriteClose
    \/ \E c \in Conditions : WriteCondition(c)
    \/ \E w \in {"and", "or"} : WriteConnective(w)
    \/ \E t \in Tails : WriteTail(t)
    \/ ParseText \/ CompileQuery \/ Run
(***************************************************************************)
(* ExecuteQuery of the MongoDB repository: the same query as a filter.     *)
(***************************************************************************)

\* translateCondition: $not is put around the whole condition, and the NOT
\* of a nested clause is left out.
MongoField(cond) == [t |-> "field", field |-> cond.field, op |-> cond.op, value |-> cond.value, not |-> cond.not]

RECURSIVE TranslateWhereClause(_), TranslateCondition(_)
TranslateCondition(cond) == IF cond.t = "group" THEN TranslateWhereClause(cond.where) ELSE MongoField(cond)

\* Wrong on purpose: several conditions always become an $and.
AlwaysAnd(where) == "and"
\* translateWhereClause: $or or $and, by the operator of the clause
MongoOperator(where) == where.operator

TranslateWhereClause(where) ==
    IF Len(where.conditions) = 1 THEN TranslateCondition(where.conditions[1])
    ELSE [t |-> MongoOperator(where), parts |-> [i \in 1..Len(where.conditions) |-> TranslateCondition(where.conditions[i])]]

\* What the server makes of a filter, for documents that have the field
MongoCompare(f, s) ==
    CASE f.op = "is null" -> s = "null"
      [] f.op = "is not null" -> s # "null"
      [] f.op = "in" -> \E i \in DOMAIN f.value.v : s = f.value.v[i].v
      [] f.op = "between" -> Compare(">=", s, f.value.v[1]) /\ Compare("<=", s, f.value.v[2])
      [] OTHER -> Compare(f.op, s, f.value)

RECURSIVE FilterMatches(_, _)
FilterMatches(f, doc) ==
    CASE f.t = "and" -> \A i \in DOMAIN f.parts : FilterMatches(f.parts[i], doc)
      [] f.t = "or" -> \E i \in DOMAIN f.parts : FilterMatches(f.parts[i], doc)
      [] OTHER -> MongoCompare(f, doc[f.field])

(***************************************************************************)
(* What a text means, read from its words                                  *)
(***************************************************************************)

TailWords == {"order", "limit", "offset", "group", "having", "with"}
Position(w) == CHOOSE i \in 1..Len(text) : text[i] = w
Has(w) == \E i \in 1..Len(text) : text[i] = w

\* The words of the WHERE part and of the HAVING part
PartAfter(w) ==
    IF ~Has(w) THEN <<>>
    ELSE LET ends == {i \in Position(w) + 1..Len(text) : text[i] \in TailWords} \cup {Len(text) + 1} IN
         SubSeq(text, Position(w) + 1, Min(ends) - 1)
NumberAfter(w) == IF Has(w) THEN NumberOf[text[Position(w) + 1]] ELSE NotGiven

\* A simple filter in the words of a condition
AsCondition(piece) ==
    IF Len(piece) = 1 /\ piece[1] \in DOMAIN Quoted THEN <<"tsv", "exact", piece[1]>>
    ELSE IF piece[1] = "~" THEN <<"tsv", "fuzzy", piece[2]>>
    ELSE IF Len(piece) = 1 THEN piece \o <<"=", "true">>
    ELSE [i \in 1..Len(piece) |-> IF piece[i] = ":" THEN "=" ELSE piece[i]]

\* The row by the names of its fields, and the literals of the text
Named(row) == [f \in {"id", "a", "count", "active", "tsv"} |-> row[MapColumn(f)]]
Literals == [i \in Range(text) \cup {"true"} |-> One(NextToken(i).value)]

Meant(row) ==
    LET r == Named(row) IN
    /\ \A k \in DOMAIN writing.pieces : Truth(AsCondition(writing.pieces[k]), r, Literals) = 2
    /\ Truth(PartAfter("where"), r, Literals) = 2
WantedRows == {i \in DOMAIN FirstTable : Meant(FirstTable[i]) /\ (SoftDelete => FirstTable[i]["deleted_at"] = "null")}

\* The names that a text selects, groups by and compares in its HAVING, and
\* whether SQL has an answer for them
NamesIn(words) == Range(words) \cap {"id", "a", "count", "active", "tsv"}
SelectedNames == IF Has("from") THEN NamesIn(SubSeq(text, 2, Position("from") - 1)) ELSE {}
GroupNames == NamesIn(PartAfter("group"))
Answerable ==
    Has("group") \/ Has("having") =>
        SelectedNames # {} /\ SelectedNames \cup NamesIn(PartAfter("having")) \cup NamesIn(PartAfter("order")) \subseteq GroupNames

\* The rows asked for; with a GROUP BY, the first row of each group asked for
Wanted ==
    IF ~Has("group") THEN WantedRows
    ELSE {i \in WantedRows :
             /\ \A j \in WantedRows : j < i => \E f \in GroupNames : Named(FirstTable[j])[f] # Named(FirstTable[i])[f]
             /\ Truth(PartAfter("having"), Named(FirstTable[i]), Literals) = 2}

\* Texts for which the meaning is settled: one connective at each level, no
\* deeper than the parser goes, no NOT on a bare name, no identifiers in a
\* list, no named parameters, no simple filter whose first field is named
\* like a kind of query.
RECURSIVE Mixed(_)
Mixed(e) ==
    \/ TopLevel(e, "or") # {} /\ TopLevel(e, "and") # {}
    \/ \E i, j \in 1..Len(e) : /\ e[i] = "(" /\ e[j] = ")" /\ i < j /\ Depth(e, i) = Depth(e, j) + 1
                             /\ \A k \in i..j - 1 : Depth(e, k) >= Depth(e, i)
                             /\ Mixed(SubSeq(e, i + 1, j - 1))
Plain ==
    /\ text # <<>> /\ (Has("users") \/ Has("Users") \/ writing.pieces # <<>>)
    /\ ~Mixed(PartAfter("where"))
    /\ \A i \in 1..Len(text) : Depth(text, i) <= MaxDepth
    /\ ~Has("@p") /\ \A i \in 1..Len(text) : text[i] = "[" => text[i + 1] \notin {"x", "y"}
    /\ writing.pieces # <<>> => text[1] \notin Keywords \ {"not"}
    /\ \A k \in DOMAIN writing.pieces : ~(writing.pieces[k][1] = "not" /\ Len(writing.pieces[k]) = 2)

TextOrder == IF Has("order") THEN <<[column |-> MapColumn(text[Position("order") + 2]), desc |-> Has("desc")]>> ELSE <<>>

\* Parse, Compile and the database give the rows, or the groups, that the
\* text asks for, in its order and window; an update or a delete touches
\* those rows and no other, and none that is soft-deleted already. A text
\* with a HAVING over names that it does not group by compiles too, and the
\* database refuses it.
SqlMeansText ==
    /\ writing.at = "done" /\ Plain /\ ~Answerable => compiled.ok /\ ~answer.ok /\ table = FirstTable
    /\ writing.at = "done" /\ Plain /\ Answerable =>
        /\ answer.ok
        /\ Range(answer.rows) \subseteq Wanted
        /\ text[1] # "select" => Range(answer.rows) = Wanted
        /\ compiled.verb = "select" =>
             /\ table = FirstTable
             /\ answer.rows = Window(Wanted, [orderBy |-> TextOrder, limit |-> NumberAfter("limit"), offset |-> NumberAfter("offset")])
        /\ compiled.verb # "select" => {i \in DOMAIN FirstTable : i \notin DOMAIN table \/ table[i] # FirstTable[i]} = Wanted

\* The MongoDB repository finds the same rows, among those without nulls,
\* for a text without NOT.
MongoMeansText ==
    writing.at = "done" /\ Plain /\ query.ok /\ ~Has("not") /\ query.v.where.conditions # <<>> /\ writing.pieces = <<>> =>
        \A i \in DOMAIN FirstTable : "null" \notin Range(Named(FirstTable[i])) =>
            (FilterMatches(TranslateWhereClause(query.v.where), Named(FirstTable[i]))
                <=> Truth(PartAfter("where"), Named(FirstTable[i]), Literals) = 2)

\* A query text means the same to its writer, to the SQL database and to
\* MongoDB: parse, compile, the numbering of the parameters and the
\* parentheses of the SQL together keep the meaning of the text.
QueryMeansText == SqlMeansText /\ MongoMeansText
=============================================================================
