---------------------------- MODULE MongoBuilder ----------------------------
(***************************************************************************)
(* internal/database/mongodb/query.go: the fluent QueryBuilder, the $match *)
(* document and the aggregation pipeline that it builds, and the filters   *)
(* of the DSL. Documents of the collection hold the fields "a" and "b" and *)
(* the array "tags"; a filter document maps a key to a condition.          *)
(***************************************************************************)
EXTENDS Integers, FiniteSets, Sequences, SequencesExt, TLC

CONSTANTS
    Collection,         \* the documents
    FilterExprs,        \* [f, op, v]: filters a caller adds
    LogicalExprs,       \* [type, filters, groups]: groups a caller adds
    ArrayExprs,         \* [f, type, v]: array queries a caller adds
    SortExprs,          \* [f, dir]: sort keys a caller adds
    SkipsAndLimits,     \* numbers given to Skip and Limit
    DslFilters,         \* filters written in the DSL
    MaxBuilderCalls     \* bound: calls on one builder

VARIABLES
    builder,    \* the QueryBuilder
    builderCalls, \* calls so far
    pipeline,   \* what the last BuildPipeline returned, a sequence of stages
    dsl         \* the DSL filter given to BuildPipelineFromDSL or BuildFromDSL

builderVars == <<builder, builderCalls, pipeline, dsl>>

NewQueryBuilder == [filters |-> <<>>, logicals |-> <<>>, arrayExprs |-> <<>>, sorts |-> <<>>,
                    skip |-> 0, limit |-> 0, projection |-> {}, errors |-> 0]
NotBuilt == <<[kind |-> "none"]>>
NoFilter == <<>>

BuilderInit == builder = NewQueryBuilder /\ builderCalls = 0 /\ pipeline = NotBuilt /\ dsl = NoFilter

BuilderTypeOK ==
    /\ builderCalls \in 0..MaxBuilderCalls /\ builder.errors \in Nat
    /\ Len(builder.filters) + Len(builder.logicals) + Len(builder.arrayExprs) + Len(builder.sorts) <= builderCalls + 2

(***************************************************************************)
(* BuildFilter                                                             *)
(***************************************************************************)

\* mongoOpMap
MongoOps == {"eq", "ne", "gt", "gte", "lt", "lte", "in", "nin", "regex"}

PlainValue(v) == [t |-> "value", v |-> v]                   \* {field: v}
Ops(ops) == [t |-> "ops", ops |-> ops]                  \* {field: {op: v, ..}}
NotOf(c) == Ops("not" :> c)                             \* {field: {$not: c}}
Docs(ds) == [t |-> "docs", docs |-> ds]                 \* {$and: [..]}, {$or: [..]}
EmptyDoc == [k \in {} |-> PlainValue({})]

\* Wrong on purpose: a second condition on a field replaces the first.
Replaced(existing, op, v) == Ops(op :> v)
\* A condition joins the operators already there; a plain value is replaced.
Merged(existing, op, v) == IF existing.t = "ops" THEN Ops((op :> v) @@ existing.ops) ELSE Ops(op :> v)

\* What $eq is given: no field of a document equals a document of operators.
OperandOf(c) == IF c.t = "value" THEN c.v ELSE {}
\* addFilterToDoc, OpEq: c is a plain value, or a condition of the DSL.
AddEqToDoc(doc, e) ==
    (e.f :> IF e.f \in DOMAIN doc THEN Merged(doc[e.f], "eq", OperandOf(e.v)) ELSE e.v) @@ doc

\* addFilterToDoc; an unknown operator leaves the document as it is.
AddFilterToDoc(doc, e) ==
    IF e.op \notin MongoOps THEN doc
    ELSE IF e.op = "eq" THEN AddEqToDoc(doc, [f |-> e.f, v |-> PlainValue(e.v)])
    ELSE (e.f :> IF e.op # "regex" /\ e.f \in DOMAIN doc THEN Merged(doc[e.f], e.op, e.v) ELSE Ops(e.op :> e.v)) @@ doc

\* addLogicalToDoc: conditions of several groups of one type end in one list.
RECURSIVE AddLogicalToDoc(_, _)
AddLogicalToDoc(doc, l) ==
    LET conds == [i \in 1..Len(l.filters) |-> AddFilterToDoc(EmptyDoc, l.filters[i])]
                   \o [i \in 1..Len(l.groups) |-> AddLogicalToDoc(EmptyDoc, l.groups[i])]
        key == IF l.type = "and" THEN "$and" ELSE "$or"
    IN IF l.type = "not"
       THEN IF conds = <<>> THEN doc ELSE [k \in DOMAIN conds[1] |-> NotOf(conds[1][k])] @@ doc
       ELSE (key :> Docs(IF key \in DOMAIN doc THEN doc[key].docs \o conds ELSE conds)) @@ doc

\* addArrayExprToDoc
AddArrayExprToDoc(doc, a) == (a.f :> Ops(a.type :> a.v)) @@ doc

BuildFilter(b) ==
    FoldLeft(AddArrayExprToDoc,
             FoldLeft(AddLogicalToDoc, FoldLeft(AddFilterToDoc, EmptyDoc, b.filters), b.logicals),
             b.arrayExprs)

\* Unknown operators met by one BuildFilter: each is one more error.
RECURSIVE UnknownIn(_)
UnknownIn(l) == Cardinality({i \in DOMAIN l.filters : l.filters[i].op \notin MongoOps})
                  + FoldLeft(LAMBDA n, g : n + UnknownIn(g), 0, l.groups)
ErrorsOf(b) == Cardinality({i \in DOMAIN b.filters : b.filters[i].op \notin MongoOps})
                 + FoldLeft(LAMBDA n, l : n + UnknownIn(l), 0, b.logicals)

\* BuildPipeline: a stage for each part that is set, in this order.
Stages(match, sorts, skip, limit, projection) ==
       (IF DOMAIN match = {} THEN <<>> ELSE <<[kind |-> "match", match |-> match]>>)
    \o (IF sorts = <<>> THEN <<>> ELSE <<[kind |-> "sort", sorts |-> sorts]>>)
    \o (IF skip > 0 THEN <<[kind |-> "skip", n |-> skip]>> ELSE <<>>)
    \o (IF limit > 0 THEN <<[kind |-> "limit", n |-> limit]>> ELSE <<>>)
    \o (IF projection = {} THEN <<>> ELSE <<[kind |-> "project", fields |-> projection]>>)

(***************************************************************************)
(* The DSL. A filter maps a field to a value or to operators, and "and",   *)
(* "or" and "not" to filters.                                              *)
(***************************************************************************)

\* ParseDSLFilter: the documents that a filter can become.  Its keys are
\* taken in any order: of "not" and a condition on the same field, the one
\* that comes late stays.
RECURSIVE ParseDSLFilter(_)
ParseDSLFilter(f) ==
    LET negations == IF "not" \in DOMAIN f THEN ParseDSLFilter(f["not"].of) ELSE {EmptyDoc}
        Each(items) == {s \in [DOMAIN items -> UNION {ParseDSLFilter(items[i]) : i \in DOMAIN items}] :
                            \A i \in DOMAIN items : s[i] \in ParseDSLFilter(items[i])}
        Conditions(k) == IF k \in {"and", "or"} THEN {Docs(s) : s \in Each(f[k].items)} ELSE {f[k]}
        Key(k) == IF k = "and" THEN "$and" ELSE IF k = "or" THEN "$or" ELSE k
        others == DOMAIN f \ {"not"}
        Negated(n, late) == [k \in DOMAIN n \ {Key(o) : o \in late} |-> NotOf(n[k])]
        Stated(c) == [k \in {Key(o) : o \in others} |-> c[CHOOSE o \in others : Key(o) = k]]
    IN {Negated(n, late) @@ Stated(c) :
            n \in negations, late \in SUBSET others,
            c \in {d \in [others -> UNION {Conditions(o) : o \in others}] : \A o \in others : d[o] \in Conditions(o)}}

\* BuildFromDSL: the conditions in $and and $or are taken out of their list,
\* and each is added as an equality of its field, the fields in any order.
Equalities(doc) ==
    LET OfDoc(d) == [i \in 1..Cardinality(DOMAIN d) |-> LET k == SetToSeq(DOMAIN d)[i] IN [f |-> k, v |-> d[k]]]
        OfKey(k) == IF k \in {"$and", "$or"} /\ doc[k].t = "docs"
                    THEN FlattenSeq([i \in DOMAIN doc[k].docs |-> OfDoc(doc[k].docs[i])])
                    ELSE <<[f |-> k, v |-> doc[k]]>>
    IN {FlattenSeq([i \in DOMAIN order |-> OfKey(order[i])]) : order \in SetToSeqs(DOMAIN doc)}

\* The $match of the builder that BuildFromDSL returns: BuildFilter over them
MatchesFromDSL(f) ==
    {FoldLeft(AddEqToDoc, EmptyDoc, eqs) : eqs \in UNION {Equalities(doc) : doc \in ParseDSLFilter(f)}}

(***************************************************************************)
(* The server                                                              *)
(***************************************************************************)

RegexMatches(v, pattern) == v \in {pattern, pattern + 1}

\* A value is the set of numbers in it, also when there is only one.
OpHolds(op, v, x) ==
    CASE op = "eq" -> v = {x}                   [] op = "ne" -> v # {x}
      [] op = "gt" -> \A n \in v : x > n         [] op = "gte" -> \A n \in v : x >= n
      [] op = "lt" -> \A n \in v : x < n         [] op = "lte" -> \A n \in v : x <= n
      [] op = "in" -> x \in v                    [] op = "nin" -> x \notin v
      [] op = "regex" -> \E n \in v : RegexMatches(x, n)
      [] op = "size" -> Cardinality(x) \in v
      [] op = "all" -> v \subseteq x
      [] op = "elemMatch" -> \E y \in x : \A n \in v : y > n

\* $not takes operators, $and and $or lists that are not empty: the server
\* refuses other queries.
RECURSIVE Refused(_)
Refused(doc) == \E k \in DOMAIN doc :
    \/ doc[k].t = "ops" /\ "not" \in DOMAIN doc[k].ops /\ doc[k].ops["not"].t # "ops"
    \/ k \in {"$and", "$or"} /\ doc[k].t # "docs"
    \/ doc[k].t = "docs" /\ (doc[k].docs = <<>> \/ \E i \in DOMAIN doc[k].docs : Refused(doc[k].docs[i]))

RECURSIVE Matches(_, _), CondHolds(_, _, _)
CondHolds(key, c, d) ==
    CASE c.t = "value" -> c.v = {d[key]}
      [] c.t = "ops" -> \A op \in DOMAIN c.ops :
            IF op = "not" THEN ~CondHolds(key, c.ops[op], d) ELSE OpHolds(op, c.ops[op], d[key])
      [] key = "$and" -> \A i \in DOMAIN c.docs : Matches(c.docs[i], d)
      [] key = "$or" -> \E i \in DOMAIN c.docs : Matches(c.docs[i], d)
Matches(doc, d) == \A k \in DOMAIN doc : CondHolds(k, doc[k], d)

\* Whether d comes before e: by the first sort key that tells them apart
SortedBefore(sorts, d, e) ==
    LET apart == {i \in DOMAIN sorts : d[sorts[i].f] # e[sorts[i].f]} IN
    IF apart = {} THEN d.id < e.id
    ELSE LET s == sorts[Min(apart)] IN (d[s.f] < e[s.f]) = (s.dir = 1)

RunStage(docs, s) ==
    CASE s.kind = "match" -> SelectSeq(docs, LAMBDA d : Matches(s.match, d))
      [] s.kind = "sort" -> SortSeq(docs, LAMBDA d, e : SortedBefore(s.sorts, d, e))
      [] s.kind = "skip" -> SubSeq(docs, s.n + 1, Len(docs))
      [] s.kind = "limit" -> SubSeq(docs, 1, IF s.n < Len(docs) THEN s.n ELSE Len(docs))
      [] s.kind = "project" -> docs
ResultOf(stages) == FoldLeft(RunStage, Collection, stages)

(***************************************************************************)
(* Calls                                                                   *)
(***************************************************************************)

\* A pipeline built earlier is not of the builder as it is now.
Calls(next) ==
    /\ builderCalls < MaxBuilderCalls /\ dsl = NoFilter
    /\ builder' = next /\ builderCalls' = builderCalls + 1 /\ pipeline' = NotBuilt /\ UNCHANGED dsl

\* Where, Eq, Ne, Gt, Gte, Lt, Lte, In, Nin, Regex
AddFilter(e) == Calls([builder EXCEPT !.filters = Append(@, e)])
\* And, Or, Not, OrGroup, AndGroup
AddLogical(l) == Calls([builder EXCEPT !.logicals = Append(@, l)])
\* ElemMatch, All, Size
AddArrayExpr(a) == Calls([builder EXCEPT !.arrayExprs = Append(@, a)])
\* Sort, SortAscending, SortDescending
AddSort(s) == Calls([builder EXCEPT !.sorts = Append(@, s)])
SetSkip(n) == Calls([builder EXCEPT !.skip = n])
SetLimit(n) == Calls([builder EXCEPT !.limit = n])
\* Select, Exclude, Project
Select(f) == Calls([builder EXCEPT !.projection = @ \cup {f}])

BuildPipeline ==
    /\ dsl = NoFilter /\ pipeline = NotBuilt
    /\ pipeline' = Stages(BuildFilter(builder), builder.sorts, builder.skip, builder.limit, builder.projection)
    /\ builder' = [builder EXCEPT !.errors = @ + ErrorsOf(builder)]
    /\ UNCHANGED <<builderCalls, dsl>>

BuildPipelineFromDSL(f) ==
    /\ dsl = NoFilter /\ pipeline = NotBuilt /\ builder = NewQueryBuilder
    /\ dsl' = <<"pipeline", f>> /\ \E match \in ParseDSLFilter(f) : pipeline' = Stages(match, <<>>, 0, 0, {})
    /\ UNCHANGED <<builder, builderCalls>>

BuildFromDSL(f) ==
    /\ dsl = NoFilter /\ pipeline = NotBuilt /\ builder = NewQueryBuilder
    /\ dsl' = <<"builder", f>> /\ \E match \in MatchesFromDSL(f) : pipeline' = Stages(match, <<>>, 0, 0, {})
    /\ UNCHANGED <<builder, builderCalls>>

BuilderNext ==
    \/ \E e \in FilterExprs : AddFilter(e)
    \/ \E l \in LogicalExprs : AddLogical(l)
    \/ \E a \in ArrayExprs : AddArrayExpr(a)
    \/ \E s \in SortExprs : AddSort(s)
    \/ \E n \in SkipsAndLimits : SetSkip(n) \/ SetLimit(n)
    \/ Select("a") \/ BuildPipeline
    \/ \E f \in DslFilters : BuildPipelineFromDSL(f) \/ BuildFromDSL(f)

(***************************************************************************)
(* What was asked for                                                      *)
(***************************************************************************)

ExprHolds(e, d) == OpHolds(e.op, e.v, d[e.f])
RECURSIVE LogicalHolds(_, _)
LogicalHolds(l, d) ==
    LET parts == [i \in 1..Len(l.filters) |-> ExprHolds(l.filters[i], d)]
                   \o [i \in 1..Len(l.groups) |-> LogicalHolds(l.groups[i], d)]
    IN CASE l.type = "and" -> \A i \in DOMAIN parts : parts[i]
         [] l.type = "or" -> \E i \in DOMAIN parts : parts[i]
         [] l.type = "not" -> ~parts[1]

Asked(d) ==
    /\ \A i \in DOMAIN builder.filters : builder.filters[i].op \in MongoOps => ExprHolds(builder.filters[i], d)
    /\ \A i \in DOMAIN builder.logicals : LogicalHolds(builder.logicals[i], d)
    /\ \A i \in DOMAIN builder.arrayExprs : OpHolds(builder.arrayExprs[i].type, builder.arrayExprs[i].v, d[builder.arrayExprs[i].f])

\* Fields that calls on this builder put at the top of the document, with
\* how they do; and whether no call takes the place of another one: at most
\* one "or", and a field named twice only by comparisons that differ.
TopFields ==
    LET negations == SelectSeq(builder.logicals, LAMBDA l : l.type = "not") IN
       [i \in DOMAIN builder.filters |-> [f |-> builder.filters[i].f, how |-> builder.filters[i].op]]
    \o [i \in DOMAIN negations |-> [f |-> negations[i].filters[1].f, how |-> "not"]]
    \o [i \in DOMAIN builder.arrayExprs |-> [f |-> builder.arrayExprs[i].f, how |-> "array"]]
NoClash ==
    /\ \A i, j \in DOMAIN TopFields : i # j /\ TopFields[i].f = TopFields[j].f =>
          TopFields[i].how # TopFields[j].how /\ {TopFields[i].how, TopFields[j].how} \cap {"eq", "regex", "not", "array"} = {}
    /\ Cardinality({i \in DOMAIN builder.logicals : builder.logicals[i].type = "or"}) <= 1

AskedWindow ==
    LET ordered == SortSeq(SelectSeq(Collection, Asked), LAMBDA d, e : SortedBefore(builder.sorts, d, e))
        to == IF builder.limit = 0 THEN Len(ordered) ELSE builder.skip + builder.limit
    IN SubSeq(ordered, builder.skip + 1, IF to < Len(ordered) THEN to ELSE Len(ordered))

RECURSIVE DslHolds(_, _)
DslHolds(f, d) == \A k \in DOMAIN f :
    CASE k = "and" -> \A i \in DOMAIN f[k].items : DslHolds(f[k].items[i], d)
      [] k = "or" -> \E i \in DOMAIN f[k].items : DslHolds(f[k].items[i], d)
      [] k = "not" -> ~DslHolds(f[k].of, d)
      [] OTHER -> CondHolds(k, f[k], d)

\* Whether every "not" of a filter negates one field, which the filter around
\* it does not name again.
RECURSIVE NotStandsAlone(_)
NotStandsAlone(f) ==
    /\ "not" \in DOMAIN f => /\ Cardinality(DOMAIN f["not"].of) = 1 /\ DOMAIN f["not"].of \cap DOMAIN f = {}
                              /\ NotStandsAlone(f["not"].of)
    /\ \A k \in DOMAIN f \cap {"and", "or"} : \A i \in DOMAIN f[k].items : NotStandsAlone(f[k].items[i])

\* Filters that BuildFromDSL can end up putting on one field: those of the
\* filter itself, of its "not" and of the items of its "and"
OnOneField(f, k) ==
    LET docs == <<f>> \o (IF "not" \in DOMAIN f THEN <<f["not"].of>> ELSE <<>>)
                      \o (IF "and" \in DOMAIN f THEN f["and"].items ELSE <<>>)
    IN SelectSeq(docs, LAMBDA d : k \in DOMAIN d)
GivesValue(c) == c.t = "value" \/ (c.t = "ops" /\ "eq" \in DOMAIN c.ops)

MatchOf(stages) == IF stages # <<>> /\ stages[1].kind = "match" THEN stages[1].match ELSE EmptyDoc
RangeOf(s) == {s[i] : i \in DOMAIN s}
Found == {d \in RangeOf(Collection) : Matches(MatchOf(pipeline), d)}
Meant(f) == {d \in RangeOf(Collection) : DslHolds(f, d)}

CallsMeant ==
    /\ \A d \in RangeOf(Collection) : Asked(d) => d \in Found
    /\ NoClash => ResultOf(pipeline) = AskedWindow
PipelineFilterMeant(f) == NotStandsAlone(f) => Found = Meant(f)
BuilderFilterMeant(f) ==
    "or" \notin DOMAIN f /\ NotStandsAlone(f) =>
        /\ (\A k \in {"a", "b"} : Len(OnOneField(f, k)) <= 1) => Found = Meant(f)
        /\ (\A k \in {"a", "b"} : Len(SelectSeq(OnOneField(f, k), LAMBDA d : GivesValue(d[k]))) <= 1) => Found \subseteq Meant(f)

\* A pipeline the server accepts returns every document that satisfies all
\* that the caller asked for, and only those, in the order and window asked
\* for, unless one call took the place of another; when one did, the filter
\* still lets every asked-for document through. BuildPipelineFromDSL finds
\* what its filter says when each "not" negates one field of its own.
\* BuildFromDSL does so, moreover, only for filters without "or" that name no
\* field twice. When a field is named twice, it may find less than the filter
\* says ($eq is given a document, which nothing equals) and never more, as
\* long as the filter asks the field to equal at most one value.
PipelineMeansCalls ==
    pipeline # NotBuilt /\ ~Refused(MatchOf(pipeline)) =>
        CASE dsl = NoFilter -> CallsMeant
          [] dsl # NoFilter /\ dsl[1] = "pipeline" -> PipelineFilterMeant(dsl[2])
          [] dsl # NoFilter /\ dsl[1] = "builder" -> BuilderFilterMeant(dsl[2])
=============================================================================
