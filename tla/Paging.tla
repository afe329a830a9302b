------------------------------- MODULE Paging -------------------------------
(***************************************************************************)
(* internal/pagination over SQL and internal/database/mongodb/repository:  *)
(* a client walks through a table page by page, by offset or by cursor,    *)
(* while rows are inserted and deleted. A row is its id; KeyOf gives its   *)
(* value in the other field that it can be ordered by.                     *)
(***************************************************************************)
EXTENDS Integers, FiniteSets, Sequences, SequencesExt

CONSTANTS
    PageID, FirstRows,          \* ids of rows; those at the start
    KeyOf,                      \* KeyOf[i]: the field beside the id
    Limits,                     \* limits a client may ask for
    DefaultLimit, MaxLimit,     \* of a page
    MaxPages,                   \* bound: pages a client fetches
    MaxTableWrites              \* bound: inserts and deletes

PageAssumption ==
    /\ IsFiniteSet(PageID) /\ PageID \subseteq Int /\ FirstRows \subseteq PageID /\ KeyOf \in [PageID -> Int]
    /\ Limits \subseteq Int /\ DefaultLimit \in Nat \ {0} /\ MaxLimit \in Nat \ {0}
    /\ MaxPages \in Nat /\ MaxTableWrites \in Nat

VARIABLES
    tableRows,  \* rows of the table
    walk,       \* the client's walk: how it pages, and the pages so far
    steady,     \* rows that were there at the first page and still are
    tableWrites \* inserts and deletes

pageVars == <<tableRows, walk, steady, tableWrites>>

Plan == [store : {"sql", "mongo"}, style : {"offset", "cursor"}, by : {"id", "key"}, desc : BOOLEAN,
         where : {"none", "and", "or", "groups"}]
NoWalk == [at |-> "none"]
Walk == [at : {"walk", "back"}, plan : Plan, limit : Nat \ {0}, pages : Seq(Seq(PageID)), more : BOOLEAN,
         quiet : BOOLEAN, back : Seq(PageID)]

ValueOf(by, i) == IF by = "id" THEN i ELSE KeyOf[i]

PageTypeOK ==
    /\ tableRows \subseteq PageID /\ steady \subseteq tableRows /\ tableWrites \in 0..MaxTableWrites
    /\ walk \in Walk \union {NoWalk}

PageInit == tableRows = FirstRows /\ walk = NoWalk /\ steady = {} /\ tableWrites = 0

\* Validate of a PageRequest
Validated(limit) == IF limit < 1 THEN DefaultLimit ELSE IF limit > MaxLimit THEN MaxLimit ELSE limit

\* Rows that the client's filter admits: "and" and "or" hold one condition
\* on the key, "groups" holds it in a nested clause.
Admits(where, i) == where # "none" => KeyOf[i] = 1

\* Lists of S in the order asked for; the database is free in how it orders
\* rows with equal values.
Orderings(S, by, desc) ==
    {s \in SetToSeqs(S) : \A j, k \in 1..Len(s) :
        j < k => IF desc THEN ValueOf(by, s[j]) >= ValueOf(by, s[k]) ELSE ValueOf(by, s[j]) <= ValueOf(by, s[k])}

\* buildCursorCondition: whether row i is behind (or before) a cursor.
BuildCursorCondition(plan, cursor, i, before) ==
    IF plan.desc # before THEN ValueOf(plan.by, i) < cursor.value ELSE ValueOf(plan.by, i) > cursor.value

\* appendCondition: the cursor becomes one more condition of the filter, and
\* is joined by the operator it has; nested groups are not copied.
AppendCondition(plan, cursor, i, before) ==
    LET c == BuildCursorCondition(plan, cursor, i, before) IN
    IF plan.where = "or" THEN Admits(plan.where, i) \/ c
    ELSE (plan.where # "groups" => Admits(plan.where, i)) /\ c

\* Wrong on purpose: the row the cursor was made from is admitted again.
MongoFromCursor(cursor, i, before) == IF before THEN i <= cursor.id ELSE i >= cursor.id
\* findWithCursorPagination compares ids, whatever the order asked for.
MongoCursorCondition(cursor, i, before) == IF before THEN i < cursor.id ELSE i > cursor.id

\* The rows a page is cut from.
Candidates(plan, cursor, before) ==
    {i \in tableRows :
        IF cursor = NoWalk THEN Admits(plan.where, i)
        ELSE IF plan.store = "sql" THEN AppendCondition(plan, cursor, i, before)
        ELSE Admits(plan.where, i) /\ MongoCursorCondition(cursor, i, before)}

\* A page is the first of at most limit + 1 rows fetched.
Page(list, limit) == SubSeq(list, 1, IF Len(list) > limit THEN limit ELSE Len(list))

\* buildCursor of row i, and what DecodeCursor reads back: the id as text,
\* the value through JSON, which keeps text and the integers up to 2^53 that
\* an id or a key of the model stands for.
BuildCursor(plan, i) == [id |-> i, value |-> ValueOf(plan.by, i)]

\* The first request; its limit is checked.
StartWalk(plan, limit) ==
    /\ walk = NoWalk
    /\ walk' = [at |-> "walk", plan |-> plan, limit |-> Validated(limit), pages |-> <<>>, more |-> TRUE, quiet |-> TRUE, back |-> <<>>]
    /\ steady' = tableRows /\ UNCHANGED <<tableRows, tableWrites>>

\* executeOffset, findWithOffsetPagination
NextByOffset(list) ==
    LET w == walk
        rest == SubSeq(list, Len(w.pages) * w.limit + 1, Len(list)) IN
    /\ w.at = "walk" /\ w.plan.style = "offset" /\ w.more /\ Len(w.pages) < MaxPages
    /\ walk' = [w EXCEPT !.pages = Append(@, Page(rest, w.limit)), !.more = Len(rest) > w.limit]
    /\ UNCHANGED <<tableRows, steady, tableWrites>>

\* executeCursor, findWithCursorPagination with the cursor of the last page;
\* without rows there is none.
CursorOfLast ==
    IF walk.pages = <<>> THEN NoWalk ELSE BuildCursor(walk.plan, Last(Last(walk.pages)))
NextByCursor(list) ==
    /\ walk.at = "walk" /\ walk.plan.style = "cursor" /\ walk.more /\ Len(walk.pages) < MaxPages
    /\ walk' = [walk EXCEPT !.pages = Append(@, Page(list, walk.limit)), !.more = Len(list) > walk.limit]
    /\ UNCHANGED <<tableRows, steady, tableWrites>>

\* Before the first row of the last page: the document store fetches in the
\* opposite order and turns the page round, the SQL paginator does not.
BackByCursor(list) ==
    /\ walk.at = "walk" /\ walk.plan.style = "cursor" /\ Len(walk.pages) > 1
    /\ walk' = [walk EXCEPT !.at = "back",
                            !.back = IF walk.plan.store = "mongo" THEN Reverse(Page(list, walk.limit)) ELSE Page(list, walk.limit)]
    /\ UNCHANGED <<tableRows, steady, tableWrites>>

InsertRow(i) ==
    /\ i \notin tableRows \union FirstRows /\ tableWrites < MaxTableWrites
    /\ tableRows' = tableRows \union {i} /\ tableWrites' = tableWrites + 1
    /\ walk' = IF walk = NoWalk THEN walk ELSE [walk EXCEPT !.quiet = FALSE]
    /\ UNCHANGED steady
DeleteRow(i) ==
    /\ i \in tableRows /\ tableWrites < MaxTableWrites
    /\ tableRows' = tableRows \ {i} /\ steady' = steady \ {i} /\ tableWrites' = tableWrites + 1
    /\ walk' = IF walk = NoWalk THEN walk ELSE [walk EXCEPT !.quiet = FALSE]

PageNext ==
    \/ \E plan \in Plan, limit \in Limits : StartWalk(plan, limit)
    \/ /\ walk # NoWalk /\ walk.plan.style = "offset"
       /\ \E list \in Orderings(Candidates(walk.plan, NoWalk, FALSE), walk.plan.by, walk.plan.desc) : NextByOffset(list)
    \/ /\ walk # NoWalk /\ walk.plan.style = "cursor" /\ (walk.pages # <<>> => Last(walk.pages) # <<>>)
       /\ \E list \in Orderings(Candidates(walk.plan, CursorOfLast, FALSE), walk.plan.by, walk.plan.desc) : NextByCursor(list)
    \/ /\ walk # NoWalk /\ walk.plan.style = "cursor" /\ walk.pages # <<>> /\ Last(walk.pages) # <<>>
       /\ \E list \in Orderings(Candidates(walk.plan, BuildCursor(walk.plan, Head(Last(walk.pages))), TRUE), walk.plan.by,
                                IF walk.plan.store = "mongo" THEN ~walk.plan.desc ELSE walk.plan.desc) : BackByCursor(list)
    \/ \E i \in PageID : InsertRow(i) \/ DeleteRow(i)

PageSpec == PageInit /\ [][PageNext]_pageVars

-----------------------------------------------------------------------------
\* Row i comes before row j in an order.
Precedes(by, desc, i, j) == IF desc THEN ValueOf(by, i) > ValueOf(by, j) ELSE ValueOf(by, i) < ValueOf(by, j)

\* No two rows are equal in the field of the order.
NoTies(by) == \A i, j \in PageID : i # j => ValueOf(by, i) # ValueOf(by, j)

\* Plans under which a walk by cursor is well defined: no two rows are equal in
\* the field, and the condition on the cursor is a conjunct of the filter and is
\* about the field and the direction of the order.
FollowsOrder(plan) ==
    /\ NoTies(plan.by)
    /\ plan.store = "sql" => plan.where \notin {"or", "groups"}
    /\ plan.store = "mongo" => plan.by = "id" /\ ~plan.desc

\* Within a page and from page to page, every row comes before the next.
PagesInOrder(by, desc, pages) ==
    \A n \in DOMAIN pages :
        /\ \A j, k \in DOMAIN pages[n] : j < k => Precedes(by, desc, pages[n][j], pages[n][k])
        /\ \A m \in 1..(n - 1) : \A i \in ToSet(pages[m]), j \in ToSet(pages[n]) : Precedes(by, desc, i, j)

Seen(pages) == UNION {ToSet(pages[n]) : n \in DOMAIN pages}

\* A walk by cursor in such an order returns no row twice and, when it has
\* ended, has returned every row that was there all the time, in order,
\* whatever was inserted and deleted meanwhile; a walk by offset does so when
\* nothing is written; and the page before the last one is, in the document
\* store, the page that the walk came from (executeCursor, executeOffset,
\* findWithCursorPagination, findWithOffsetPagination).
PagesComplete ==
    /\ PageTypeOK
    /\ walk # NoWalk =>
        LET plan == walk.plan
            sound == IF plan.style = "cursor" THEN FollowsOrder(plan) ELSE walk.quiet /\ NoTies(plan.by) IN
        sound =>
            /\ PagesInOrder(plan.by, plan.desc, walk.pages)
            /\ ~walk.more => {i \in steady : Admits(plan.where, i)} \subseteq Seen(walk.pages)
            /\ walk.at = "back" /\ walk.quiet /\ plan.store = "mongo" => walk.back = walk.pages[Len(walk.pages) - 1]
=============================================================================
