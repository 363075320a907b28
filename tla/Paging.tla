-------------------------------- MODULE Paging --------------------------------
(***************************************************************************)
(* Reading a result page by page.  Nothing is kept between two pages but   *)
(* the token the window sends back, while other clients change the table.  *)
(* SQL, Mongo's find and aggregate go by sort keys, D1 by offset, the      *)
(* bounded DynamoDB call spends a budget over several pages of the         *)
(* service, DynamoDB's table list filters those pages, and a Redis scan    *)
(* has one cursor per node.                                                *)
(* Source: src/internal/console sql_execute.go, sql_paging_*.go,           *)
(* sql_limit.go, mongo_execute_find.go, mongo_execute_aggregate.go,        *)
(* d1_adapter.go, dynamodb_adapter.go, redis_adapter.go.                   *)
(***************************************************************************)
EXTENDS Naturals, FiniteSets, Sequences, SequencesExt

CONSTANTS
    PgRows,      \* rows there may be: numbers in the order of the sort
    PgMax,       \* DefaultLimit
    PgSizes,     \* page sizes asked for; 0 is none
    PgLimits,    \* LIMITs of a statement; 0 is none
    PgChanges,   \* bound: changes by other clients
    PgNodes,     \* nodes of the Redis cluster
    PgSlots      \* scan steps of a node

ASSUME PagingAssumption ==
    /\ PgRows \subseteq Nat \ {0} /\ IsFiniteSet(PgRows)
    /\ PgMax \in Nat \ {0} /\ PgSizes \subseteq Nat /\ PgLimits \subseteq Nat /\ PgChanges \in Nat
    /\ PgSlots \in [PgNodes -> Nat \ {0}]

VARIABLES
    pgQuery,     \* the statement: its kind, LIMIT, order, rows it picks, and text
    pgTable,     \* the rows there are
    pgPage,      \* the page shown: rows, tokens, and how it came
    pgWalk,      \* history: rows shown since the first page, see Shows
    pgCall,      \* the DynamoDB call under way
    pgScan,      \* the Redis cursor: step of each node, keys shown
    pgChanged    \* changes so far
pgvars == <<pgQuery, pgTable, pgPage, pgWalk, pgCall, pgScan, pgChanged>>

NoToken == [at |-> "none"]
NoPage == [state |-> "none", rows |-> <<>>, next |-> NoToken, prev |-> NoToken]
NoCall == [pc |-> "idle"]

Keyset == {"sql", "find", "aggregate"}

(* Rows of one key, where the statement's ORDER BY is not unique. *)
Key(r) == IF pgQuery.order = "ties" THEN (r + 1) \div 2 ELSE r

(* clampPageSize, with no size for the largest. *)
ClampPageSize(size) == IF size = 0 \/ size > PgMax THEN PgMax ELSE size

ResolveTotalLimit(limit) == IF limit = 0 THEN PgMax ELSE limit

Less(a, b) == IF a < b THEN a ELSE b

\* Mutant: the row that tells whether there are more is not fetched.
FetchExact(size, total, offset) == IF total <= offset THEN 0 ELSE Less(size, total - offset)
FetchLimit(size, total, offset) == IF total <= offset THEN 0 ELSE Less(size + 1, total - offset)

PrevOffset(offset, size) == IF offset < size THEN 0 ELSE offset - size

(* The keyset predicate.  In SQL it follows the statement's WHERE after an
   AND: the rows a top-level OR lets in pass whatever the cursor. *)
Beyond(r, cursor, dir) ==
    \/ cursor = 0
    \/ IF dir = "prev" THEN Key(r) < cursor ELSE Key(r) > cursor
    \/ pgQuery.kind = "sql" /\ r \in pgQuery.pick

(* The database's answer; rows of one key come in any fixed order. *)
Ordered(S) == [i \in 1 .. Cardinality(S) |-> CHOOSE r \in S : Cardinality({x \in S : x < r}) = i - 1]
Answered(cursor, dir, n) ==
    LET all == Ordered({r \in pgTable : Beyond(r, cursor, dir)})
        seq == IF dir = "prev" THEN Reverse(all) ELSE all
    IN  SubSeq(seq, 1, Less(n, Len(seq)))

Token(size, total, offset, rows, dir) ==
    [at |-> "key", text |-> pgQuery.text, size |-> size, total |-> total, offset |-> offset, dir |-> dir,
     start |-> Key(rows[1]), end |-> Key(rows[Len(rows)])]

(* A page shown, and what the walk knows of it. *)
Shows(how, rows, next, prev) ==
    /\ pgPage' = [state |-> how, rows |-> rows, next |-> next, prev |-> prev]
    /\ pgWalk' =
         CASE how = "first" -> [shown |-> rows, stable |-> IF pgCall = NoCall THEN pgTable ELSE pgCall.since,
                                still |-> TRUE, forward |-> TRUE, prior |-> <<>>, back |-> rows]
           [] how = "next" -> [pgWalk EXCEPT !.shown = IF pgWalk.forward THEN @ \o rows ELSE <<>>,
                                             !.prior = pgPage.rows, !.back = rows]
           [] how = "prev" -> [pgWalk EXCEPT !.forward = FALSE, !.shown = <<>>, !.stable = {}, !.prior = <<>>,
                                 !.back = IF pgPage.state = "next" /\ pgWalk.still THEN pgWalk.prior ELSE rows]
Fails ==
    /\ pgPage' = [NoPage EXCEPT !.state = "failed"]
    /\ UNCHANGED pgWalk

(* A statement with an OFFSET (or a skip), or without sort keys, is shown in
   one window with no token. *)
OneWindow ==
    LET limit == ResolveTotalLimit(pgQuery.limit)
    IN  Shows("first", Answered(0, "next", limit), NoToken, NoToken)

FirstByKey(asked) ==
    LET size == ClampPageSize(asked)
        total == ResolveTotalLimit(pgQuery.limit)
        got == Answered(0, "next", FetchLimit(size, total, 0))
        rows == SubSeq(got, 1, Less(size, Len(got)))
        more == Len(got) > size /\ Len(rows) < total
    IN  Shows("first", rows, IF more THEN Token(size, total, Len(rows), rows, "next") ELSE NoToken, NoToken)

\* Mutant: the next page begins after the first row of this one.
CursorSwapped(token) == IF token.dir = "prev" THEN token.end ELSE token.start
Cursor(token) == IF token.dir = "prev" THEN token.start ELSE token.end

(* The page of a token: a token of another statement is refused, and the
   tokens of the answer go by the offset, not by what the database says. *)
ByKey(token, how) ==
    LET got == Answered(Cursor(token), token.dir, FetchLimit(token.size, token.total, token.offset))
        cut == SubSeq(got, 1, Less(token.size, Len(got)))
        rows == IF token.dir = "prev" THEN Reverse(cut) ELSE cut
        more == Len(got) > token.size
        after == token.offset + Len(rows)
        forward == after < token.total /\ (token.dir = "prev" \/ more)
        backward == token.offset > 0 /\ (token.dir = "next" \/ more)
        T(offset, dir) == Token(token.size, token.total, offset, rows, dir)
    IN  IF token.text # pgQuery.text THEN Fails
        ELSE Shows(how, rows,
                   IF forward /\ rows # <<>> THEN T(after, "next") ELSE NoToken,
                   IF backward /\ rows # <<>> THEN T(PrevOffset(token.offset, token.size), "prev") ELSE NoToken)

Kind(k) == pgQuery.kind = k
Rest == UNCHANGED <<pgQuery, pgTable, pgCall, pgScan, pgChanged>>
AtStart == pgPage.state \in {"none", "failed"}

SqlFirst == Kind("sql") /\ AtStart /\ Rest /\ IF pgQuery.window THEN OneWindow ELSE \E s \in PgSizes : FirstByKey(s)
FindFirst == Kind("find") /\ AtStart /\ Rest /\ IF pgQuery.window THEN OneWindow ELSE \E s \in PgSizes : FirstByKey(s)
AggregateFirst == Kind("aggregate") /\ AtStart /\ Rest /\ \E s \in PgSizes : FirstByKey(s)

Turns(Page(_, _)) ==
    \/ pgPage.next # NoToken /\ Page(pgPage.next, "next")
    \/ pgPage.prev # NoToken /\ Page(pgPage.prev, "prev")
SqlToken == Kind("sql") /\ Rest /\ Turns(ByKey)
FindToken == Kind("find") /\ Rest /\ Turns(ByKey)
AggregateToken == Kind("aggregate") /\ Rest /\ Turns(ByKey)

(* D1 asks for one row more than the page from an offset. *)
AtOffset(size, offset, how) ==
    LET all == Ordered(pgTable)
        got == SubSeq(all, Less(offset + 1, Len(all) + 1), Less(offset + size + 1, Len(all)))
        rows == SubSeq(got, 1, Less(size, Len(got)))
        T(o) == [at |-> "offset", text |-> pgQuery.text, size |-> size, offset |-> o]
    IN  Shows(how, rows, IF Len(got) > size THEN T(offset + Len(rows)) ELSE NoToken,
                         IF offset > 0 THEN T(PrevOffset(offset, size)) ELSE NoToken)
OffsetToken(token, how) ==
    IF token.text # pgQuery.text THEN Fails ELSE AtOffset(token.size, token.offset, how)

D1Query ==
    /\ Kind("d1") /\ Rest
    /\ \/ AtStart /\ pgQuery.limit > 0
          /\ LET all == Ordered(pgTable) IN Shows("first", SubSeq(all, 1, Less(pgQuery.limit, Len(all))), NoToken, NoToken)
       \/ AtStart /\ pgQuery.limit = 0 /\ \E s \in PgSizes : AtOffset(ClampPageSize(s), 0, "first")
       \/ Turns(OffsetToken)

(* The lists of tables and views: names beyond the last one shown. *)
ListPage(limit, cursor, how) ==
    LET got == Answered(cursor, "next", limit + 1)
        rows == SubSeq(got, 1, Less(limit, Len(got)))
    IN  Shows(how, rows, IF Len(got) > limit THEN [at |-> "name", limit |-> limit, end |-> rows[limit]] ELSE NoToken, NoToken)
ListEntitiesPage ==
    /\ Kind("entities") /\ Rest
    /\ \/ AtStart /\ \E s \in PgSizes \ {0} : ListPage(s, 0, "first")
       \/ pgPage.next # NoToken /\ ListPage(pgPage.next.limit, pgPage.next.end, "next")

(* A page of the DynamoDB service: the next n items, and where it stopped
   unless it knows that it is at the end. *)
Evaluated(after, n) ==
    LET all == Ordered({r \in pgTable : r > after}) IN SubSeq(all, 1, Less(n, Len(all)))
Stopped(after, n) ==
    LET got == Evaluated(after, n)
    IN  IF \E r \in pgTable : r > after /\ r \notin ToSet(got) THEN {got[Len(got)]}
        ELSE {0} \cup {got[k] : k \in {Len(got)} \ {0}}

(* executeBounded: the budget counts what was asked for, since the service
   does not tell what it evaluated. *)
Bounds(rows, pages, items) == [rows |-> rows, pages |-> pages, items |-> items]
Capped(n) == IF pgQuery.limit = 0 THEN n ELSE Less(n, pgQuery.limit)
BoundedBegin ==
    /\ Kind("bounded") /\ pgCall = NoCall /\ (AtStart \/ pgPage.next # NoToken)
    /\ \E size \in PgSizes \ {0}, rows \in {1, 2}, pages \in {1, 2}, items \in {1, 3} :
         pgCall' = [pc |-> "page", size |-> Capped(size), bounds |-> Bounds(Capped(rows), pages, Capped(items)),
                    rows |-> <<>>, pages |-> 0, spent |-> 0, evaluated |-> 0,
                    after |-> IF AtStart THEN 0 ELSE pgPage.next.end,
                    how |-> IF AtStart THEN "first" ELSE "next", since |-> pgTable]
    /\ UNCHANGED <<pgQuery, pgTable, pgPage, pgWalk, pgScan, pgChanged>>

\* Mutant: a page asks for its full size whatever is left.
RequestFull(c) == c.size
RequestLimit(c) == Less(c.size, Less(c.bounds.items - c.spent, c.bounds.rows - Len(c.rows)))
Exhausted(c) == c.pages >= c.bounds.pages \/ Len(c.rows) >= c.bounds.rows \/ c.spent >= c.bounds.items

BoundedPage ==
    /\ pgCall.pc = "page" /\ Kind("bounded") /\ ~Exhausted(pgCall)
    /\ LET c == pgCall
           got == Evaluated(c.after, RequestLimit(c))
           hits == Ordered(ToSet(got) \cap pgQuery.pick)
           room == SubSeq(hits, 1, Less(Len(hits), c.bounds.rows - Len(c.rows)))
       IN  \E stop \in Stopped(c.after, RequestLimit(c)) :
             pgCall' = [c EXCEPT !.rows = @ \o room, !.pages = @ + 1, !.spent = @ + RequestLimit(c),
                                 !.evaluated = @ + Len(got), !.after = stop, !.pc = IF stop = 0 THEN "done" ELSE "page"]
    /\ UNCHANGED <<pgQuery, pgTable, pgPage, pgWalk, pgScan, pgChanged>>

CallEnds(c, end) ==
    /\ Shows(c.how, c.rows, IF end = 0 THEN NoToken ELSE [at |-> "service", end |-> end], NoToken)
    /\ pgCall' = NoCall
    /\ UNCHANGED <<pgQuery, pgTable, pgScan, pgChanged>>
BoundedEnd ==
    /\ Kind("bounded") /\ pgCall # NoCall /\ (pgCall.pc = "done" \/ Exhausted(pgCall))
    /\ CallEnds(pgCall, pgCall.after)

(* DynamoDB's table list with a pattern: pages of the service until there
   are enough names; a page may be left in the middle. *)
TablesBegin ==
    /\ Kind("tables") /\ pgCall = NoCall /\ (AtStart \/ pgPage.next # NoToken)
    /\ \E limit \in PgSizes \ {0} :
         pgCall' = [pc |-> "page", size |-> limit, rows |-> <<>>, after |-> IF AtStart THEN 0 ELSE pgPage.next.end,
                    how |-> IF AtStart THEN "first" ELSE "next", since |-> pgTable]
    /\ UNCHANGED <<pgQuery, pgTable, pgPage, pgWalk, pgScan, pgChanged>>

\* Mutant: the rest of the service's page is passed over.
ResumeAfterPage(hits, rest, stop) == stop
ResumeAt(hits, rest, stop) == IF rest # {} THEN hits[Len(hits)] ELSE stop
TablesPage ==
    /\ pgCall.pc = "page" /\ Kind("tables")
    /\ LET c == pgCall
           got == Evaluated(c.after, c.size)
           hits == Ordered(ToSet(got) \cap pgQuery.pick)
           room == SubSeq(hits, 1, Less(Len(hits), c.size - Len(c.rows)))
           rest == ToSet(hits) \ ToSet(room)
           next == [c EXCEPT !.rows = @ \o room]
       IN  \E stop \in Stopped(c.after, c.size) :
             IF Len(next.rows) = c.size THEN CallEnds(next, ResumeAt(room, rest, stop))
             ELSE IF stop = 0 THEN CallEnds(next, 0)
             ELSE /\ pgCall' = [next EXCEPT !.after = stop]
                  /\ UNCHANGED <<pgQuery, pgTable, pgPage, pgWalk, pgScan, pgChanged>>

(* ScanKeys on a cluster: each node goes some steps on from its cursor, and
   a node that was through begins again while another is not. *)
ScanKeys ==
    /\ Kind("keys") /\ ~pgScan.done
    /\ \E loops \in {1, 2} :
         LET From(n) == pgScan.at[n]
             To(n) == Less(From(n) + loops, PgSlots[n])
             at == [n \in PgNodes |-> To(n) % PgSlots[n]]
         IN  pgScan' = [at |-> at, done |-> \A n \in PgNodes : at[n] = 0,
                        keys |-> pgScan.keys \cup UNION {{<<n, k>> : k \in From(n) + 1 .. To(n)} : n \in PgNodes}]
    /\ UNCHANGED <<pgQuery, pgTable, pgPage, pgWalk, pgCall, pgChanged>>

(* Another client inserts or deletes a row; the user edits the statement. *)
PgChange ==
    /\ pgChanged < PgChanges /\ ~Kind("keys")
    /\ \E r \in PgRows :
         /\ pgTable' = IF r \in pgTable THEN pgTable \ {r} ELSE pgTable \cup {r}
         /\ pgWalk' = [pgWalk EXCEPT !.stable = @ \ {r}, !.still = FALSE]
         /\ pgCall' = IF pgCall = NoCall THEN NoCall ELSE [pgCall EXCEPT !.since = @ \ {r}]
    /\ pgChanged' = pgChanged + 1
    /\ UNCHANGED <<pgQuery, pgPage, pgScan>>
EditStatement ==
    /\ pgQuery.text = 1 /\ pgPage.next # NoToken /\ pgPage.next.at \in {"key", "offset"}
    /\ pgQuery' = [pgQuery EXCEPT !.text = 2]
    /\ UNCHANGED <<pgTable, pgPage, pgWalk, pgCall, pgScan, pgChanged>>

PgKinds == Keyset \cup {"d1", "entities", "bounded", "tables", "keys"}
PgQueries ==
    {q \in [kind : PgKinds, limit : PgLimits, order : {"unique", "ties"}, window : BOOLEAN,
            pick : {{}, PgRows, {r \in PgRows : r % 4 # 1}}, text : {1}] :
       /\ q.window => q.kind \in {"sql", "find"} /\ q.order = "unique"
       /\ q.order = "ties" => q.kind \in Keyset
       /\ q.limit > 0 => q.kind \in Keyset \cup {"d1", "bounded"}
       /\ q.kind \in {"bounded", "tables"} => q.pick # {}
       /\ q.kind = "sql" => q.pick # PgRows
       /\ q.kind \notin {"sql", "bounded", "tables"} => q.pick = {}}

PgInit ==
    /\ pgQuery \in PgQueries
    /\ pgTable \in {PgRows, {r \in PgRows : r > 1}}
    /\ pgPage = NoPage
    /\ pgWalk = [shown |-> <<>>, stable |-> {}, still |-> TRUE, forward |-> TRUE, prior |-> <<>>, back |-> <<>>]
    /\ pgCall = NoCall
    /\ pgScan = [at |-> [n \in PgNodes |-> 0], done |-> FALSE, keys |-> {}]
    /\ pgChanged = 0

PgNext ==
    \/ SqlFirst \/ FindFirst \/ AggregateFirst
    \/ SqlToken \/ FindToken \/ AggregateToken
    \/ D1Query \/ ListEntitiesPage
    \/ BoundedBegin \/ BoundedPage \/ BoundedEnd
    \/ TablesBegin \/ TablesPage
    \/ ScanKeys
    \/ PgChange \/ EditStatement

PgSpec == PgInit /\ [][PgNext]_pgvars

-----------------------------------------------------------------------------

(* Of the statements whose pages promise something: unique keys, and for SQL
   no OR beside the cursor. *)
Exact == pgQuery.order = "unique" /\ (Kind("sql") => pgQuery.pick = {})
Asked == IF pgQuery.kind \in {"bounded", "tables"} THEN pgQuery.pick ELSE PgRows

(* A walk of next pages that has come to its end has shown, once each and in
   order, every row that was there all along, up to the statement's LIMIT,
   whatever others inserted or deleted meanwhile; D1's offsets promise it of
   a table that stands still.  A page back from the second shows the first
   again, and no walk by key shows more rows than its LIMIT. *)
WalkCovers ==
    LET shown == pgWalk.shown
        total == ResolveTotalLimit(pgQuery.limit)
        full == pgQuery.kind \in Keyset /\ Len(shown) >= total
        through == pgPage.state \in {"first", "next"} /\ pgPage.next = NoToken
    IN  /\ Exact /\ pgWalk.forward /\ (Kind("d1") => pgWalk.still) =>
             /\ \A i, j \in DOMAIN shown : i < j => shown[i] < shown[j]
             /\ through /\ ~full /\ ~(Kind("d1") /\ pgQuery.limit > 0)
                  => pgWalk.stable \cap Asked \subseteq ToSet(shown)
        /\ pgQuery.kind \in Keyset /\ pgWalk.forward => Len(shown) <= total
        /\ pgPage.state = "prev" /\ Exact => pgPage.rows = pgWalk.back

(* A bounded call never asks the service for more than its budget, and a scan
   of a cluster that says it is through has seen every node whole. *)
BudgetsKept ==
    /\ pgCall.pc = "page" /\ Kind("bounded") =>
         /\ Len(pgCall.rows) <= pgCall.bounds.rows /\ pgCall.evaluated <= pgCall.bounds.items
         /\ pgCall.pages <= pgCall.bounds.pages
    /\ pgScan.done => pgScan.keys = UNION {{<<n, k>> : k \in 1 .. PgSlots[n]} : n \in PgNodes}

(* A walk over pages covers the rows, and no call passes its budget. *)
PagingSafe == WalkCovers /\ BudgetsKept
=============================================================================
