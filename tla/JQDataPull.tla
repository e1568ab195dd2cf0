---------------------------- MODULE JQDataPull -----------------------------
(***************************************************************************)
(* A pull of a data set from the JQData service                            *)
(* (zyquant.connectors.jqdata): a long series of calls, one after the      *)
(* other, any of which may time out, be refused or return something        *)
(* malformed.  Members of an index and industries are asked for day by day *)
(* and kept as intervals; finance tables are read page by page while the   *)
(* service goes on to add rows to them.                                    *)
(*                                                                         *)
(* The service is a record of what it knows, see service.  Codes are        *)
(* numbers and so are days; a row of a finance table is an id and the code *)
(* it is about.  Column names, units and number formats are left out: what *)
(* is malformed fails its call.                                            *)
(***************************************************************************)
EXTENDS PointInTime, SequencesExt

CONSTANTS
    PullDays,       \* trade days of the request, which begins and ends on one of them
    Pulls,          \* what the service may hold and what may be asked of it
    MaxRetries,     \* max_retries of the request
    PageSize,       \* rows of a page, 5000 in the code
    MaxRows         \* BOUND: rows of a finance table

Tables == {"actions", "funds", "balance", "income", "cash_flow", "valuation", "capital"}
Within(row, day) == row.from <= day /\ (row.to = None \/ day <= row.to)

\* What is taken for granted of the service: a member of an index is listed, the rows of a
\* finance table are numbered, and a history of industries says what the daily answers say.
HistoryAgrees(s) ==
    /\ \A r \in s.history : r.from \in Nat /\ (r.to # None => r.to \in Nat /\ r.from <= r.to)
    /\ \A a, b \in s.history : a.code = b.code /\ a # b =>
            (a.to # None /\ a.to < b.from) \/ (b.to # None /\ b.to < a.from)
    /\ \A c \in s.stock, d \in PullDays :
            {r.value : r \in {h \in s.history : h.code = c /\ Within(h, d)}}
                = {s.industry[c][d]} \ {None}
ServiceKnows(s) ==
    /\ DOMAIN s = {"listed", "stock", "unmarked", "index", "industry", "history", "bars", "tables"}
    /\ IsFiniteSet(DOMAIN s.listed) /\ DOMAIN s.listed \subseteq Nat
    /\ \A d \in PullDays : \A c \in s.index[d] :
            c \in DOMAIN s.listed /\ s.listed[c].from <= d /\ d <= s.listed[c].to
    /\ DOMAIN s.tables = Tables
    /\ \A t \in Tables : IsFiniteSet(s.tables[t]) /\ \A r \in s.tables[t] : r.id \in Nat \ {0}
    /\ s.history # None => HistoryAgrees(s)

ASSUME PullAssumption ==
    /\ PullDays \subseteq Nat /\ PullDays # {} /\ IsFiniteSet(PullDays)
    /\ MaxRetries \in Nat /\ PageSize \in Nat \ {0}
    /\ \A p \in Pulls :
        /\ p.order.codes # {} /\ p.order.codes \subseteq DOMAIN p.service.listed
        /\ p.order.batch \in Nat \ {0} /\ ServiceKnows(p.service)

VARIABLES
    service,     \* the service: listed, stock, unmarked, index, industry, history, bars, tables
    order,      \* the request: codes, scope of prices, strict, scope of financials, batch;
                \* strict and batch are those of the financials as well
    stage,      \* which call comes next
    retried,    \* retries of this call
    today,      \* the day a daily call asks for
    spans,      \* [code -> value and first day of its open interval]
    members,    \* universe_membership
    catalog,    \* codes whose metadata was found
    lookups,    \* days on which those that are not listed any more are looked up
    bars,       \* daily_raw, <<code, day>>
    queries,    \* finance queries still to be made, of tables and codes
    cursor,     \* the highest id of the current query's pages
    fetched,    \* [table -> what was there when it was asked, and what was read]
    industries  \* industry_membership

pullVars == <<service, order, stage, retried, today, spans, members, catalog, lookups,
              bars, queries, cursor, fetched, industries>>

FirstDay == Min(PullDays)
LastDay == Max(PullDays)

PullInit ==
    /\ \E p \in Pulls : service = p.service /\ order = p.order
    /\ stage = "connect" /\ retried = 0 /\ today = FirstDay
    /\ spans = [c \in {} |-> 0] /\ members = {} /\ catalog = {} /\ lookups = {}
    /\ bars = {} /\ queries = <<>> /\ cursor = 0
    /\ fetched = [t \in Tables |-> [had |-> {}, got |-> {}]] /\ industries = {}

Reach(there) == stage' = there /\ retried' = 0

-----------------------------------------------------------------------------
(* Intervals from daily lists.                                              *)

YesterdayOf(day) == Max({d \in PullDays : d < day})

\* What is not seen any more, or with another value, ended on the trade day before.
\* Mutant: on the day it was missed.
EndedLate(seen, day) ==
    {[code |-> c, value |-> spans[c].value, from |-> spans[c].since, to |-> day] :
        c \in {k \in DOMAIN spans : k \notin DOMAIN seen \/ seen[k] # spans[k].value}}
Ended(seen, day) ==
    {[code |-> c, value |-> spans[c].value, from |-> spans[c].since, to |-> YesterdayOf(day)] :
        c \in {k \in DOMAIN spans : k \notin DOMAIN seen \/ seen[k] # spans[k].value}}

Continued(seen, day) ==
    [c \in DOMAIN seen |->
        IF c \in DOMAIN spans /\ spans[c].value = seen[c] THEN spans[c]
        ELSE [value |-> seen[c], since |-> day]]

\* What is seen on the last day goes on.
Unended(seen, day) ==
    LET open == Continued(seen, day)
    IN  {[code |-> c, value |-> open[c].value, from |-> open[c].since, to |-> None] :
            c \in DOMAIN open}

\* One day of such a loop: the intervals it adds, and whether it was the last.
DailyRows(seen) ==
    Ended(seen, today) \union (IF today = LastDay THEN Unended(seen, today) ELSE {})
NextDay ==
    /\ today' = IF today = LastDay THEN FirstDay ELSE Min({d \in PullDays : d > today})
    /\ retried' = 0

-----------------------------------------------------------------------------
(* The calls of a pull, in their order.                                     *)

Connect ==
    /\ stage = "connect" /\ Reach("calendar")
    /\ UNCHANGED <<service, order, today, spans, members, catalog, lookups, bars, queries,
                   cursor, fetched, industries>>

\* Privileges, query count and the trade days.
ReadCalendar ==
    /\ stage = "calendar" /\ Reach("universe")
    /\ UNCHANGED <<service, order, today, spans, members, catalog, lookups, bars, queries,
                   cursor, fetched, industries>>

ListMembers ==
    /\ stage = "universe"
    /\ LET seen == [c \in service.index[today] |-> "member"]
       IN  /\ members' = members \union DailyRows(seen)
           /\ spans' = IF today = LastDay THEN [c \in {} |-> 0] ELSE Continued(seen, today)
    /\ NextDay
    /\ stage' = IF today # LastDay THEN stage
                ELSE IF members' = {} THEN "refused" ELSE "catalog"
    /\ UNCHANGED <<service, order, catalog, lookups, bars, queries, cursor, fetched, industries>>

Everyone == {m.code : m \in members}
Required == order.codes \union Everyone
Scoped(scope) == IF scope = "universe" THEN Everyone ELSE order.codes
Priced == Scoped(order.prices)
ListedOn(c, day) == service.listed[c].from <= day /\ day <= service.listed[c].to

\* The day an instrument without metadata on the last day is looked up: its first day as a
\* member, or the first day of the request.
FirstSeen(c) ==
    IF c \in Everyone THEN Min({m.from : m \in {r \in members : r.code = c}}) ELSE FirstDay

ReadCatalog ==
    /\ stage = "catalog" /\ Reach("lookup")
    /\ catalog' = {c \in Required : ListedOn(c, LastDay)}
    /\ lookups' = {FirstSeen(c) : c \in Required \ catalog'}
    /\ UNCHANGED <<service, order, today, spans, members, bars, queries, cursor, fetched, industries>>

LookUp ==
    /\ stage = "lookup" /\ lookups # {} /\ retried' = 0
    /\ LET day == Min(lookups)
       IN  /\ catalog' = catalog \union {c \in Required : FirstSeen(c) = day /\ ListedOn(c, day)}
           /\ lookups' = lookups \ {day}
    /\ UNCHANGED <<service, order, stage, today, spans, members, bars, queries, cursor, fetched,
                   industries>>

\* Queries in batches of the sorted codes, as many as it takes.
Sorted(codes) ==
    [n \in 1 .. Cardinality(codes) |->
        CHOOSE c \in codes : Cardinality({o \in codes : o < c}) = n - 1]
Batches(n) == Min({k \in 0 .. n : k * order.batch >= n})
BatchesOf(codes) ==
    LET sorted == Sorted(codes)
    IN  [n \in 1 .. Batches(Len(sorted)) |->
            Restrict(sorted, (order.batch * (n - 1) + 1 .. order.batch * n) \intersect DOMAIN sorted)]
Asked(query) == {query.codes[i] : i \in DOMAIN query.codes}
Queries(table, codes) ==
    [n \in DOMAIN BatchesOf(codes) |-> [table |-> table, codes |-> BatchesOf(codes)[n]]]

\* An instrument is missing, the settlement of a fund cannot be told from its name, or the
\* prices are next.
CatalogDone ==
    /\ stage = "lookup" /\ lookups = {}
    /\ Reach(IF ~ Required \subseteq catalog THEN "missing"
             ELSE IF order.strict /\ Required \intersect service.unmarked # {} THEN "refused"
             ELSE "prices")
    /\ queries' = Queries("prices", Priced)
    /\ UNCHANGED <<service, order, today, spans, members, catalog, lookups, bars, cursor, fetched,
                   industries>>

\* A batch of bars; days without any price are dropped.
ReadPrices ==
    /\ stage = "prices" /\ queries # <<>> /\ retried' = 0
    /\ bars' = bars \union {b \in service.bars : b[1] \in Asked(Head(queries))}
    /\ queries' = Tail(queries)
    /\ UNCHANGED <<service, order, stage, today, spans, members, catalog, lookups, cursor, fetched,
                   industries>>

\* Both tables of corporate actions are asked for all codes at once.
PricesDone ==
    /\ stage = "prices" /\ queries = <<>>
    /\ Reach(IF bars = {} THEN "refused" ELSE "actions")
    /\ queries' = LET all == Sorted(Priced)
                  IN  <<[table |-> "actions", codes |-> all], [table |-> "funds", codes |-> all]>>
    /\ UNCHANGED <<service, order, today, spans, members, catalog, lookups, bars, cursor, fetched,
                   industries>>

\* The rows of a query, and its next page: the lowest ids above the cursor.
Matching(query) == {r \in service.tables[query.table] : r.code \in Asked(query)}
PageAfter(rows, id) ==
    LET after == {r \in rows : r.id > id}
    IN  {r \in after : Cardinality({o \in after : o.id < r.id}) < PageSize}

\* Mutant: the next page starts at the id after the next.
AdvancedPast(page) == Max({r.id : r \in page}) + 1
Advanced(page) == Max({r.id : r \in page})

\* A page that is not full, or the empty one after it, ends the query.  Valuations come in
\* one piece.
ReadPage ==
    /\ stage \in {"actions", "financials"} /\ queries # <<>>
    /\ LET query == Head(queries)
           rows == Matching(query)
           page == IF query.table = "valuation" THEN rows ELSE PageAfter(rows, cursor)
           last == query.table = "valuation" \/ Cardinality(page) < PageSize
       IN  /\ fetched' = [fetched EXCEPT ![query.table] =
                            [had |-> IF cursor = 0 THEN @.had \union rows ELSE @.had,
                             got |-> @.got \union page]]
           /\ cursor' = IF last THEN 0 ELSE Advanced(page)
           /\ queries' = IF last THEN Tail(queries) ELSE queries
    /\ UNCHANGED <<service, order, stage, retried, today, spans, members, catalog, lookups, bars,
                   industries>>

ActionsDone ==
    /\ stage = "actions" /\ queries = <<>> /\ Reach("history")
    /\ UNCHANGED <<service, order, today, spans, members, catalog, lookups, bars, queries, cursor,
                   fetched, industries>>

Stocks == catalog \intersect service.stock
Reading == IF order.financial # None THEN "financials" ELSE "finish"
FinancialCodes == Stocks \intersect Scoped(order.financial)
Statements == <<"balance", "income", "cash_flow">>
FinancialQueries ==
    IF order.financial = None THEN <<>>
    ELSE LET of(table) == Queries(table, FinancialCodes)
             in(n) == of(Statements[((n - 1) % 3) + 1])[((n - 1) \div 3) + 1]
         IN  [n \in 1 .. 3 * Len(of("balance")) |-> in(n)] \o of("valuation") \o of("capital")

\* The history of industries, cut to the days of the request.
Cut(row) ==
    [code |-> row.code, value |-> row.value,
     from |-> IF row.from > FirstDay THEN row.from ELSE FirstDay,
     to |-> IF row.to = None \/ row.to < LastDay THEN row.to ELSE LastDay]
ReadHistory ==
    /\ stage = "history" /\ service.history # None
    /\ industries' = {Cut(r) : r \in {h \in service.history :
                        /\ h.code \in Stocks
                        /\ h.to = None \/ h.to >= FirstDay
                        /\ h.from <= LastDay}}
    /\ Reach(Reading) /\ queries' = FinancialQueries
    /\ UNCHANGED <<service, order, today, spans, members, catalog, lookups, bars, cursor, fetched>>

\* If the call fails, the industries are asked for day by day.
HistoryFails ==
    /\ stage = "history" /\ Reach("industry")
    /\ UNCHANGED <<service, order, today, spans, members, catalog, lookups, bars, queries, cursor,
                   fetched, industries>>

ActiveOn(day) == {c \in Stocks : ListedOn(c, day)}
IndustriesOn(day) ==
    [c \in {k \in ActiveOn(day) : service.industry[k][day] # None} |-> service.industry[c][day]]

ReadIndustries ==
    /\ stage = "industry"
    /\ LET seen == IndustriesOn(today)
       IN  /\ industries' = industries \union DailyRows(seen)
           /\ spans' = IF today = LastDay THEN [c \in {} |-> 0] ELSE Continued(seen, today)
           /\ stage' = IF order.strict /\ DOMAIN seen # ActiveOn(today) THEN "refused"
                       ELSE IF today = LastDay THEN Reading ELSE stage
    /\ NextDay
    /\ queries' = IF today = LastDay THEN FinancialQueries ELSE queries
    /\ UNCHANGED <<service, order, members, catalog, lookups, bars, cursor, fetched>>

CodesOf(table) == {r.code : r \in fetched[table].got}
FinancialsDone ==
    /\ stage = "financials" /\ queries = <<>>
    /\ Reach(IF \/ FinancialCodes = {}
                \/ order.strict /\ \E t \in {"balance", "income", "cash_flow", "valuation"} :
                                      ~ FinancialCodes \subseteq CodesOf(t)
             THEN "refused" ELSE "finish")
    /\ UNCHANGED <<service, order, today, spans, members, catalog, lookups, bars, queries, cursor,
                   fetched, industries>>

\* A cancelled distribution is passed over, under strict permissions also a planned one.
Implemented ==
    {r \in fetched["actions"].got \union fetched["funds"].got :
        r.state = "done" \/ (r.state = "planned" /\ ~ order.strict)}

\* Last the query count is asked for.
Finish ==
    /\ stage = "finish"
    /\ Reach(IF order.strict /\ \/ Implemented = {}
                                \/ ~ Stocks \subseteq {r.code : r \in industries}
             THEN "refused" ELSE "batch")
    /\ UNCHANGED <<service, order, today, spans, members, catalog, lookups, bars, queries, cursor,
                   fetched, industries>>

-----------------------------------------------------------------------------
\* A call that timed out is made again; those of the finance tables and of authentication
\* are not, their errors come wrapped.
Retryable ==
    {"calendar", "universe", "catalog", "lookup", "prices", "history", "industry", "finish"}
Calling ==
    \/ stage \in {"connect", "calendar", "universe", "catalog", "history", "industry", "finish"}
    \/ stage = "lookup" /\ lookups # {}
    \/ stage \in {"prices", "actions", "financials"} /\ queries # <<>>

TimeOut ==
    /\ stage \in Retryable /\ Calling /\ retried < MaxRetries
    /\ retried' = retried + 1
    /\ UNCHANGED <<service, order, stage, today, spans, members, catalog, lookups, bars, queries,
                   cursor, fetched, industries>>

\* Also one whose answer is malformed.
CallFails ==
    /\ Calling /\ Reach("refused")
    /\ UNCHANGED <<service, order, today, spans, members, catalog, lookups, bars, queries, cursor,
                   fetched, industries>>

\* The service adds a row, with the next id of its table.  Only one that is asked for and
\* comes between two pages makes a difference.
AddRow(c) ==
    /\ cursor # 0 /\ c \in Asked(Head(queries))
    /\ LET t == Head(queries).table
           id == Cardinality(service.tables[t]) + 1
       IN  /\ id <= MaxRows
           /\ service' = [service EXCEPT !.tables[t] = @ \union {[id |-> id, code |-> c, state |-> "done"]}]
    /\ UNCHANGED <<order, stage, retried, today, spans, members, catalog, lookups, bars, queries,
                   cursor, fetched, industries>>

Call ==
    \/ Connect \/ ReadCalendar \/ ListMembers \/ ReadCatalog \/ LookUp \/ CatalogDone
    \/ ReadPrices \/ PricesDone \/ ReadPage \/ ActionsDone \/ ReadHistory \/ ReadIndustries
    \/ FinancialsDone \/ Finish
PullNext ==
    \/ Call \/ TimeOut \/ CallFails \/ HistoryFails
    \/ \E c \in DOMAIN service.listed : AddRow(c)
PullSpec == PullInit /\ [][PullNext]_pullVars

-----------------------------------------------------------------------------
RowsOf(c, table) == {r \in table : r.code = c}

\* The daily lists of an index are kept without loss as intervals that do not overlap
\* (docs/data-contract.md 57: members, compressed losslessly); the industries read from their
\* history are those that the daily queries would have given, and the other way round.
MembershipReadsBack ==
    stage = "batch" => \A c \in DOMAIN service.listed :
        /\ ValidIntervals(RowsOf(c, members)) /\ ValidIntervals(RowsOf(c, industries))
        /\ \A day \in PullDays :
            /\ c \in service.index[day] <=> \E r \in RowsOf(c, members) : Within(r, day)
            /\ c \in ActiveOn(day) =>
                {r.value : r \in {i \in RowsOf(c, industries) : Within(i, day)}}
                    = {service.industry[c][day]} \ {None}

\* A row that was there when its table was asked for is read, however many pages it takes and
\* whatever is added meanwhile; bars come for all that is priced; and whoever was a member is
\* found, even if it is not listed any more: only an instrument asked for by name can be
\* missing.
PullComplete ==
    /\ stage \in {"history", "industry", "finish", "batch"} =>
        \A t \in Tables : fetched[t].had \subseteq fetched[t].got
    /\ stage = "batch" => \A b \in service.bars : b[1] \in Priced => b \in bars
    /\ stage = "missing" =>
        \E c \in order.codes \ Everyone : ~ (ListedOn(c, FirstDay) \/ ListedOn(c, LastDay))
=============================================================================
