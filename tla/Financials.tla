---------------------------- MODULE Financials -----------------------------
(***************************************************************************)
(* What the statements of a company become (zyquant.data.financial): a     *)
(* report per statement with its revision number and the day it may be     *)
(* known, a fact per item, and the metrics computed when a report of the   *)
(* current period appears, from what was known then.                       *)
(*                                                                         *)
(* One company; the code treats each on its own.  Fiscal periods are       *)
(* numbered quarters, their ends are days; Q1 is period 1, 5, ...  Metrics *)
(* are pairs <<numerator, denominator>>.  Of the items the model keeps one *)
(* balance item and one income item under two names; the others are built  *)
(* by the same operators.                                                  *)
(***************************************************************************)
EXTENDS Integers, FiniteSets, FiniteSetsExt, Functions

CONSTANTS
    None,
    TradeDays,      \* open days of the job
    PeriodEnd       \* [Periods -> last day of the fiscal quarter]

ASSUME FinancialsAssumption ==
    /\ None \notin Int
    /\ IsFiniteSet(TradeDays) /\ TradeDays # {} /\ TradeDays \subseteq Nat
    /\ IsFiniteSet(DOMAIN PeriodEnd) /\ DOMAIN PeriodEnd = 1 .. Cardinality(DOMAIN PeriodEnd)
    /\ \A p, q \in DOMAIN PeriodEnd : PeriodEnd[p] \in Nat /\ (p < q => PeriodEnd[p] < PeriodEnd[q])

Periods == DOMAIN PeriodEnd
QuarterOf(p) == ((p - 1) % 4) + 1

-----------------------------------------------------------------------------
(* Reports and facts.                                                       *)

\* A report may be used from the next trade day on; after the last one, from the next
\* day of a working week (day 7n is a Monday).
NextTradeDay(day) ==
    LET later == {d \in TradeDays : d > day}
    IN  Min(IF later # {} THEN later ELSE {d \in (day + 1) .. (day + 3) : d % 7 < 5})

\* A statement has an id, type, kind, day of publication, period and value per item.
AvailableAt(s) == NextTradeDay(s.pub)

\* "comparative" sorts before "current".
Rank(s) == IF s.kind = "current" THEN 1 ELSE 0
Revises(a, b) ==
    /\ a.type = b.type /\ a.period = b.period
    /\ \/ AvailableAt(a) < AvailableAt(b)
       \/ AvailableAt(a) = AvailableAt(b) /\ Rank(a) < Rank(b)
       \/ AvailableAt(a) = AvailableAt(b) /\ Rank(a) = Rank(b) /\ a.id < b.id

\* Mutant: the number counts all reports of the period.
RevisionOfPeriod(s, S) ==
    1 + Cardinality({o \in S : o.period = s.period /\ AvailableAt(o) < AvailableAt(s)})
Revision(s, S) == 1 + Cardinality({o \in S : Revises(o, s)})

Reports(S) ==
    {[report |-> s.id, type |-> s.type, kind |-> s.kind, period |-> s.period,
      published |-> s.pub, available |-> AvailableAt(s), revision |-> Revision(s, S)] : s \in S}

Facts(S) ==
    UNION {{[report |-> s.id, type |-> s.type, item |-> i, period |-> s.period,
             available |-> AvailableAt(s), value |-> s.items[i]] :
                i \in {j \in DOMAIN s.items : s.items[j] # None}} : s \in S}

-----------------------------------------------------------------------------
(* Metrics.                                                                 *)

\* One event per day on which a report of its own period appears.
Events(S) ==
    {[period |-> s.period, available |-> AvailableAt(s)] : s \in {c \in S : c.kind = "current"}}

\* The facts known at an event.
\* Mutant: all facts are.
KnownEver(S, e) == Facts(S)
Known(S, e) == {f \in Facts(S) : f.available <= e.available}

\* The last of the facts on an item and a period, and the first item that has one.
Latest(own) ==
    IF own = {} THEN None
    ELSE (CHOOSE f \in own : \A o \in own :
            \/ o.available < f.available
            \/ o.available = f.available /\ o.report <= f.report).value
Fact(known, type, item, period) ==
    Latest({f \in known : f.type = type /\ f.item = item /\ f.period = period})

FirstOf(values) ==
    LET has == {i \in DOMAIN values : values[i] # None}
    IN  IF has = {} THEN None ELSE values[Min(has)]
FirstFact(known, type, items, period) ==
    FirstOf([i \in DOMAIN items |-> Fact(known, type, items[i], period)])

Income == <<"total_operating_revenue", "operating_revenue">>
Assets(known, p) == Fact(known, "balance", "total_assets", p)
Revenue(known, p) == IF p \in Periods THEN FirstFact(known, "income", Income, p) ELSE None

\* The year-to-date value of a quarter less that of the quarter before it in its year.
Less(now, before) == IF None \in {now, before} THEN None ELSE now - before
Single(known, p) ==
    Less(Revenue(known, p), IF QuarterOf(p) = 1 THEN 0 ELSE Revenue(known, p - 1))

\* The sum of the last four quarters, when all are known.
\* Mutant: of those that are known.
TtmOfKnown(quarters) == SumFunction(RestrictValues(quarters, LAMBDA v : v # None))
Ttm(quarters) ==
    IF \E q \in DOMAIN quarters : quarters[q] = None THEN None
    ELSE quarters[1] + quarters[2] + quarters[3] + quarters[4]
LastFour(known, p) == [q \in 1 .. 4 |-> Single(known, p - 4 + q)]

\* Growth over the same quarter of the year before.
Growth(now, before) == IF None \in {now, before} \/ before = 0 THEN None ELSE <<now, before>>

\* Equity per share by the last share capital in force at the period end and known.
LastCapital(own) ==
    CHOOSE c \in own : \A o \in own :
        \/ o.from < c.from
        \/ o.from = c.from /\ o.available < c.available
        \/ o.from = c.from /\ o.available = c.available /\ o.id <= c.id
PerShare(assets, own) ==
    IF own = {} \/ assets = None THEN None ELSE <<assets, LastCapital(own).total>>

Whole(x) == IF x = None THEN None ELSE <<x, 1>>
Values(known, C, e) ==
    [assets |-> Whole(Assets(known, e.period)),
     per_share |-> PerShare(Assets(known, e.period),
                    {c \in C : c.from <= PeriodEnd[e.period] /\ c.available <= e.available}),
     revenue_ytd |-> Whole(Revenue(known, e.period)),
     revenue_single_quarter |-> Whole(Single(known, e.period)),
     revenue_ttm |-> Whole(Ttm(LastFour(known, e.period))),
     revenue_yoy_ytd |-> Growth(Revenue(known, e.period), Revenue(known, e.period - 4))]

Emitted(e, v) ==
    {[code |-> m, period |-> e.period, end |-> PeriodEnd[e.period],
      available |-> e.available, value |-> v[m]] : m \in {n \in DOMAIN v : v[n] # None}}
Metrics(S, C) == UNION {Emitted(e, Values(Known(S, e), C, e)) : e \in Events(S)}

-----------------------------------------------------------------------------
(* SnapshotValidator._validate_financials.                                  *)

ValidReports(R) ==
    /\ \A r \in R : r.published <= r.available /\ PeriodEnd[r.period] < r.available
    /\ \A r \in R :
        LET own == {o \in R : o.type = r.type /\ o.period = r.period}
        IN  r.revision = 1 + Cardinality({o \in own :
                \/ o.available < r.available
                \/ o.available = r.available /\ Rank(o) < Rank(r)
                \/ o.available = r.available /\ Rank(o) = Rank(r) /\ o.report < r.report})

ValidFacts(F, R) ==
    \A f \in F : \E r \in R :
        /\ r.report = f.report /\ r.type = f.type
        /\ r.period = f.period /\ r.available = f.available

ValidMetrics(M) == \A m \in M : m.end < m.available

ValidFinancials(R, F, M) == ValidReports(R) /\ ValidFacts(F, R) /\ ValidMetrics(M)
=============================================================================
