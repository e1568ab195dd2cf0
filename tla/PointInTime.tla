---------------------------- MODULE PointInTime -----------------------------
(***************************************************************************)
(* How a published snapshot is read as of a day (zyquant.data.snapshot),   *)
(* the rules that must be unambiguous for that (zyquant.data.validation),  *)
(* and the post-adjusted bars it holds (zyquant.data.adjustment).          *)
(*                                                                         *)
(* Rows are sets of records, days are numbers, prices are whole cents,     *)
(* factors are fractions <<numerator, denominator>>.                       *)
(***************************************************************************)
EXTENDS Financials, Sequences

-----------------------------------------------------------------------------
(* As-of queries.                                                           *)

\* table(): what has no visibility date, or one up to the cutoff.
Visible(rows, cutoff) == {r \in rows : r.available # None => r.available <= cutoff}

\* The order that decides between two metrics of one code and basis: the later
\* period, then the later publication.
Later(a, b) == a.end > b.end \/ (a.end = b.end /\ a.available > b.available)
Newest(rows) == CHOOSE r \in rows : \A o \in rows \ {r} : Later(r, o)

LatestMetric(rows, code, day) ==
    LET own == {r \in Visible(rows, day) : r.code = code /\ r.end <= day}
    IN  IF own = {} THEN None ELSE Newest(own)

\* The same as a step function: a metric is eligible from the later of its two dates
\* on, and each eligibility day carries the newest metric eligible by then.
Eligible(r) == IF r.available >= r.end THEN r.available ELSE r.end

\* Mutant: the newest of the day only.
BoundaryOfDay(rows, code, day) ==
    Newest({r \in rows : r.code = code /\ Eligible(r) = day})
Boundary(rows, code, day) ==
    Newest({r \in rows : r.code = code /\ Eligible(r) <= day})
Boundaries(rows, code) ==
    LET days == {Eligible(r) : r \in {o \in rows : o.code = code}}
    IN  [day \in days |-> Boundary(rows, code, day)]

\* metric_panel and metric_matrix: the last boundary up to the day, read from the rows
\* visible on the last of the wanted days.
PanelMetric(rows, code, day, lastWanted) ==
    LET steps == Boundaries(Visible(rows, lastWanted), code)
        past == {d \in DOMAIN steps : d <= day}
    IN  IF past = {} THEN None ELSE steps[Max(past)]

-----------------------------------------------------------------------------
(* Intervals: market rules, and memberships.                                *)

\* Neighbours in the order of their first day may not overlap; one without an end
\* overlaps all that follow.
Clear(a, b) == a.to # None /\ b.from > a.to
Neighbours(a, b, rows) ==
    a.from < b.from /\ ~ \E c \in rows : a.from < c.from /\ c.from < b.from
ValidIntervals(rows) ==
    /\ \A r \in rows : r.to # None => r.from <= r.to
    /\ \A a, b \in rows :
        /\ a # b => a.from # b.from
        /\ Neighbours(a, b, rows) => Clear(a, b)

-----------------------------------------------------------------------------
(* Post-adjusted bars.                                                      *)

Times(a, b) == <<a[1] * b[1], a[2] * b[2]>>
Same(a, b) == a[1] * b[2] = b[1] * a[2]

\* Bars are a sequence in day order.  An action has an id, a type, an ex day, cash per
\* share, a share ratio (a fraction) and a subscription price, and is cancelled or not.
OfDay(actions, day) == {a \in actions : a.ex = day /\ ~ a.cancelled}

\* The shares one share becomes, action by action in the order of the table.
Multiplier(acts) ==
    LET in[k \in 1 .. Cardinality(acts)] ==
            CHOOSE a \in acts : Cardinality({o \in acts : o.id < a.id}) = k - 1
        m[k \in 0 .. Cardinality(acts)] ==
            IF k = 0 THEN <<1, 1>>
            ELSE LET r == in[k].ratio
                 IN  CASE in[k].type = "bonus" -> Times(m[k - 1], <<r[1] + r[2], r[2]>>)
                       [] in[k].type = "merge" -> Times(m[k - 1], r)
                       [] in[k].type = "rights" ->
                            <<m[k - 1][1] * r[2] + r[1] * m[k - 1][2], m[k - 1][2] * r[2]>>
                       [] OTHER -> m[k - 1]
    IN  m[Cardinality(acts)]

\* The theoretical ex price of the actions of a day.
Theoretical(close, acts) ==
    LET cash == MapThenSumSet(LAMBDA a : a.cash, {a \in acts : a.type = "dividend"})
        rights == FoldSet(LAMBDA a, v : <<v[1] * a.ratio[2] + a.ratio[1] * a.price * v[2],
                                          v[2] * a.ratio[2]>>,
                          <<0, 1>>, {a \in acts : a.type = "rights"})
        m == Multiplier(acts)
    IN  Times(<<(close - cash) * rights[2] + rights[1], rights[2]>>, <<m[2], m[1]>>)

\* The market's reference price when it agrees with the formula within a cent.
Reference(theoretical, pre) ==
    IF /\ pre > 0
       /\ pre * theoretical[2] - theoretical[1] <= theoretical[2]
       /\ theoretical[1] - pre * theoretical[2] <= theoretical[2]
    THEN <<pre, 1>> ELSE theoretical

\* One step of the running factor: the actions of a day that has a bar, after the first.
Step(bars, actions, i) ==
    LET acts == OfDay(actions, bars[i].day)
        ref == Reference(Theoretical(bars[i - 1].close, acts), bars[i].pre)
    IN  IF i = 1 \/ acts = {} THEN <<1, 1>>
        ELSE <<bars[i - 1].close * ref[2], ref[1]>>

Product(steps) ==
    LET f[i \in 0 .. Len(steps)] == IF i = 0 THEN <<1, 1>> ELSE Times(f[i - 1], steps[i])
    IN  f[Len(steps)]
FactorOf(bars, actions, n) == Product([i \in 1 .. n |-> Step(bars, actions, i)])

\* An ex price that is not positive aborts the publication.
AdjustmentFails(bars, actions) ==
    \E i \in 2 .. Len(bars) :
        LET acts == OfDay(actions, bars[i].day)
        IN  acts # {} /\ Theoretical(bars[i - 1].close, acts)[1] <= 0

\* With vendor_factor_mode "use" the vendor's factors, relative to the first, must be
\* those of the actions; "validate" only reports.
VendorConflicts(bars, actions, vendor) ==
    \E i \in 1 .. Len(bars) :
        ~ Same(<<vendor[i], vendor[1]>>, FactorOf(bars, actions, i))
Factor(bars, actions, vendor, mode, i) ==
    IF mode = "use" /\ vendor # None THEN <<vendor[i], vendor[1]>>
    ELSE FactorOf(bars, actions, i)

PostBars(bars, actions, vendor, mode) ==
    [i \in 1 .. Len(bars) |->
        LET f == Factor(bars, actions, vendor, mode, i)
        IN  [day |-> bars[i].day, factor |-> f, close |-> Times(<<bars[i].close, 1>>, f),
             pre |-> IF i = 1 THEN Times(<<bars[i].pre, 1>>, f)
                     ELSE Times(<<bars[i - 1].close, 1>>, Factor(bars, actions, vendor, mode, i - 1))]]
=============================================================================
