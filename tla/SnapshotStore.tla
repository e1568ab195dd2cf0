--------------------------- MODULE SnapshotStore ----------------------------
(***************************************************************************)
(* Publication and opening of snapshots (zyquant.data.publisher,           *)
(* zyquant.data.snapshot): a publisher derives the post-adjusted bars and  *)
(* the financial tables from what a connector delivered, validates all     *)
(* tables, writes them to a staging directory beside the published ones and *)
(* renames it to the dataset's name.  Publishers share the directory and   *)
(* may be killed anywhere.                                                 *)
(*                                                                         *)
(* A delivery is a record of the connector's rows, see Accepted; its price *)
(* rows are one instrument's, its rules one exchange's and asset type's.   *)
(***************************************************************************)
EXTENDS PointInTime, SequencesExt

CONSTANTS
    Publishers,     \* processes
    Datasets,       \* dataset identifiers
    Deliveries,     \* what the connectors may deliver
    TableNames,     \* tables, written one after the other
    Attempts        \* BOUND: publications of a process

\* What the data contract says of the rows: their types, unique keys, and the bars of an
\* instrument in day order.
TypedStatements(S) ==
    /\ IsFiniteSet(S)
    /\ \A s \in S :
        /\ s.id \in Nat /\ s.pub \in Nat /\ s.period \in Periods
        /\ IsFiniteSet(DOMAIN s.items) /\ \A i \in DOMAIN s.items : s.items[i] \in Int \union {None}
    /\ \A s, t \in S : s.id = t.id => s = t
TypedPrices(x) ==
    /\ x.bars \in Seq([day : Nat, close : Int, pre : Int])
    /\ \A i, j \in DOMAIN x.bars : i < j => x.bars[i].day < x.bars[j].day
    /\ \A a \in x.actions : a.ex \in Nat
    /\ x.vendor # None => x.vendor \in Seq(Int) /\ Len(x.vendor) = Len(x.bars)
Typed(x) ==
    /\ TypedStatements(x.statements) /\ TypedPrices(x)
    /\ \A c \in x.capital : c.available \in Nat
    /\ \A m \in x.metrics : m.end \in Nat /\ m.available \in Nat

ASSUME SnapshotAssumption ==
    /\ None \notin Deliveries /\ None \notin Seq(Int)
    /\ \A x \in Deliveries : Typed(x)

VARIABLES
    published,      \* [Datasets -> delivery the dataset was made of, or None]
    ppc,            \* [Publishers -> where the process is]
    target,         \* [Publishers -> dataset, or None]
    delivery,       \* [Publishers -> delivery, or None]
    written,        \* [Publishers -> tables in the staging directory]
    attempts        \* [Publishers -> publications so far]

snapshotVars == <<published, ppc, target, delivery, written, attempts>>

SnapshotInit ==
    /\ published = [d \in Datasets |-> None]
    /\ ppc = [p \in Publishers |-> "idle"]
    /\ target = [p \in Publishers |-> None]
    /\ delivery = [p \in Publishers |-> None]
    /\ written = [p \in Publishers |-> {}]
    /\ attempts = [p \in Publishers |-> 0]

Move(p, there) == ppc' = [ppc EXCEPT ![p] = there]

-----------------------------------------------------------------------------
(* The tables of a dataset.                                                 *)

ReportsOf(x) == Reports(x.statements)
FactsOf(x) == Facts(x.statements)
MetricsOf(x) == Metrics(x.statements, x.capital) \union x.metrics
PostOf(x) == PostBars(x.bars, x.actions, x.vendor, x.mode)

\* No table holds a key twice; for the metrics a key is all but the value.
Unique(x) ==
    /\ \A a, b \in x.actions : a.id = b.id => a = b
    /\ \A a, b \in MetricsOf(x) :
        a.code = b.code /\ a.period = b.period /\ a.available = b.available => a = b

Adjustable(x) ==
    /\ ~ AdjustmentFails(x.bars, x.actions)
    /\ ~ (x.mode = "use" /\ x.vendor # None /\ VendorConflicts(x.bars, x.actions, x.vendor))

ValidPrices(x) ==
    /\ \A i \in DOMAIN x.bars : x.bars[i].close > 0 /\ x.bars[i].pre > 0
    /\ \A a \in x.actions : a.announced # None => a.announced <= a.ex

Financial(x) == ValidFinancials(ReportsOf(x), FactsOf(x), MetricsOf(x))

Accepted(x) ==
    /\ Unique(x) /\ Adjustable(x) /\ ValidPrices(x)
    /\ x.rules # {} /\ ValidIntervals(x.rules) /\ ValidIntervals(x.members)
    /\ Financial(x)

-----------------------------------------------------------------------------
\* A dataset of that name must not be there; then everything is computed and checked.
Begin(p, d, x) ==
    /\ ppc[p] = "idle" /\ attempts[p] < Attempts /\ published[d] = None
    /\ attempts' = [attempts EXCEPT ![p] = @ + 1]
    /\ target' = [target EXCEPT ![p] = d]
    /\ delivery' = [delivery EXCEPT ![p] = x]
    /\ written' = [written EXCEPT ![p] = {}]
    /\ Move(p, "checking")
    /\ UNCHANGED published

Accept(p) ==
    /\ ppc[p] = "checking" /\ Accepted(delivery[p])
    /\ Move(p, "writing")
    /\ UNCHANGED <<published, target, delivery, written, attempts>>

Reject(p) ==
    /\ ppc[p] = "checking" /\ ~ Accepted(delivery[p])
    /\ Move(p, "idle")
    /\ UNCHANGED <<published, target, delivery, written, attempts>>

Write(p, name) ==
    /\ ppc[p] = "writing" /\ name \notin written[p]
    /\ written' = [written EXCEPT ![p] = @ \union {name}]
    /\ UNCHANGED <<published, ppc, target, delivery, attempts>>

\* The manifest holds the hash of every file that is there.
Sign(p) ==
    /\ ppc[p] = "writing" /\ written[p] = TableNames
    /\ Move(p, "signed")
    /\ UNCHANGED <<published, target, delivery, written, attempts>>

\* The rename fails on a directory that has come to be there.
\* Mutant: it replaces it.
FreeAlways(d) == TRUE
Free(d) == published[d] = None
Rename(p) ==
    /\ ppc[p] = "signed" /\ Free(target[p])
    /\ published' = [published EXCEPT ![target[p]] = delivery[p]]
    /\ Move(p, "idle")
    /\ UNCHANGED <<target, delivery, written, attempts>>

\* Any error removes the staging directory; a kill leaves it, where only list_snapshots
\* ever finds it.
Abort(p) ==
    /\ ppc[p] \in {"writing", "signed"}
    /\ Move(p, "idle")
    /\ UNCHANGED <<published, target, delivery, written, attempts>>

KillPublisher(p) ==
    /\ ppc[p] # "idle"
    /\ Move(p, "idle")
    /\ UNCHANGED <<published, target, delivery, written, attempts>>

SnapshotNext ==
    \E p \in Publishers :
        \/ \E d \in Datasets, x \in Deliveries : Begin(p, d, x)
        \/ Accept(p) \/ Reject(p) \/ Sign(p) \/ Rename(p) \/ Abort(p) \/ KillPublisher(p)
        \/ \E name \in TableNames : Write(p, name)

SnapshotSpec == SnapshotInit /\ [][SnapshotNext]_snapshotVars

-----------------------------------------------------------------------------
Contents == {published[d] : d \in {e \in Datasets : published[e] # None}}
Days == 1 .. Max(TradeDays)

\* Seen from outside, all that ever happens is that an empty name gets a valid dataset:
\* nothing half-written, unchecked or changed is read, whoever else publishes under the
\* name (the existence check is long before the rename) and whoever is killed.
Promise == INSTANCE WriteOnce WITH
                Names <- Datasets,
                Admissible <- Accepted,
                Nothing <- None,
                store <- published
PublishedForGood == Promise!Spec

\* What is read as of a day is what would have been read had nothing later existed:
\* later statements, share capital, actions and bars change no metric and no adjusted
\* bar of the past (docs/data-contract.md: only records visible at the time are read).
BarsUntil(x, day) == Cardinality({i \in DOMAIN x.bars : x.bars[i].day <= day})
Until(x, day) ==
    [statements |-> {s \in x.statements : AvailableAt(s) <= day},
     capital |-> {c \in x.capital : c.available <= day},
     metrics |-> {m \in x.metrics : m.available <= day},
     actions |-> {a \in x.actions : a.ex <= day},
     bars |-> SubSeq(x.bars, 1, BarsUntil(x, day)),
     vendor |-> IF x.vendor = None THEN None ELSE SubSeq(x.vendor, 1, BarsUntil(x, day)),
     mode |-> x.mode]

NoLookAhead ==
    \A x \in Contents, day \in Days :
        LET y == Until(x, day)
            metrics == MetricsOf(x)
            then == MetricsOf(y)
        IN  /\ \A code \in {m.code : m \in metrics} :
                LatestMetric(metrics, code, day) = LatestMetric(then, code, day)
            /\ PostOf(y) = SubSeq(PostOf(x), 1, Len(y.bars))

\* The step functions behind metric_panel and metric_matrix answer every day as
\* latest_metrics does, whatever the last day wanted (docstring of _as_of_steps).
PanelsAgree ==
    \A x \in Contents :
        LET metrics == MetricsOf(x)
        IN  \A code \in {m.code : m \in metrics}, last \in Days : \A day \in 1 .. last :
                PanelMetric(metrics, code, day, last) = LatestMetric(metrics, code, day)

\* Statements that were published after their period ended are never refused for what
\* the processor made of them: the revision numbers, dates and references it gives are
\* those the validator recomputes.
BuiltIsValid ==
    \A p \in Publishers : ppc[p] = "checking" =>
        ((\A s \in delivery[p].statements : s.pub >= PeriodEnd[s.period])
            => ValidFinancials(ReportsOf(delivery[p]), FactsOf(delivery[p]),
                               Metrics(delivery[p].statements, delivery[p].capital)))

\* A trailing year is the sum of the quarters it is made of, and so what the two
\* yearly reports and the two year-to-date reports say of it.
TrailingYearsAddUp ==
    \A x \in Contents : \A m \in Metrics(x.statements, x.capital) : m.code = "revenue_ttm" =>
        LET known == Known(x.statements, [period |-> m.period, available |-> m.available])
            now == Revenue(known, m.period)
            lastYear == Revenue(known, m.period - QuarterOf(m.period))
            same == Revenue(known, m.period - 4)
        IN  IF QuarterOf(m.period) = 4 THEN m.value = <<now, 1>>
            ELSE None \notin {now, lastYear, same} /\ m.value = <<now + lastYear - same, 1>>
=============================================================================
