---------------------------- MODULE HermesTables ----------------------------
(***************************************************************************)
(* HermesCanonicalizer.run: the builders in their order, the market tables *)
(* month by month with the last close and adjustment factor of every       *)
(* instrument carried from one month to the next.                          *)
(***************************************************************************)
EXTENDS HermesMaster

CONSTANTS DaysPerMonth, Tolerance   \* quarantined rows that are tolerated

ASSUME TablesAssumption == DaysPerMonth \in Nat \ {0} /\ Tolerance \in Nat

VARIABLES
    builder,        \* the next builder
    instruments, special, universe, actions, industry, capital,     \* tables written
    month,          \* the next month of market data
    close, factor,  \* previous_close and previous_factor
    bars, quarantine, post, valuation, extension

maps == <<bySecurity, byParty, bySymbol>>
reference == <<instruments, special, universe, actions, industry, capital>>
market == <<month, close, factor, bars, quarantine, post>>
tablesVars == <<raw, maps, builder, reference, market, valuation, extension>>

Month(d) == (d - StartDate) \div DaysPerMonth + 1
Months == 1 .. Month(EndDate)
Ids == {x.id : x \in instruments}

\* "failed" once a builder has raised, "done" after the last.
TablesInit ==
    /\ builder = "instruments" /\ bySecurity = <<>> /\ byParty = <<>> /\ bySymbol = <<>>
    /\ instruments = {} /\ special = <<>> /\ universe = {}
    /\ actions = {} /\ industry = {} /\ capital = {}
    /\ month = 1 /\ close = <<>> /\ factor = <<>>
    /\ bars = {} /\ quarantine = {} /\ post = {} /\ valuation = {} /\ extension = <<>>

BuildInstruments ==
    /\ builder = "instruments" /\ RepairAccepted /\ raw.bars # {} /\ ~ AliasConflict
    /\ instruments' = Instruments
    /\ bySecurity' = BySecurity /\ byParty' = ByParty /\ bySymbol' = BySymbol
    /\ close' = [i \in {x.id : x \in Instruments} |-> None] /\ factor' = close'
    /\ builder' = "preflight"
    /\ UNCHANGED <<raw, special, universe, actions, industry, capital, month, bars, quarantine,
                   post, valuation, extension>>

RejectMaster ==
    /\ builder = "instruments" /\ (~ RepairAccepted \/ raw.bars = {} \/ AliasConflict)
    /\ builder' = "failed"
    /\ UNCHANGED <<raw, maps, reference, market, valuation, extension>>

Preflight ==
    /\ builder = "preflight"
    /\ builder' = IF PreflightFails THEN "failed" ELSE "reference"
    /\ UNCHANGED <<raw, maps, reference, market, valuation, extension>>

\* An assignment table without a single resolved industry is refused.
BuildReference ==
    /\ builder = "reference"
    /\ special' = SpecialTreatment(instruments) /\ universe' = Universe(instruments)
    /\ actions' = CorporateActions /\ industry' = Industry /\ capital' = ShareCapital
    /\ builder' = IF \E n \in TypeIds : Level1(n) # None THEN "market" ELSE "failed"
    /\ UNCHANGED <<raw, maps, instruments, market, valuation, extension>>

-----------------------------------------------------------------------------
(* One month of market data.  A source row has a close and a previous close, *)
(* either of which may be null: they stand for its five prices.             *)

Halted(i, d) ==
    \E h \in raw.halts :
        /\ SecurityOf(h.sid) = i
        /\ h.begin <= d /\ (h.resume = None \/ d < h.resume)

Source == {b \in raw.bars : SecurityOf(b.sid) # None /\ Month(b.day) = month}
Of(b) == SecurityOf(b.sid)
RowsOf(i) == {b \in Source : Of(b) = i}
RowDays(i) == {b.day : b \in RowsOf(i)}
Banded(i, d) == \E l \in raw.bands : SecurityOf(l[1]) = i /\ l[2] = d

\* Days of the month on which the instrument should have a bar.
Expected(x) ==
    {d \in Open[x.exchange] :
        /\ Min({b.day : b \in Source}) <= d /\ d <= Max({b.day : b \in Source})
        /\ x.list <= d /\ (x.delist = None \/ d < x.delist)}

\* The last close known before a day, of this month's rows or of an earlier month.
LastPrice(x, day) ==
    LET past == {b \in RowsOf(x.id) : b.day < day /\ b.close # None /\ b.day \in Expected(x)}
    IN  IF past = {} THEN close[x.id] ELSE Latest(past).close

Missing(x) == Expected(x) \ RowDays(x.id)
Filled(x) ==
    {[inst |-> x.id, day |-> d, close |-> LastPrice(x, d), pre |-> LastPrice(x, d),
      paused |-> TRUE] : d \in {e \in Missing(x) : Halted(x.id, e) /\ LastPrice(x, e) # None}}
Unexplained(x) ==
    {[inst |-> x.id, day |-> d,
      reason |-> IF Halted(x.id, d) THEN "no_previous_close" ELSE "missing_bar"] :
        d \in {e \in Missing(x) : ~ Halted(x.id, e) \/ LastPrice(x, e) = None}}

\* A halted row without a price takes its previous close or, failing that, the
\* last close of the month before.
\* Mutant: whatever the row, a price is filled in.
FillableAnyRow(b) == b.close = None \/ b.pre = None
Fillable(b) == (b.close = None \/ b.pre = None) /\ Halted(Of(b), b.day)
Bar(b) ==
    LET price == IF b.pre # None THEN b.pre ELSE close[Of(b)]
        fill == Fillable(b) /\ price # None
    IN  [inst |-> Of(b), day |-> b.day,
         close |-> IF fill THEN price ELSE b.close,
         pre |-> IF fill THEN price ELSE b.pre,
         paused |-> Halted(Of(b), b.day)]

\* Only a bar that can be traded needs a price band.
Rejected(c) ==
    \/ c.close = None \/ c.pre = None
    \/ ~ c.paused /\ ~ Banded(c.inst, c.day)

MonthBars ==
    {c \in {Bar(b) : b \in Source} : ~ Rejected(c)}
        \union UNION {Filled(x) : x \in instruments}
MonthQuarantine ==
    {[inst |-> c.inst, day |-> c.day, reason |-> "missing_core"] :
        c \in {d \in {Bar(b) : b \in Source} : Rejected(d)}}
        \union UNION {Unexplained(x) : x \in instruments}

-----------------------------------------------------------------------------
(* Post-adjusted prices of the month.                                       *)

Vendor(i, d) ==
    LET own == {f \in raw.factors : SecurityOf(f.sid) = i /\ f.day = d}
    IN  IF own = {} THEN None ELSE (CHOOSE f \in own : TRUE).factor

FirstFactor(i) ==
    LET days == {d \in StartDate .. EndDate :
                    Month(d) = month /\ Vendor(i, d) \notin {None, 0}}
    IN  IF days = {} THEN None ELSE Vendor(i, Min(days))

\* The vendor's factor, the last one before, or the first one of the month.
\* Mutant: nothing is carried over from the month before.
CarriedOfMonth(i) == None
Carried(i) == factor[i]
Factors(i, days) ==
    LET last[d \in StartDate - 1 .. EndDate] ==
            IF d < StartDate THEN Carried(i)
            ELSE IF d \notin days THEN last[d - 1]
            ELSE IF Vendor(i, d) # None THEN Vendor(i, d)
            ELSE IF last[d - 1] # None THEN last[d - 1] ELSE FirstFactor(i)
    IN  [d \in days |-> last[d]]

PostOf(table) ==
    UNION {LET f == Factors(i, {c.day : c \in {b \in table : b.inst = i}})
           IN  {[inst |-> i, day |-> d, factor |-> f[d]] : d \in DOMAIN f} :
           i \in {c.inst : c \in table}}
LastOf(table, i) == Latest({r \in table : r.inst = i})

\* A month without rows is passed over.
PassMonth ==
    /\ builder = "market" /\ month \in Months /\ Source = {}
    /\ month' = month + 1
    /\ UNCHANGED <<raw, maps, builder, reference, close, factor, bars, quarantine, post, valuation,
                   extension>>

BuildMonth ==
    /\ builder = "market" /\ month \in Months /\ Source # {}
    /\ LET table == MonthBars
           adjusted == PostOf(table)
           traded == {c.inst : c \in table}
       IN  IF \E p \in adjusted : p.factor \in {None, 0}
           THEN builder' = "failed" /\ UNCHANGED market
           ELSE /\ month' = month + 1 /\ builder' = builder
                /\ bars' = bars \union table
                /\ quarantine' = quarantine \union MonthQuarantine
                /\ post' = post \union adjusted
                /\ close' = [i \in Ids |-> IF i \in traded THEN LastOf(table, i).close
                                           ELSE close[i]]
                /\ factor' = [i \in Ids |-> IF i \in traded THEN LastOf(adjusted, i).factor
                                            ELSE factor[i]]
    /\ UNCHANGED <<raw, maps, reference, valuation, extension>>

MarketDone ==
    /\ builder = "market" /\ month \notin Months
    /\ builder' = IF Cardinality(quarantine) > Tolerance THEN "failed" ELSE "valuation"
    /\ UNCHANGED <<raw, maps, reference, market, valuation, extension>>

-----------------------------------------------------------------------------
\* Shares, and of these the ones in free float, are those of the last change at or before
\* the day.
ValuationOn(inst, day) ==
    LET c == AsOf({k \in capital : k.inst = inst}, day)
        f == AsOf({k \in raw.free : PartyOf(k.party) = inst}, day)
    IN  [inst |-> inst, day |-> day, available |-> day,
         capital |-> IF c = None THEN None ELSE c.id,
         free |-> IF f = None THEN None ELSE f.shares]
BuildValuation ==
    /\ builder = "valuation" /\ builder' = "extension"
    /\ valuation' =
         {ValuationOn(SecurityOf(e[1]), e[2]) : e \in {v \in raw.evals : SecurityOf(v[1]) # None}}
    /\ UNCHANGED <<raw, maps, reference, market, extension>>

BuildExtensions ==
    /\ builder = "extension"
    /\ extension' = [k \in DOMAIN raw.ext |-> Extension(k)]
    /\ builder' = IF \E k \in DOMAIN raw.ext : Duplicated(Extension(k)) THEN "failed" ELSE "done"
    /\ UNCHANGED <<raw, maps, reference, market, valuation>>

TablesNext ==
    \/ BuildInstruments \/ RejectMaster \/ Preflight \/ BuildReference
    \/ PassMonth \/ BuildMonth \/ MarketDone \/ BuildValuation \/ BuildExtensions

TablesSpec == TablesInit /\ [][TablesNext]_tablesVars

-----------------------------------------------------------------------------
Built == builder \in {"valuation", "extension", "done"}
Day == StartDate .. EndDate
MonthSpan(d) ==
    LET days == {b.day : b \in {r \in raw.bars : SecurityOf(r.sid) # None /\ Month(r.day) = Month(d)}}
    IN  days # {} /\ Min(days) <= d /\ d <= Max(days)

\* Every member of the universe has, on every open day for which the market
\* has data, either a bar or a row in quarantine, and never both: the tables of
\* membership and of bars agree on when an instrument is listed.
MembersAccounted ==
    Built => \A u \in universe : \A d \in Open[u.exchange] :
        Covers(u.from, u.to, d) /\ MonthSpan(d) =>
            LET bar == \E c \in bars : c.inst = u.id /\ c.day = d
                held == \E q \in quarantine : q.inst = u.id /\ q.day = d
            IN  bar # held

\* A bar that was filled in for a halted day has a price of an earlier day, and
\* a bar that can be traded has its own prices: nothing is made up and nothing
\* is taken from the future.
FillsAreCausal ==
    \A c \in bars :
        \/ \E b \in raw.bars : SecurityOf(b.sid) = c.inst /\ b.day = c.day
                               /\ c.close = b.close /\ c.pre = b.pre
        \/ /\ c.paused
           /\ \E b \in raw.bars : /\ SecurityOf(b.sid) = c.inst
                                  /\ \/ b.day < c.day /\ c.close = b.close
                                     \/ b.day <= c.day /\ c.close = b.pre

\* The post-adjusted table has the bars of the raw one, each with the vendor's
\* factor of the day or of the last earlier day that has one.
FactorsCarried ==
    /\ Built => {<<p.inst, p.day>> : p \in post} = {<<c.inst, c.day>> : c \in bars}
    /\ \A p \in post :
        LET known == {d \in Day : d <= p.day /\ Vendor(p.inst, d) # None
                                  /\ \E c \in bars : c.inst = p.inst /\ c.day = d}
        IN  known # {} => p.factor = Vendor(p.inst, Max(known))

LastChange(S) == Last(S, LAMBDA t : <<t.eff, t.id>>)

\* At most one special-treatment window of an instrument is in force on a day,
\* with the name of the last transition up to that day.
WindowsPartition ==
    builder = "market" => \A i \in DOMAIN special : \A d \in Day :
        LET open == {w \in special[i] : w.from <= d /\ (w.to = None \/ d < w.to)}
            past == {t \in raw.states : SecurityOf(t.sid) = i /\ t.eff <= d}
        IN  IF past = {} THEN open = {}
            ELSE /\ Cardinality(open) = 1
                 /\ \A w \in open : w.name = LastChange(past).name

\* What is stored of an extension is never visible before its last revision,
\* one row stands for every instrument and day, and no resolvable source row
\* is lost.
ExtensionsSound ==
    builder = "done" => \A k \in DOMAIN raw.ext :
        /\ ~ Duplicated(extension[k])
        /\ \A x \in extension[k] : \E e \in raw.ext[k] :
              e.id = x.source /\ x.available >= e.day
              /\ (e.updated # None => x.available >= e.updated)
        /\ \A e \in raw.ext[k] : Referred(k, e) # None =>
              \E x \in extension[k] : x.inst = Referred(k, e) /\ x.day = e.day

=============================================================================
