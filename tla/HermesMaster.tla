---------------------------- MODULE HermesMaster ----------------------------
(***************************************************************************)
(* The reference tables a Hermes canonicalization makes from the raw files *)
(* of a job (zyquant.connectors.hermes.normalize): which securities exist, *)
(* under which identity and name, which of their records are superseded    *)
(* aliases, their special-treatment windows, memberships, industries,      *)
(* share capital, corporate actions, and the daily extension tables that   *)
(* refer to them.                                                          *)
(*                                                                         *)
(* A raw table is a set of records.  Days, identifiers, symbols, exchanges *)
(* and names are numbers, so that the sort orders of the code are the      *)
(* numbers' own; None is a null.                                           *)
(***************************************************************************)
EXTENDS Integers, FiniteSets, FiniteSetsExt

CONSTANTS
    None,
    Exchanges,          \* exchanges of the request
    Open,               \* [Exchanges -> open days]
    StartDate, EndDate  \* of the request

ASSUME MasterAssumption ==
    /\ StartDate \in Nat /\ EndDate \in Nat /\ StartDate <= EndDate
    /\ Exchanges \subseteq Nat
    /\ Open \in [Exchanges -> SUBSET (StartDate .. EndDate)]

VARIABLES
    raw,            \* the raw tables and the request's policy, never written
    bySecurity, byParty, bySymbol   \* which instrument a reference is to

At(map, key) == IF key \in DOMAIN map THEN map[key] ELSE None
SecurityOf(sid) == At(bySecurity, sid)
PartyOf(party) == At(byParty, party)
SymbolOf(symbol) == At(bySymbol, symbol)

-----------------------------------------------------------------------------
\* Records in the order of a key, the last one wins.
Precedes(a, b) ==
    \E i \in DOMAIN a : a[i] < b[i] /\ \A j \in 1 .. i - 1 : a[j] = b[j]
Last(S, Key(_)) == CHOOSE x \in S : \A y \in S : ~ Precedes(Key(x), Key(y))
HighestId(S) == Last(S, LAMBDA o : <<o.id>>)
Latest(S) == Last(S, LAMBDA r : <<r.day>>)

\* A null sorts after every value.
NullLast(x) == IF x = None THEN EndDate + 1000 ELSE x
\* In force on a day, both ends included.
Covers(from, to, day) == from <= day /\ (to # None => day <= to)

Identity(r) == <<r.symbol, r.exchange>>

-----------------------------------------------------------------------------
(* Security master.                                                         *)

InForce(c) == Covers(c.from, c.to, EndDate)

\* A repair manifest of the job, with the hashes and columns it says, is taken as
\* given; another one aborts.  What a record of the manifest says of an overlay row, and the raw
\* tables and the audited identity evidence that must bear it out.
Evidenced(r) ==
    /\ Covers(r.from, r.to, EndDate)
    /\ \/ \E s \in raw.symbols :
            s.sid = r.sid /\ s.symbol = r.symbol /\ s.exchange = r.exchange /\ InForce(s)
       \/ \E s \in raw.identity :
            /\ s.sid = r.sid /\ s.symbol = r.symbol /\ s.exchange = r.exchange
            /\ Covers(s.list, s.delist, EndDate) /\ s.updated # None
    /\ \E c \in raw.changes : c.sid = r.sid /\ c.name = r.name /\ InForce(c)

RepairAccepted ==
    /\ {r.sid : r \in raw.repair} \intersect {s.sid : s \in raw.security} = {}
    /\ \A r \in raw.repair : Evidenced(r)

\* The name in force at the end of the job, from the log of changes.
HistoricalName(r) ==
    LET active == {c \in raw.changes : c.sid = r.sid /\ InForce(c)}
    IN  IF active = {} THEN r.name
        ELSE Last(active, LAMBDA c : <<c.from, c.updated, c.id>>).name

\* One record per identity.
Repaired == {s \in raw.security \union raw.repair : s.exchange \in Exchanges}
Sorted(s) == <<s.list, NullLast(s.updated), s.sid>>
RecordOf(identity) == Last({o \in Repaired : Identity(o) = identity}, Sorted)
Master == {s \in Repaired : s = RecordOf(Identity(s))}

\* A record without any bar is a superseded alias.
Traded == {b.sid : b \in raw.bars}
Kept == {s \in Master : s.sid \in Traded}
Dropped == Master \ Kept

\* instrument_by_security, and instrument_by_party: the last of the party's
\* instruments in the order of their identifiers.
BySecurity == [sid \in {s.sid : s \in Kept} |-> Identity(CHOOSE s \in Kept : s.sid = sid)]
ByParty == [p \in {s.party : s \in Kept} \ {None} |->
               Identity(Last({s \in Kept : s.party = p}, Identity))]

\* A retired symbol stands for the only kept identity of its party.
Targets(r) == {Identity(k) : k \in {s \in Kept : s.party = r.party}}
Aliased == {r \in Dropped : r.party # None /\ Cardinality(Targets(r)) = 1}
AliasTarget(symbol) ==
    LET own == {r \in Aliased : r.symbol = symbol}
    IN  IF own = {} THEN None ELSE CHOOSE t \in Targets(Last(own, Identity)) : TRUE

Live(symbol) ==
    LET own == {Identity(s) : s \in {k \in Kept : k.symbol = symbol}}
    IN  IF Cardinality(own) = 1 THEN CHOOSE i \in own : TRUE ELSE None

AliasConflict == \E r \in Aliased : Live(r.symbol) \notin {None, AliasTarget(r.symbol)}
BySymbol ==
    [symbol \in {s.symbol : s \in Kept \union Aliased} |->
        IF AliasTarget(symbol) # None THEN AliasTarget(symbol) ELSE Live(symbol)]

Instruments ==
    {[id |-> Identity(s), exchange |-> s.exchange, list |-> s.list, delist |-> s.delist,
      name |-> HistoricalName(s)] : s \in Kept}

-----------------------------------------------------------------------------
(* Point-in-time reference tables.                                          *)

\* Mutant: the windows of records of one day are kept.
TransitionsOfAll(i) == {t \in raw.states : SecurityOf(t.sid) = i}

\* Every transition into or out of special treatment opens a window that the
\* next one closes.
Transitions(i) ==
    LET own == {t \in raw.states : SecurityOf(t.sid) = i}
    IN  {t \in own : t = HighestId({o \in own : o.eff = t.eff})}

Following(t, i) == {o.eff : o \in {u \in Transitions(i) : u.eff > t.eff}}
Windows(i) ==
    {[name |-> t.name, from |-> t.eff,
      to |-> IF Following(t, i) = {} THEN None ELSE Min(Following(t, i)),
      known |-> IF t.pub = None THEN t.eff ELSE t.pub] : t \in Transitions(i)}
SpecialTreatment(listed) == [i \in {x.id : x \in listed} |-> Windows(i)]

\* Membership ends on the last open day before the delisting.
\* Mutant: on the day of the delisting.
LastDayIncluded(x) == x.delist
LastDay(x) ==
    LET earlier == {d \in Open[x.exchange] : d < x.delist}
    IN  IF x.delist = None THEN None
        ELSE IF earlier = {} THEN x.delist - 1 ELSE Max(earlier)
Universe(listed) ==
    {[id |-> x.id, exchange |-> x.exchange, from |-> x.list, to |-> LastDay(x)] :
        x \in listed}

\* The walk from an industry up to its level-1 ancestor; None when it leaves
\* the table or comes back to where it was.
TypeIds == {t.id : t \in raw.types}
TypeOf(n) == CHOOSE t \in raw.types : t.id = n
Climb(start) ==
    LET up[n \in 0 .. Cardinality(raw.types)] ==
            IF n = 0 THEN start
            ELSE LET c == up[n - 1]
                 IN  IF c = None THEN None
                     ELSE IF TypeOf(c).level = None \/ TypeOf(c).level <= 1 THEN c
                     ELSE IF \/ TypeOf(c).parent \notin TypeIds
                             \/ TypeOf(c).parent \in {up[m] : m \in 0 .. n - 1}
                          THEN None
                     ELSE TypeOf(c).parent
    IN  up[Cardinality(raw.types)]
\* Only an industry of level 1 counts as resolved.
Level1(n) ==
    LET top == Climb(n)
    IN  IF top = None THEN None ELSE IF TypeOf(top).level = 1 THEN top ELSE None

\* One assignment per instrument and first day; there is one version of the
\* classification.
Assigned ==
    {a \in raw.assignments :
        /\ a.type \in TypeIds /\ Level1(a.type) # None
        /\ PartyOf(a.party) # None
        /\ a.out = None \/ a.out >= StartDate}
Industry ==
    {[id |-> PartyOf(a.party), industry |-> Level1(a.type), from |-> a.into, to |-> a.out] :
        a \in {b \in Assigned :
                 b = HighestId({o \in Assigned : PartyOf(o.party) = PartyOf(b.party)
                                                 /\ o.into = b.into})}}

\* The last record at or before a day.
AsOf(S, day) ==
    LET past == {c \in S : c.day <= day}
    IN  IF past = {} THEN None ELSE Last(past, LAMBDA c : <<c.day, c.id>>)

ShareCapital ==
    {[id |-> c.id, inst |-> PartyOf(c.party), day |-> c.day, shares |-> c.shares,
      available |-> IF c.pub = None THEN c.day ELSE c.pub,
      free |-> AsOf({f \in raw.free : f.party = c.party}, c.day)] :
        c \in {k \in raw.capital : PartyOf(k.party) # None}}

\* A distribution pays cash, adds shares or both; a split below one is a merge; of the
\* allotments, those that took place and have a price are rights issues.
\* An event of an unknown security, without an ex date or announcement is lost.
Event(r, kind, ex, announced, record, pay) ==
    [source |-> <<kind, r.id>>, inst |-> SecurityOf(r.sid), ex |-> ex,
     announced |-> announced, record |-> record, pay |-> pay]
Events ==
    {Event(r, "cash_dividend", r.ex, r.announced, r.record, r.pay) :
        r \in {d \in raw.dividends : d.cash > 0}}
    \union {Event(r, "bonus", r.ex, r.announced, r.record, r.listed) :
        r \in {d \in raw.dividends : d.ratio > 0}}
    \union {Event(r, IF r.ratio >= 100 THEN "split" ELSE "merge",
                  IF r.resumed # None THEN r.resumed ELSE r.base, r.announced, r.base, None) :
        r \in {d \in raw.splits : d.ratio > 0}}
    \union {Event(r, "rights_issue", r.ex, r.announced, r.record, r.begin) :
        r \in {a \in raw.allotments : a.allotted /\ a.ratio > 0 /\ a.price # None}}
CorporateActions ==
    {e \in Events : e.inst # None /\ e.ex # None /\ e.announced # None}

-----------------------------------------------------------------------------
(* Daily extension tables: limit events, here of one type, refer to the     *)
(* security and, failing that, to the symbol; margin to the security;       *)
(* intraday factors to the symbol.                                          *)

LimitReference(e) ==
    IF SecurityOf(e.sid) # None THEN SecurityOf(e.sid) ELSE SymbolOf(e.symbol)
MarginReference(e) == SecurityOf(e.sid)
IntradayReference(e) == SymbolOf(e.symbol)
Referred(kind, e) ==
    CASE kind = "limit" -> LimitReference(e)
      [] kind = "margin" -> MarginReference(e)
      [] kind = "intraday" -> IntradayReference(e)

Unresolved(kind) == {e \in raw.ext[kind] : Referred(kind, e) = None}
PreflightFails == raw.policy = "repair_or_fail" /\ \E k \in DOMAIN raw.ext : Unresolved(k) # {}

\* A row that no instrument is found for is dropped, or fails the preflight.
Resolved(kind) == raw.ext[kind] \ Unresolved(kind)

\* The last revision of a row by the source's own key; one without a time of
\* revision counts as the last.
SourceKey(kind, e) == IF kind = "intraday" THEN <<e.symbol, e.day>> ELSE <<e.sid, e.day>>
LastRevision(S) == Last(S, LAMBDA o : <<NullLast(o.updated), o.id>>)
Revised(kind) ==
    {e \in raw.ext[kind] :
        e = LastRevision({o \in raw.ext[kind] : SourceKey(kind, o) = SourceKey(kind, e)})}

\* Visible on its day, or on the day of its last revision.
\* Mutant: on its day.
AvailableOnDay(e) == e.day
Available(e) == IF e.updated = None \/ e.updated < e.day THEN e.day ELSE e.updated
Extension(kind) ==
    {[inst |-> Referred(kind, e), day |-> e.day, available |-> Available(e), source |-> e.id] :
        e \in Revised(kind) \intersect Resolved(kind)}

\* normalize_table refuses a table with two rows of one key.
Duplicated(table) ==
    \E a, b \in table : a # b /\ a.inst = b.inst /\ a.day = b.day
=============================================================================
