--------------------------- MODULE SnapshotProofs ---------------------------
(***************************************************************************)
(* The data set, from its pull to its readers, for every service, request, *)
(* delivery, publisher and set of days.                                    *)
(*                                                                         *)
(* Part 1: SnapshotStore implements WriteOnce, what readers of published   *)
(* datasets may rely on.  The rename itself does not look at what it       *)
(* publishes.  That it is valid follows from an invariant: since it was    *)
(* accepted, no step has touched the delivery of a publisher that writes.  *)
(* Part 2: what is read as of a day.  Part 3: what the processor builds.   *)
(* Part 4: what a pull from JQData reads; it shares no state with the      *)
(* others, only the intervals of PointInTime.                              *)
(***************************************************************************)
EXTENDS SnapshotStore, JQDataPull, SequenceTheorems, FiniteSetTheorems, WellFoundedInduction, TLAPS

Stages == {"idle", "checking", "writing", "signed"}

SnapshotTypeOK ==
    /\ published \in [Datasets -> Deliveries \union {None}]
    /\ ppc \in [Publishers -> Stages]
    /\ target \in [Publishers -> Datasets \union {None}]
    /\ delivery \in [Publishers -> Deliveries \union {None}]

\* A publisher at work has a dataset and a delivery, and once it writes the delivery has
\* passed the validation.
Aimed(p) == ppc[p] # "idle" => target[p] \in Datasets /\ delivery[p] \in Deliveries
Checked(p) == ppc[p] \in {"writing", "signed"} => Accepted(delivery[p])

SnapshotInv == SnapshotTypeOK /\ \A p \in Publishers : Aimed(p) /\ Checked(p)

LEMMA InitInv == SnapshotInit => SnapshotInv
BY DEF SnapshotInit, SnapshotInv, SnapshotTypeOK, Stages, Aimed, Checked

\* Every step keeps the invariant; only Begin chooses a delivery, only Accept lets it
\* be written.
LEMMA StepInv == SnapshotInv /\ [SnapshotNext]_snapshotVars => SnapshotInv'
<1> SUFFICES ASSUME SnapshotInv, [SnapshotNext]_snapshotVars PROVE SnapshotInv'
  OBVIOUS
<1> USE DEF SnapshotInv, SnapshotTypeOK, Stages
<1>1. ASSUME NEW p \in Publishers, NEW d \in Datasets, NEW x \in Deliveries, Begin(p, d, x)
      PROVE  SnapshotInv'
  BY <1>1 DEF Begin, Move, Aimed, Checked
<1>2. ASSUME NEW p \in Publishers, Accept(p) PROVE SnapshotInv'
  BY <1>2 DEF Accept, Move, Aimed, Checked
<1>3. ASSUME NEW p \in Publishers, Reject(p) \/ Abort(p) \/ KillPublisher(p)
      PROVE  SnapshotInv'
  BY <1>3 DEF Reject, Abort, KillPublisher, Move, Aimed, Checked
<1>4. ASSUME NEW p \in Publishers, NEW name \in TableNames, Write(p, name)
      PROVE  SnapshotInv'
  BY <1>4 DEF Write, Aimed, Checked
<1>5. ASSUME NEW p \in Publishers, Sign(p) PROVE SnapshotInv'
  BY <1>5 DEF Sign, Move, Aimed, Checked
<1>6. ASSUME NEW p \in Publishers, Rename(p) PROVE SnapshotInv'
  BY <1>6 DEF Rename, Move, Aimed, Checked
<1>7. CASE UNCHANGED snapshotVars
  BY <1>7 DEF snapshotVars, Aimed, Checked
<1> QED
  BY <1>1, <1>2, <1>3, <1>4, <1>5, <1>6, <1>7 DEF SnapshotNext

\* At the start every name is empty.
LEMMA InitMaps == SnapshotInit => Promise!Init
BY DEF SnapshotInit, Promise!Init

\* A rename puts a valid dataset under an empty name; every other step is not seen.
LEMMA StepMaps == SnapshotInv /\ [SnapshotNext]_snapshotVars => [Promise!Next]_published
<1> SUFFICES ASSUME SnapshotInv, [SnapshotNext]_snapshotVars
             PROVE  [Promise!Next]_published
  OBVIOUS
<1>1. ASSUME NEW p \in Publishers, Rename(p) PROVE Promise!Next
  <2> DEFINE d == target[p]
  <2>1. d \in Datasets /\ delivery[p] \in Deliveries /\ Accepted(delivery[p])
    BY <1>1 DEF SnapshotInv, Aimed, Checked, Rename
  <2>2. published'[d] = delivery[p] /\ published' = [published EXCEPT ![d] = published'[d]]
    BY <1>1, <2>1 DEF SnapshotInv, SnapshotTypeOK, Rename
  <2>3. published[d] = None /\ published'[d] # None
    BY <1>1, <2>1, <2>2, SnapshotAssumption DEF Rename, Free
  <2>4. Promise!Put(d)
    BY <2>1, <2>2, <2>3 DEF Promise!Put
  <2> QED
    BY <2>1, <2>4 DEF Promise!Next
<1>2. ASSUME NEW p \in Publishers,
             \/ \E d \in Datasets, x \in Deliveries : Begin(p, d, x)
             \/ Accept(p) \/ Reject(p) \/ Sign(p) \/ Abort(p) \/ KillPublisher(p)
             \/ \E name \in TableNames : Write(p, name)
      PROVE  UNCHANGED published
  BY <1>2 DEF Begin, Accept, Reject, Sign, Abort, KillPublisher, Write
<1> QED
  BY <1>1, <1>2 DEF SnapshotNext, snapshotVars

\* Whatever the publishers do and wherever they are killed, what readers see is a store
\* whose names are written once, with valid datasets only.
THEOREM SnapshotsAreWrittenOnce == SnapshotSpec => PublishedForGood
<1>1. SnapshotSpec => []SnapshotInv
  BY InitInv, StepInv, PTL DEF SnapshotSpec
<1>2. SnapshotSpec => Promise!Spec
  BY <1>1, InitMaps, StepMaps, PTL DEF SnapshotSpec, Promise!Spec
<1> QED
  BY <1>2 DEF PublishedForGood

-----------------------------------------------------------------------------
(* Part 2: reading as of a day.                                             *)
(*                                                                          *)
(* What is published was delivered, and is typed as the contract has it.    *)

LEMMA SnapshotInvariant == SnapshotSpec => []SnapshotInv
BY InitInv, StepInv, PTL DEF SnapshotSpec

LEMMA ContentsDelivered ==
  ASSUME SnapshotInv
  PROVE  \A x \in Contents : x \in Deliveries /\ Typed(x)
BY SnapshotAssumption DEF Contents, SnapshotInv, SnapshotTypeOK

LEMMA LessThanPairs == \A x, y \in Nat : x < y => <<x, y>> \in OpToRel(<, Nat)
BY Zenon DEF OpToRel

\* A set of naturals that is not empty has a least element, and Min is it.
LEMMA LeastOfNat ==
  ASSUME NEW T \in SUBSET Nat, T # {}
  PROVE  /\ \E x \in T : \A y \in T : x <= y
         /\ Min(T) \in T /\ \A y \in T : Min(T) <= y
<1> DEFINE R == OpToRel(<, Nat)
<1>1. IsWellFoundedOn(R, Nat)
  BY NatLessThanWellFounded
<1>2. \A x, y \in Nat : x < y => <<x, y>> \in R
  BY LessThanPairs
<1> HIDE DEF R
<1>3. PICK x \in T : \A y \in T : ~ (<<y, x>> \in R)
  BY <1>1, WFMin
<1>4. ASSUME NEW y \in T PROVE x <= y
  <2>1. x \in Nat /\ y \in Nat
    OBVIOUS
  <2>2. ~ (y < x)
    BY <1>2, <1>3, <2>1
  <2> QED
    BY <2>1, <2>2
<1>5. \E m \in T : \A y \in T : m <= y
  BY <1>4
<1>6. Min(T) \in T /\ \A y \in T : Min(T) =< y
  BY <1>5 DEF Min
<1> QED
  BY <1>5, <1>6

\* One that is bounded has a greatest, and Max is it.
LEMMA GreatestUpTo ==
  ASSUME NEW n \in Nat, NEW T \in SUBSET (0 .. n), T # {}
  PROVE  Max(T) \in T /\ \A y \in T : y <= Max(T)
<1> DEFINE U == {n - x : x \in T}
<1>1. U \in SUBSET Nat /\ U # {}
  <2>1. \A x \in T : n - x \in Nat
    OBVIOUS
  <2> QED
    BY <2>1
<1>2. PICK u \in U : \A v \in U : u <= v
  BY <1>1, LeastOfNat
<1>3. PICK x \in T : u = n - x
  OBVIOUS
<1>4. ASSUME NEW y \in T PROVE x >= y
  <2>1. n - y \in U
    OBVIOUS
  <2>2. n - x <= n - y
    BY <1>2, <1>3, <2>1
  <2> QED
    BY <2>2
<1>5. Max(T) \in T /\ \A y \in T : Max(T) >= y
  BY <1>4 DEF Max
<1> QED
  BY <1>5

\* In a finite set that is not empty some element has none above it, whatever the strict
\* order R: one with the fewest above it.
LEMMA MaximalExists ==
  ASSUME NEW T, IsFiniteSet(T), T # {}, NEW R,
         \A x, y, z \in T : <<x, y>> \in R /\ <<y, z>> \in R => <<x, z>> \in R,
         \A x \in T : <<x, x>> \notin R
  PROVE  \E x \in T : \A y \in T : <<x, y>> \notin R
<1> DEFINE Above(x) == {y \in T : <<x, y>> \in R}
           size == [x \in T |-> Cardinality(Above(x))]
           U == {size[x] : x \in T}
<1>1. \A x \in T : IsFiniteSet(Above(x)) /\ Cardinality(Above(x)) \in Nat
  BY FS_Subset, FS_CardinalityType
<1>2. \A x \in T : size[x] \in U /\ size[x] = Cardinality(Above(x))
  OBVIOUS
<1>3. PICK u \in U : \A v \in U : u <= v
  <2>1. U # {}
    BY <1>2
  <2>2. U \in SUBSET Nat
    <3>1. size \in [T -> Nat]
      BY <1>1
    <3> HIDE DEF size
    <3> QED
      BY <3>1
  <2> HIDE DEF U
  <2> QED
    BY <2>1, <2>2, LeastOfNat
<1>4. PICK x \in T : u = Cardinality(Above(x))
  BY <1>2
<1>5. ASSUME NEW y \in T, <<x, y>> \in R PROVE FALSE
  <2>1. Above(y) \in SUBSET Above(x) /\ y \in Above(x) /\ y \notin Above(y)
    BY <1>5
  <2>2. /\ Cardinality(Above(y)) <= Cardinality(Above(x))
        /\ Cardinality(Above(y)) # Cardinality(Above(x))
    BY <1>1, <2>1, FS_Subset
  <2>3. Cardinality(Above(x)) <= Cardinality(Above(y))
    <3> HIDE DEF U
    <3> QED
      BY <1>2, <1>3, <1>4
  <2> QED
    BY <1>1, <2>2, <2>3
<1> QED
  BY <1>5

\* A finite set of naturals that is not empty has a greatest element, and Max is it.
LEMMA GreatestOfFinite ==
  ASSUME NEW T \in SUBSET Nat, IsFiniteSet(T), T # {}
  PROVE  Max(T) \in T /\ \A y \in T : y <= Max(T)
<1> DEFINE R == {t \in T \X T : t[1] < t[2]}
<1>1. /\ \A x, y, z \in T : <<x, y>> \in R /\ <<y, z>> \in R => <<x, z>> \in R
      /\ \A x \in T : <<x, x>> \notin R
      /\ \A x, y \in T : <<x, y>> \in R <=> x < y
  OBVIOUS
<1> HIDE DEF R
<1>2. PICK x \in T : \A y \in T : <<x, y>> \notin R
  BY <1>1, MaximalExists
<1>3. ASSUME NEW y \in T PROVE x >= y
  <2>1. x \in Nat /\ y \in Nat
    OBVIOUS
  <2>2. ~ (x < y)
    BY <1>1, <1>2
  <2> QED
    BY <2>1, <2>2
<1>4. Max(T) \in T /\ \A y \in T : Max(T) >= y
  BY <1>3 DEF Max
<1> QED
  BY <1>4

\* There is a last trade day.
LEMMA LastTradeDay == Max(TradeDays) \in Nat
BY FinancialsAssumption, GreatestOfFinite

\* A report may be used from a later day than that of its publication.
LEMMA UsableLater ==
  ASSUME NEW day \in Nat
  PROVE  NextTradeDay(day) \in Nat /\ NextTradeDay(day) > day
<1> DEFINE later == {d \in TradeDays : d > day}
           week == {d \in (day + 1) .. (day + 3) : d % 7 < 5}
<1>1. later \in SUBSET Nat
  BY FinancialsAssumption
<1>2. week \in SUBSET Nat /\ \A d \in week : d > day
  OBVIOUS
<1>3. week # {}
  <2>1. (day + 1) % 7 < 5 \/ (day + 2) % 7 < 5 \/ (day + 3) % 7 < 5
    OBVIOUS
  <2>2. day + 1 \in (day + 1) .. (day + 3) /\ day + 2 \in (day + 1) .. (day + 3)
        /\ day + 3 \in (day + 1) .. (day + 3)
    OBVIOUS
  <2> QED
    BY <2>1, <2>2
<1> DEFINE choice == IF later # {} THEN later ELSE week
<1>4. choice \in SUBSET Nat /\ choice # {} /\ \A d \in choice : d > day
  BY <1>1, <1>2, <1>3
<1> HIDE DEF choice
<1>5. Min(choice) \in choice
  BY <1>4, LeastOfNat
<1>6. NextTradeDay(day) = Min(choice)
  BY DEF NextTradeDay, choice
<1> QED
  BY <1>4, <1>5, <1>6

-----------------------------------------------------------------------------
(* The two query paths.                                                     *)

Dated(rows) == \A r \in rows : r.end \in Nat /\ r.available \in Nat

LEMMA EventsDated ==
  ASSUME NEW S, TypedStatements(S), NEW e \in Events(S)
  PROVE  e.period \in Periods /\ e.available \in Nat
<1>1. PICK s \in S : e = [period |-> s.period, available |-> AvailableAt(s)]
  BY DEF Events
<1>2. s.pub \in Nat /\ s.period \in Periods
  BY DEF TypedStatements
<1> QED
  BY <1>1, <1>2, UsableLater DEF AvailableAt

\* What the processor emits bears the period and the day of an event.
LEMMA MetricOfEvent ==
  ASSUME NEW S, NEW C, NEW m \in Metrics(S, C)
  PROVE  \E e \in Events(S) : m \in Emitted(e, Values(Known(S, e), C, e))
BY DEF Metrics

LEMMA EmittedFields ==
  ASSUME NEW e, NEW v, NEW m \in Emitted(e, v)
  PROVE  /\ m.end = PeriodEnd[e.period] /\ m.available = e.available /\ m.period = e.period
         /\ m.code \in DOMAIN v /\ v[m.code] # None /\ m.value = v[m.code]
BY DEF Emitted

LEMMA MetricsDated ==
  ASSUME NEW x, Typed(x)
  PROVE  Dated(MetricsOf(x))
<1>1. ASSUME NEW m \in Metrics(x.statements, x.capital)
      PROVE  m.end \in Nat /\ m.available \in Nat
  <2>1. PICK e \in Events(x.statements) :
            m \in Emitted(e, Values(Known(x.statements, e), x.capital, e))
    BY MetricOfEvent
  <2>2. e.period \in Periods /\ e.available \in Nat
    BY EventsDated DEF Typed
  <2>3. m.end = PeriodEnd[e.period] /\ m.available = e.available
    BY <2>1, EmittedFields
  <2> QED
    BY <2>2, <2>3, FinancialsAssumption DEF Periods
<1> QED
  BY <1>1 DEF MetricsOf, Dated, Typed

\* The rows that are eligible by the last boundary are those that are visible on the day
\* and whose period has ended: the newest of them is the same.
LEMMA PanelIsLatest ==
  ASSUME NEW rows, Dated(rows), NEW code, NEW last \in Nat, NEW day \in 1 .. last
  PROVE  PanelMetric(rows, code, day, last) = LatestMetric(rows, code, day)
<1> DEFINE seen == Visible(rows, last)
           mine == {o \in seen : o.code = code}
           days == {Eligible(r) : r \in mine}
           past == {d \in days : d <= day}
           own == {r \in Visible(rows, day) : r.code = code /\ r.end <= day}
           upTo(d) == {r \in seen : r.code = code /\ Eligible(r) <= d}
<1>1. \A r \in rows : /\ r.available # None /\ Eligible(r) \in Nat
                      /\ \A d \in Nat : Eligible(r) <= d <=> r.available <= d /\ r.end <= d
  BY FinancialsAssumption DEF Dated, Eligible
<1>2. /\ \A r : r \in seen <=> r \in rows /\ r.available <= last
      /\ \A r : r \in Visible(rows, day) <=> r \in rows /\ r.available <= day
  BY <1>1 DEF Visible
<1>3. own = upTo(day)
  <2>1. \A r \in rows : r.available \in Nat
    BY DEF Dated
  <2>2. day \in Nat /\ day <= last
    OBVIOUS
  <2> HIDE DEF seen
  <2> QED
    BY <1>1, <1>2, <2>1, <2>2
<1>4. days \in SUBSET Nat /\ past \in SUBSET (0 .. day) /\ day \in Nat
  BY <1>1, <1>2
<1>5. (past = {}) <=> (own = {})
  <2>1. own = {r \in mine : Eligible(r) <= day}
    BY <1>3
  <2> HIDE DEF own, mine
  <2> QED
    BY <2>1
<1>6. ASSUME past # {} PROVE upTo(Max(past)) = upTo(day)
  <2>1. Max(past) \in past /\ \A d \in past : d <= Max(past)
    <3> HIDE DEF past
    <3> QED
      BY <1>4, <1>6, GreatestUpTo
  <2> DEFINE top == Max(past)
  <2>2. top \in Nat /\ top <= day
    BY <1>4, <2>1
  <2> HIDE DEF top
  <2>3. ASSUME NEW r \in mine PROVE Eligible(r) <= top <=> Eligible(r) <= day
    <3>1. Eligible(r) \in Nat
      BY <1>1, <1>2
    <3>2. Eligible(r) <= day => Eligible(r) \in past
      BY <3>1
    <3> QED
      BY <2>1, <2>2, <3>1, <3>2 DEF top
  <2>4. upTo(top) = upTo(day)
    BY <2>3
  <2> QED
    BY <2>4 DEF top
<1>7. Boundaries(seen, code) = [d \in days |-> Newest(upTo(d))]
  BY DEF Boundaries, Boundary
<1>8. PanelMetric(rows, code, day, last) =
        IF past = {} THEN None ELSE Boundaries(seen, code)[Max(past)]
  BY <1>7 DEF PanelMetric
<1>9. ASSUME past # {} PROVE Boundaries(seen, code)[Max(past)] = Newest(own)
  <2>1. Max(past) \in days
    <3>1. Max(past) \in past
      <4> HIDE DEF past
      <4> QED
        BY <1>4, <1>9, GreatestUpTo
    <3> QED
      BY <3>1
  <2>2. Boundaries(seen, code)[Max(past)] = Newest(upTo(Max(past)))
    <3> HIDE DEF past, days, upTo
    <3> QED
      BY <1>7, <2>1
  <2> QED
    BY <1>3, <1>6, <1>9, <2>2
<1>10. LatestMetric(rows, code, day) = IF own = {} THEN None ELSE Newest(own)
  BY DEF LatestMetric
<1> HIDE DEF own, past
<1> QED
  BY <1>5, <1>8, <1>9, <1>10

LEMMA DaysTyped == Days \subseteq Nat
BY LastTradeDay DEF Days

\* Whatever is published and whatever the days wanted, the step functions behind the panels
\* answer as latest_metrics does.
THEOREM QueryPathsAgree == SnapshotSpec => []PanelsAgree
<1>1. SnapshotInv => PanelsAgree
  <2> SUFFICES ASSUME SnapshotInv, NEW x \in Contents, NEW code, NEW last \in Days,
                      NEW day \in 1 .. last
               PROVE  PanelMetric(MetricsOf(x), code, day, last)
                        = LatestMetric(MetricsOf(x), code, day)
    BY DEF PanelsAgree
  <2>1. Dated(MetricsOf(x))
    BY ContentsDelivered, MetricsDated
  <2> QED
    BY <2>1, DaysTyped, PanelIsLatest
<1> QED
  BY <1>1, SnapshotInvariant, PTL

-----------------------------------------------------------------------------
(* Nothing is read ahead: the metrics.                                      *)

\* What was known at an event does not depend on what came later.
LEMMA KnownThen ==
  ASSUME NEW S, TypedStatements(S), NEW day \in Nat, NEW e, e.available \in Nat,
         e.available <= day
  PROVE  Known({s \in S : AvailableAt(s) <= day}, e) = Known(S, e)
<1> DEFINE then == {s \in S : AvailableAt(s) <= day}
<1>1. \A s \in S : AvailableAt(s) \in Nat
  BY UsableLater DEF AvailableAt, TypedStatements
<1>2. ASSUME NEW f \in Facts(S), f.available <= e.available PROVE f \in Facts(then)
  <2>1. PICK s \in S : f \in {[report |-> s.id, type |-> s.type, item |-> i, period |-> s.period,
             available |-> AvailableAt(s), value |-> s.items[i]] :
                i \in {j \in DOMAIN s.items : s.items[j] # None}}
    BY DEF Facts
  <2>2. f.available = AvailableAt(s)
    BY <2>1
  <2>3. s \in then
    BY <1>1, <1>2, <2>2
  <2> QED
    BY <2>1, <2>3 DEF Facts
<1>3. ASSUME NEW f \in Facts(then) PROVE f \in Facts(S)
  BY DEF Facts
<1> QED
  BY <1>2, <1>3 DEF Known

LEMMA EventsThen ==
  ASSUME NEW S, NEW day
  PROVE  Events({s \in S : AvailableAt(s) <= day}) = {e \in Events(S) : e.available <= day}
<1> DEFINE then == {s \in S : AvailableAt(s) <= day}
           at(s) == [period |-> s.period, available |-> AvailableAt(s)]
<1>1. /\ Events(S) = {at(s) : s \in {c \in S : c.kind = "current"}}
      /\ Events(then) = {at(s) : s \in {c \in then : c.kind = "current"}}
  BY DEF Events
<1>2. \A s : at(s).available = AvailableAt(s)
  OBVIOUS
<1> HIDE DEF at
<1> QED
  BY <1>1, <1>2

\* Nor does what was computed at it.
LEMMA MetricsThen ==
  ASSUME NEW S, TypedStatements(S), NEW C, \A c \in C : c.available \in Nat, NEW day \in Nat
  PROVE  Metrics({s \in S : AvailableAt(s) <= day}, {c \in C : c.available <= day})
            = {m \in Metrics(S, C) : m.available <= day}
<1> DEFINE S1 == {s \in S : AvailableAt(s) <= day}
           C1 == {c \in C : c.available <= day}
<1>1. ASSUME NEW e \in Events(S), e.available <= day
      PROVE  Values(Known(S1, e), C1, e) = Values(Known(S, e), C, e)
  <2>1. e.available \in Nat
    BY EventsDated
  <2>2. Known(S1, e) = Known(S, e)
    BY <1>1, <2>1, KnownThen
  <2>3. {c \in C1 : c.from <= PeriodEnd[e.period] /\ c.available <= e.available}
          = {c \in C : c.from <= PeriodEnd[e.period] /\ c.available <= e.available}
    BY <1>1, <2>1
  <2> QED
    BY <2>2, <2>3 DEF Values
<1>2. Events(S1) = {e \in Events(S) : e.available <= day}
  BY EventsThen
<1> HIDE DEF S1, C1
<1>3. ASSUME NEW m \in Metrics(S1, C1) PROVE m \in Metrics(S, C) /\ m.available <= day
  <2>1. PICK e \in Events(S1) : m \in Emitted(e, Values(Known(S1, e), C1, e))
    BY MetricOfEvent
  <2>2. e \in Events(S) /\ e.available <= day
    BY <1>2
  <2>3. m \in Emitted(e, Values(Known(S, e), C, e))
    BY <1>1, <2>1, <2>2
  <2>4. m.available = e.available
    BY <2>3, EmittedFields
  <2> QED
    BY <2>2, <2>3, <2>4 DEF Metrics
<1>4. ASSUME NEW m \in Metrics(S, C), m.available <= day PROVE m \in Metrics(S1, C1)
  <2>1. PICK e \in Events(S) : m \in Emitted(e, Values(Known(S, e), C, e))
    BY MetricOfEvent
  <2>2. e.available <= day
    BY <1>4, <2>1, EmittedFields
  <2>3. e \in Events(S1) /\ m \in Emitted(e, Values(Known(S1, e), C1, e))
    BY <1>1, <1>2, <2>1, <2>2
  <2> QED
    BY <2>3 DEF Metrics
<1>5. Metrics(S1, C1) = {m \in Metrics(S, C) : m.available <= day}
  BY <1>3, <1>4
<1> QED
  BY <1>5 DEF S1, C1

LEMMA LatestThen ==
  ASSUME NEW rows, Dated(rows), NEW code, NEW day \in Nat
  PROVE  LatestMetric({m \in rows : m.available <= day}, code, day) = LatestMetric(rows, code, day)
<1>1. \A r \in rows : r.available # None
  BY FinancialsAssumption DEF Dated
<1>2. Visible({m \in rows : m.available <= day}, day) = Visible(rows, day)
  BY <1>1 DEF Visible
<1> QED
  BY <1>2 DEF LatestMetric

-----------------------------------------------------------------------------
(* Nothing is read ahead: the adjusted bars.                                *)

\* A set of the first numbers is as long as it is large.
LEMMA Prefix ==
  ASSUME NEW m \in Nat, NEW D \in SUBSET (1 .. m),
         \A i \in D : \A j \in 1 .. m : j < i => j \in D
  PROVE  Cardinality(D) \in 0 .. m /\ D = 1 .. Cardinality(D)
<1>1. CASE D = {}
  <2>1. Cardinality(D) = 0
    BY <1>1, FS_EmptySet
  <2> QED
    BY <1>1, <2>1
<1>2. CASE D # {}
  <2> DEFINE top == Max(D)
  <2>1. top \in D /\ \A i \in D : i <= top
    <3>1. D \in SUBSET (0 .. m)
      OBVIOUS
    <3> QED
      BY <1>2, <3>1, GreatestUpTo
  <2> HIDE DEF top
  <2>2. top \in 1 .. m
    BY <2>1
  <2>3. \A j \in 1 .. top : j \in D
    BY <2>1, <2>2
  <2>4. D = 1 .. top
    <3>1. ASSUME NEW i \in D PROVE i \in 1 .. top
      <4>1. i \in 1 .. m /\ i <= top
        BY <2>1
      <4> QED
        BY <4>1, <2>2
    <3> QED
      BY <3>1, <2>3
  <2>5. Cardinality(D) = top
    BY <2>2, <2>4, FS_Interval
  <2> QED
    BY <2>2, <2>4, <2>5
<1> QED
  BY <1>1, <1>2

LEMMA BarsAreFirst ==
  ASSUME NEW x, Typed(x), NEW day \in Nat
  PROVE  /\ BarsUntil(x, day) \in 0 .. Len(x.bars)
         /\ \A i \in 1 .. BarsUntil(x, day) : i \in 1 .. Len(x.bars) /\ x.bars[i].day <= day
<1>1. /\ Len(x.bars) \in Nat /\ DOMAIN x.bars = 1 .. Len(x.bars)
      /\ \A i \in 1 .. Len(x.bars) : x.bars[i].day \in Nat
      /\ \A i, j \in 1 .. Len(x.bars) : i < j => x.bars[i].day < x.bars[j].day
  <2> DEFINE Bars == [day : Nat, close : Int, pre : Int]
  <2>1. /\ x.bars \in Seq(Bars)
        /\ \A i, j \in DOMAIN x.bars : i < j => x.bars[i].day < x.bars[j].day
    BY DEF Typed, TypedPrices
  <2>2. \A b \in Bars : b.day \in Nat
    OBVIOUS
  <2> HIDE DEF Bars
  <2> QED
    BY <2>1, <2>2
<1> DEFINE D == {i \in DOMAIN x.bars : x.bars[i].day <= day}
           m == Len(x.bars)
<1>2. D \in SUBSET (1 .. m) /\ \A i \in D : \A j \in 1 .. m : j < i => j \in D
  BY <1>1
<1>3. \A i \in D : x.bars[i].day <= day
  OBVIOUS
<1>4. m \in Nat
  BY <1>1
<1>5. BarsUntil(x, day) = Cardinality(D)
  BY DEF BarsUntil
<1> HIDE DEF D, m
<1>6. Cardinality(D) \in 0 .. m /\ D = 1 .. Cardinality(D)
  BY <1>2, <1>4, Prefix
<1>7. \A i \in 1 .. BarsUntil(x, day) : i \in D /\ i \in 1 .. m
  BY <1>2, <1>5, <1>6
<1> QED
  BY <1>3, <1>5, <1>6, <1>7 DEF m

\* What has become of a dataset by a day, field by field.
LEMMA UntilFields ==
  ASSUME NEW x \in Deliveries, NEW day \in Nat
  PROVE  LET y == Until(x, day)
             n == BarsUntil(x, day)
         IN  /\ y.statements = {s \in x.statements : AvailableAt(s) <= day}
             /\ y.capital = {c \in x.capital : c.available <= day}
             /\ y.metrics = {m \in x.metrics : m.available <= day}
             /\ y.actions = {a \in x.actions : a.ex <= day}
             /\ y.bars = SubSeq(x.bars, 1, n)
             /\ y.vendor = (IF x.vendor = None THEN None ELSE SubSeq(x.vendor, 1, n))
             /\ y.mode = x.mode
BY DEF Until

\* Bars and vendor factors up to a day are the first ones.
LEMMA BarsThen ==
  ASSUME NEW x \in Deliveries, NEW day \in Nat
  PROVE  LET y == Until(x, day)
             n == BarsUntil(x, day)
         IN  /\ n \in Nat /\ n <= Len(x.bars) /\ Len(y.bars) = n
             /\ \A i \in 1 .. n : y.bars[i] = x.bars[i] /\ x.bars[i].day <= day
             /\ (y.vendor = None) <=> (x.vendor = None)
             /\ x.vendor # None => \A i \in 1 .. n : y.vendor[i] = x.vendor[i]
<1> DEFINE y == Until(x, day)
           n == BarsUntil(x, day)
           Bars == [day : Nat, close : Int, pre : Int]
<1>1. Typed(x)
  BY SnapshotAssumption
<1>2. n \in 0 .. Len(x.bars) /\ \A i \in 1 .. n : i \in 1 .. Len(x.bars) /\ x.bars[i].day <= day
  BY <1>1, BarsAreFirst
<1>3. x.bars \in Seq(Bars) /\ (x.vendor # None => x.vendor \in Seq(Int) /\ Len(x.vendor) = Len(x.bars))
  BY <1>1 DEF Typed, TypedPrices
<1>4. y.bars = SubSeq(x.bars, 1, n) /\ y.vendor = (IF x.vendor = None THEN None ELSE SubSeq(x.vendor, 1, n))
  BY UntilFields
<1> HIDE DEF y, n, Bars
<1>5. Len(x.bars) \in Nat
  BY <1>3
<1>6. n \in Nat /\ n <= Len(x.bars)
  BY <1>2, <1>5
<1>7. Len(y.bars) = n /\ \A i \in 1 .. n : y.bars[i] = x.bars[i]
  <2>1. \A i \in 1 .. n : x.bars[i] \in Bars
    BY <1>2, <1>3
  <2>2. /\ Len(SubSeq(x.bars, 1, n)) = IF 1 <= n THEN n - 1 + 1 ELSE 0
        /\ \A i \in 1 .. n - 1 + 1 : SubSeq(x.bars, 1, n)[i] = x.bars[1 + i - 1]
    BY <1>6, <2>1, SubSeqProperties
  <2> QED
    BY <1>4, <1>6, <2>2
<1>8. ASSUME x.vendor # None
      PROVE  y.vendor # None /\ \A i \in 1 .. n : y.vendor[i] = x.vendor[i]
  <2>1. \A i \in 1 .. n : x.vendor[i] \in Int
    BY <1>2, <1>3, <1>8
  <2>2. /\ SubSeq(x.vendor, 1, n) \in Seq(Int)
        /\ \A i \in 1 .. n - 1 + 1 : SubSeq(x.vendor, 1, n)[i] = x.vendor[1 + i - 1]
    BY <1>6, <2>1, SubSeqProperties
  <2>3. y.vendor = SubSeq(x.vendor, 1, n)
    BY <1>4, <1>8
  <2>4. y.vendor # None
    BY <2>2, <2>3, SnapshotAssumption
  <2>5. \A i \in 1 .. n : i \in 1 .. n - 1 + 1 /\ 1 + i - 1 = i
    BY <1>6
  <2> QED
    BY <2>2, <2>3, <2>4, <2>5
<1>9. x.vendor = None => y.vendor = None
  BY <1>4
<1> QED
  BY <1>2, <1>6, <1>7, <1>8, <1>9 DEF y, n

\* The running factor up to a bar is made of the bars and actions up to it.
LEMMA FactorThen ==
  ASSUME NEW x \in Deliveries, NEW day \in Nat, NEW i \in 1 .. BarsUntil(x, day)
  PROVE  Factor(Until(x, day).bars, Until(x, day).actions, Until(x, day).vendor,
                Until(x, day).mode, i)
            = Factor(x.bars, x.actions, x.vendor, x.mode, i)
<1> DEFINE y == Until(x, day)
           n == BarsUntil(x, day)
<1>1. /\ n \in Nat /\ \A j \in 1 .. n : y.bars[j] = x.bars[j] /\ x.bars[j].day <= day
      /\ (y.vendor = None) <=> (x.vendor = None)
      /\ x.vendor # None => \A j \in 1 .. n : y.vendor[j] = x.vendor[j]
  BY BarsThen
<1>2. y.actions = {a \in x.actions : a.ex <= day} /\ y.mode = x.mode
  BY UntilFields
<1> HIDE DEF y, n
<1>3. i \in 1 .. n
  BY DEF n
<1>4. ASSUME NEW j \in 1 .. n PROVE Step(y.bars, y.actions, j) = Step(x.bars, x.actions, j)
  <2>1. y.bars[j] = x.bars[j] /\ x.bars[j].day <= day
    BY <1>1
  <2>2. OfDay(y.actions, y.bars[j].day) = OfDay(x.actions, x.bars[j].day)
    BY <1>2, <2>1 DEF OfDay
  <2>3. CASE j = 1
    BY <2>3 DEF Step
  <2>4. CASE j # 1
    <3>1. j - 1 \in 1 .. n
      BY <1>1, <2>4
    <3>2. y.bars[j - 1] = x.bars[j - 1]
      BY <1>1, <3>1
    <3> QED
      BY <2>1, <2>2, <3>2 DEF Step
  <2> QED
    BY <2>3, <2>4
<1>5. FactorOf(y.bars, y.actions, i) = FactorOf(x.bars, x.actions, i)
  <2>1. \A j \in 1 .. i : j \in 1 .. n
    BY <1>1, <1>3
  <2>2. [j \in 1 .. i |-> Step(y.bars, y.actions, j)] = [j \in 1 .. i |-> Step(x.bars, x.actions, j)]
    BY <1>4, <2>1
  <2> QED
    BY <2>2 DEF FactorOf
<1>6. x.vendor # None => y.vendor[i] = x.vendor[i] /\ y.vendor[1] = x.vendor[1]
  <2>1. 1 \in 1 .. n
    BY <1>1, <1>3
  <2> QED
    BY <1>1, <1>3, <2>1
<1> QED
  BY <1>1, <1>2, <1>5, <1>6 DEF Factor, y

LEMMA PostThen ==
  ASSUME NEW x \in Deliveries, NEW day \in Nat
  PROVE  PostOf(Until(x, day)) = SubSeq(PostOf(x), 1, Len(Until(x, day).bars))
<1> DEFINE y == Until(x, day)
           n == BarsUntil(x, day)
           f(i) == Factor(x.bars, x.actions, x.vendor, x.mode, i)
           g(i) == Factor(y.bars, y.actions, y.vendor, y.mode, i)
           Of(i) == [day |-> x.bars[i].day, factor |-> f(i),
                     close |-> Times(<<x.bars[i].close, 1>>, f(i)),
                     pre |-> IF i = 1 THEN Times(<<x.bars[i].pre, 1>>, f(i))
                             ELSE Times(<<x.bars[i - 1].close, 1>>, f(i - 1))]
           Then(i) == [day |-> y.bars[i].day, factor |-> g(i),
                       close |-> Times(<<y.bars[i].close, 1>>, g(i)),
                       pre |-> IF i = 1 THEN Times(<<y.bars[i].pre, 1>>, g(i))
                               ELSE Times(<<y.bars[i - 1].close, 1>>, g(i - 1))]
<1>1. /\ n \in Nat /\ n <= Len(x.bars) /\ Len(y.bars) = n
      /\ \A i \in 1 .. n : y.bars[i] = x.bars[i]
  BY BarsThen
<1>2. Len(x.bars) \in Nat
  BY SnapshotAssumption DEF Typed, TypedPrices
<1>3. \A i \in 1 .. n : g(i) = f(i)
  BY FactorThen
<1> HIDE DEF f, g, n
<1>4. ASSUME NEW i \in 1 .. n PROVE Then(i) = Of(i)
  <2>1. CASE i = 1
    BY <1>1, <1>3, <2>1
  <2>2. CASE i # 1
    <3>1. i - 1 \in 1 .. n
      BY <1>1, <2>2
    <3> QED
      BY <1>1, <1>3, <2>2, <3>1
  <2> QED
    BY <2>1, <2>2
<1>5. /\ PostOf(y) = [i \in 1 .. Len(y.bars) |-> Then(i)]
      /\ PostOf(x) = [i \in 1 .. Len(x.bars) |-> Of(i)]
  BY DEF PostOf, PostBars, f, g
<1> HIDE DEF y, Of, Then
<1> DEFINE post == PostOf(x)
           Rows == {Of(i) : i \in 1 .. Len(x.bars)}
<1>6. \A i \in 1 .. n : post[i] = Of(i) /\ post[i] \in Rows
  BY <1>1, <1>2, <1>5
<1> HIDE DEF post, Rows
<1>7. /\ SubSeq(post, 1, n) \in Seq(Rows)
      /\ Len(SubSeq(post, 1, n)) = IF 1 <= n THEN n - 1 + 1 ELSE 0
      /\ \A i \in 1 .. n - 1 + 1 : SubSeq(post, 1, n)[i] = post[1 + i - 1]
  BY <1>1, <1>6, SubSeqProperties
<1>8. SubSeq(post, 1, n) = [i \in 1 .. n |-> Of(i)]
  <2>1. Len(SubSeq(post, 1, n)) = n
    BY <1>1, <1>7
  <2>2. \A i \in 1 .. n : SubSeq(post, 1, n)[i] = Of(i)
    BY <1>1, <1>6, <1>7
  <2> QED
    BY <1>7, <2>1, <2>2
<1>9. [i \in 1 .. n |-> Then(i)] = [i \in 1 .. n |-> Of(i)]
  BY <1>4
<1> QED
  BY <1>1, <1>5, <1>8, <1>9 DEF post, y

\* Whatever is published, no later statement, share capital, action or bar changes what is
\* read as of a day: neither a metric nor an adjusted bar.
THEOREM NothingReadAhead == SnapshotSpec => []NoLookAhead
<1>1. SnapshotInv => NoLookAhead
  <2> SUFFICES ASSUME SnapshotInv, NEW x \in Contents, NEW day \in Days
               PROVE  LET y == Until(x, day) IN
                      /\ \A code \in {m.code : m \in MetricsOf(x)} :
                            LatestMetric(MetricsOf(x), code, day)
                              = LatestMetric(MetricsOf(y), code, day)
                      /\ PostOf(y) = SubSeq(PostOf(x), 1, Len(y.bars))
    BY DEF NoLookAhead
  <2> DEFINE y == Until(x, day)
  <2>1. x \in Deliveries /\ Typed(x) /\ day \in Nat
    BY ContentsDelivered, DaysTyped
  <2>2. MetricsOf(y) = {m \in MetricsOf(x) : m.available <= day}
    <3>1. Metrics(y.statements, y.capital)
            = {m \in Metrics(x.statements, x.capital) : m.available <= day}
      <4>1. TypedStatements(x.statements) /\ \A c \in x.capital : c.available \in Nat
        BY <2>1 DEF Typed
      <4>2. /\ y.statements = {s \in x.statements : AvailableAt(s) <= day}
            /\ y.capital = {c \in x.capital : c.available <= day}
        BY <2>1, UntilFields
      <4> HIDE DEF y
      <4> QED
        BY <2>1, <4>1, <4>2, MetricsThen
    <3>2. y.metrics = {m \in x.metrics : m.available <= day}
      BY <2>1, UntilFields
    <3> QED
      BY <3>1, <3>2 DEF MetricsOf
  <2>3. Dated(MetricsOf(x))
    BY <2>1, MetricsDated
  <2>4. \A code : LatestMetric(MetricsOf(x), code, day) = LatestMetric(MetricsOf(y), code, day)
    <3> HIDE DEF y
    <3> QED
      BY <2>1, <2>2, <2>3, LatestThen
  <2>5. PostOf(y) = SubSeq(PostOf(x), 1, Len(y.bars))
    BY <2>1, PostThen
  <2> QED
    BY <2>4, <2>5
<1> QED
  BY <1>1, SnapshotInvariant, PTL

-----------------------------------------------------------------------------
(* Part 3: what the processor builds.                                       *)

ReportOf(s, S) ==
    [report |-> s.id, type |-> s.type, kind |-> s.kind, period |-> s.period,
     published |-> s.pub, available |-> AvailableAt(s), revision |-> Revision(s, S)]

\* The validator counts the reports that the processor counted the statements of.
LEMMA RevisionsAgree ==
  ASSUME NEW S, TypedStatements(S), NEW s \in S
  PROVE  LET r == ReportOf(s, S)
             own == {o \in Reports(S) : o.type = r.type /\ o.period = r.period}
         IN  r.revision = 1 + Cardinality({o \in own :
                \/ o.available < r.available
                \/ o.available = r.available /\ Rank(o) < Rank(r)
                \/ o.available = r.available /\ Rank(o) = Rank(r) /\ o.report < r.report})
<1> DEFINE r == ReportOf(s, S)
           own == {o \in Reports(S) : o.type = r.type /\ o.period = r.period}
           Before(o) == \/ o.available < r.available
                        \/ o.available = r.available /\ Rank(o) < Rank(r)
                        \/ o.available = r.available /\ Rank(o) = Rank(r) /\ o.report < r.report
           counted == {o \in own : Before(o)}
           revised == {t \in S : Revises(t, s)}
           h == [t \in revised |-> ReportOf(t, S)]
<1>1. Reports(S) = {ReportOf(t, S) : t \in S}
  BY DEF Reports, ReportOf
<1>2. ASSUME NEW t \in S
      PROVE  /\ ReportOf(t, S).report = t.id /\ ReportOf(t, S).type = t.type
             /\ ReportOf(t, S).period = t.period /\ ReportOf(t, S).available = AvailableAt(t)
             /\ Rank(ReportOf(t, S)) = Rank(t)
  BY DEF ReportOf, Rank
<1>3. ASSUME NEW t \in S PROVE Revises(t, s) <=> ReportOf(t, S) \in counted
  <2>1. ReportOf(t, S) \in Reports(S)
    BY <1>1
  <2> QED
    BY <1>2, <2>1 DEF Revises
<1> HIDE DEF r
<1>4. h \in Bijection(revised, counted)
  <2>1. h \in [revised -> counted]
    BY <1>3
  <2>2. \A t, u \in revised : h[t] = h[u] => t = u
    <3> SUFFICES ASSUME NEW t \in revised, NEW u \in revised, h[t] = h[u] PROVE t = u
      OBVIOUS
    <3>1. ReportOf(t, S) = ReportOf(u, S)
      OBVIOUS
    <3>2. t.id = u.id
      BY <1>2, <3>1
    <3> QED
      BY <3>2 DEF TypedStatements
  <2>3. \A o \in counted : \E t \in revised : h[t] = o
    <3> SUFFICES ASSUME NEW o \in counted PROVE \E t \in revised : h[t] = o
      OBVIOUS
    <3>1. PICK t \in S : o = ReportOf(t, S)
      BY <1>1
    <3>2. t \in revised
      BY <1>3, <3>1
    <3> QED
      BY <3>1, <3>2
  <2> HIDE DEF h, revised, counted
  <2> QED
    BY <2>1, <2>2, <2>3 DEF Bijection, Injection, Surjection, IsInjective
<1>5. IsFiniteSet(revised)
  BY FS_Subset DEF TypedStatements
<1>6. Cardinality(counted) = Cardinality(revised)
  <2> HIDE DEF h, revised, counted
  <2> QED
    BY <1>4, <1>5, FS_Bijection DEF ExistsBijection
<1>7. r.revision = 1 + Cardinality(revised)
  BY DEF r, ReportOf, Revision
<1>8. r.revision = 1 + Cardinality(counted)
  BY <1>6, <1>7
<1> QED
  BY <1>8 DEF r

LEMMA BuiltReportsValid ==
  ASSUME NEW S, TypedStatements(S), \A s \in S : s.pub >= PeriodEnd[s.period]
  PROVE  ValidReports(Reports(S))
<1>1. Reports(S) = {ReportOf(t, S) : t \in S}
  BY DEF Reports, ReportOf
<1>2. ASSUME NEW r \in Reports(S) PROVE r.published <= r.available /\ PeriodEnd[r.period] < r.available
  <2>1. PICK s \in S : r = ReportOf(s, S)
    BY <1>1
  <2>2. r.published = s.pub /\ r.available = AvailableAt(s) /\ r.period = s.period
    BY <2>1 DEF ReportOf
  <2>3. s.pub \in Nat /\ s.period \in Periods
    BY DEF TypedStatements
  <2>4. AvailableAt(s) \in Nat /\ AvailableAt(s) > s.pub
    BY <2>3, UsableLater DEF AvailableAt
  <2>5. PeriodEnd[s.period] \in Nat /\ s.pub >= PeriodEnd[s.period]
    BY <2>3, FinancialsAssumption DEF Periods
  <2> QED
    BY <2>2, <2>3, <2>4, <2>5
<1>3. ASSUME NEW r \in Reports(S)
      PROVE  LET own == {o \in Reports(S) : o.type = r.type /\ o.period = r.period}
             IN  r.revision = 1 + Cardinality({o \in own :
                    \/ o.available < r.available
                    \/ o.available = r.available /\ Rank(o) < Rank(r)
                    \/ o.available = r.available /\ Rank(o) = Rank(r) /\ o.report < r.report})
  BY <1>1, RevisionsAgree
<1> QED
  BY <1>2, <1>3 DEF ValidReports

LEMMA BuiltFactsValid ==
  ASSUME NEW S
  PROVE  ValidFacts(Facts(S), Reports(S))
<1> SUFFICES ASSUME NEW f \in Facts(S)
             PROVE  \E r \in Reports(S) : /\ r.report = f.report /\ r.type = f.type
                                          /\ r.period = f.period /\ r.available = f.available
  BY DEF ValidFacts
<1>1. PICK s \in S : f \in {[report |-> s.id, type |-> s.type, item |-> i, period |-> s.period,
             available |-> AvailableAt(s), value |-> s.items[i]] :
                i \in {j \in DOMAIN s.items : s.items[j] # None}}
  BY DEF Facts
<1>2. f.report = s.id /\ f.type = s.type /\ f.period = s.period /\ f.available = AvailableAt(s)
  BY <1>1
<1>3. ReportOf(s, S) \in Reports(S)
  BY DEF Reports, ReportOf
<1>4. /\ ReportOf(s, S).report = s.id /\ ReportOf(s, S).type = s.type
      /\ ReportOf(s, S).period = s.period /\ ReportOf(s, S).available = AvailableAt(s)
  BY DEF ReportOf
<1> QED
  BY <1>2, <1>3, <1>4

LEMMA BuiltMetricsValid ==
  ASSUME NEW S, TypedStatements(S), \A s \in S : s.pub >= PeriodEnd[s.period], NEW C
  PROVE  ValidMetrics(Metrics(S, C))
<1> SUFFICES ASSUME NEW m \in Metrics(S, C) PROVE m.end < m.available
  BY DEF ValidMetrics
<1>1. PICK e \in Events(S) : m \in Emitted(e, Values(Known(S, e), C, e))
  BY MetricOfEvent
<1>2. PICK s \in S : e = [period |-> s.period, available |-> AvailableAt(s)]
  BY DEF Events
<1>3. m.end = PeriodEnd[s.period] /\ m.available = AvailableAt(s)
  BY <1>1, <1>2, EmittedFields
<1>4. s.pub \in Nat /\ s.period \in Periods
  BY DEF TypedStatements
<1>5. AvailableAt(s) \in Nat /\ AvailableAt(s) > s.pub
  BY <1>4, UsableLater DEF AvailableAt
<1>6. PeriodEnd[s.period] \in Nat /\ s.pub >= PeriodEnd[s.period]
  BY <1>4, FinancialsAssumption DEF Periods
<1> QED
  BY <1>3, <1>4, <1>5, <1>6

\* The validator accepts the reports, facts and metrics that the processor makes of any
\* statements which were published after their period ended.
THEOREM ProcessorPassesValidator == SnapshotSpec => []BuiltIsValid
<1>1. SnapshotInv => BuiltIsValid
  <2> SUFFICES ASSUME SnapshotInv, NEW p \in Publishers, ppc[p] = "checking",
                      \A s \in delivery[p].statements : s.pub >= PeriodEnd[s.period]
               PROVE  ValidFinancials(ReportsOf(delivery[p]), FactsOf(delivery[p]),
                               Metrics(delivery[p].statements, delivery[p].capital))
    BY DEF BuiltIsValid
  <2>1. TypedStatements(delivery[p].statements)
    BY SnapshotAssumption DEF SnapshotInv, Aimed, Typed
  <2> QED
    BY <2>1, BuiltReportsValid, BuiltFactsValid, BuiltMetricsValid
    DEF ValidFinancials, ReportsOf, FactsOf
<1> QED
  BY <1>1, SnapshotInvariant, PTL

-----------------------------------------------------------------------------
(* Trailing years.                                                          *)

\* The statement a fact comes from.
LEMMA FactSource ==
  ASSUME NEW S, NEW f \in Facts(S)
  PROVE  \E s \in S : /\ f.report = s.id /\ f.available = AvailableAt(s)
                      /\ f.item \in DOMAIN s.items /\ f.value = s.items[f.item] /\ f.value # None
<1>1. PICK s \in S : f \in {[report |-> s.id, type |-> s.type, item |-> i, period |-> s.period,
             available |-> AvailableAt(s), value |-> s.items[i]] :
                i \in {j \in DOMAIN s.items : s.items[j] # None}}
  BY DEF Facts
<1> QED
  BY <1>1

\* Of some facts the last is one of them, and its value a number.
LEMMA LatestTyped ==
  ASSUME NEW S, TypedStatements(S), NEW own \in SUBSET Facts(S)
  PROVE  Latest(own) \in Int \union {None}
<1>1. CASE own = {}
  BY <1>1 DEF Latest
<1>2. CASE own # {}
  <2> DEFINE From(f, s) == /\ f.report = s.id /\ f.available = AvailableAt(s)
                           /\ f.value \in Int
             T == {s \in S : \E f \in own : From(f, s)}
             R == {t \in T \X T : \/ AvailableAt(t[1]) < AvailableAt(t[2])
                                  \/ AvailableAt(t[1]) = AvailableAt(t[2]) /\ t[1].id < t[2].id}
  <2>1. \A f \in own : \E s \in S : From(f, s)
    <3> SUFFICES ASSUME NEW f \in own PROVE \E s \in S : From(f, s)
      OBVIOUS
    <3>1. PICK s \in S : /\ f.report = s.id /\ f.available = AvailableAt(s)
                         /\ f.item \in DOMAIN s.items /\ f.value = s.items[f.item]
                         /\ f.value # None
      BY FactSource
    <3>2. f.value \in Int
      BY <3>1 DEF TypedStatements
    <3> QED
      BY <3>1, <3>2
  <2> HIDE DEF From
  <2>2. IsFiniteSet(T)
    BY FS_Subset DEF TypedStatements
  <2>3. T # {}
    BY <1>2, <2>1
  <2>4. \A s \in T : AvailableAt(s) \in Nat /\ s.id \in Nat
    BY UsableLater DEF TypedStatements, AvailableAt
  <2>5. /\ \A x, y \in T : <<x, y>> \in R <=>
                \/ AvailableAt(x) < AvailableAt(y)
                \/ AvailableAt(x) = AvailableAt(y) /\ x.id < y.id
    OBVIOUS
  <2>6. T \subseteq S /\ \A s \in T : \E f \in own : From(f, s)
    OBVIOUS
  <2>7. \A f \in own : \E s \in T : From(f, s)
    BY <2>1
  <2> HIDE DEF R, T
  <2>8. /\ \A x, y, z \in T : <<x, y>> \in R /\ <<y, z>> \in R => <<x, z>> \in R
        /\ \A x \in T : <<x, x>> \notin R
    BY <2>4, <2>5
  <2>9. PICK s \in T : \A t \in T : <<s, t>> \notin R
    BY <2>2, <2>3, <2>8, MaximalExists
  <2>10. PICK f \in own : From(f, s)
    BY <2>6
  <2>11. ASSUME NEW o \in own
         PROVE  \/ o.available < f.available
                \/ o.available = f.available /\ o.report <= f.report
    <3>1. PICK t \in T : From(o, t)
      BY <2>7
    <3>2. /\ AvailableAt(s) \in Nat /\ s.id \in Nat /\ AvailableAt(t) \in Nat /\ t.id \in Nat
          /\ ~ (AvailableAt(s) < AvailableAt(t))
          /\ ~ (AvailableAt(s) = AvailableAt(t) /\ s.id < t.id)
      BY <2>4, <2>5, <2>9
    <3> QED
      BY <2>10, <3>1, <3>2 DEF From
  <2> DEFINE last == CHOOSE g \in own : \A o \in own :
                        \/ o.available < g.available
                        \/ o.available = g.available /\ o.report <= g.report
  <2>12. last \in own
    BY <2>11
  <2>13. Latest(own) = last.value
    BY <1>2 DEF Latest
  <2> HIDE DEF last
  <2>14. last.value \in Int
    BY <2>1, <2>12 DEF From
  <2> QED
    BY <2>13, <2>14
<1> QED
  BY <1>1, <1>2

LEMMA RevenueTyped ==
  ASSUME NEW S, TypedStatements(S), NEW e, NEW q
  PROVE  Revenue(Known(S, e), q) \in Int \union {None}
<1> DEFINE K == Known(S, e)
           values == [i \in DOMAIN Income |-> Fact(K, "income", Income[i], q)]
           has == {i \in DOMAIN values : values[i] # None}
<1>1. \A i : Fact(K, "income", Income[i], q) \in Int \union {None}
  <2> TAKE i
  <2>1. {f \in K : f.type = "income" /\ f.item = Income[i] /\ f.period = q} \in SUBSET Facts(S)
    BY DEF Known
  <2> QED
    BY <2>1, LatestTyped DEF Fact
<1>2. DOMAIN Income = 1 .. 2
  BY DEF Income
<1> HIDE DEF K
<1>3. values \in [1 .. 2 -> Int \union {None}]
  BY <1>1, <1>2
<1> HIDE DEF values
<1>4. FirstOf(values) \in Int \union {None}
  <2>1. CASE has = {}
    BY <2>1 DEF FirstOf
  <2>2. CASE has # {}
    <3>1. has \in SUBSET Nat /\ has \subseteq 1 .. 2
      BY <1>3
    <3>2. FirstOf(values) = values[Min(has)]
      BY <2>2 DEF FirstOf
    <3> HIDE DEF has
    <3>3. Min(has) \in has
      BY <2>2, <3>1, LeastOfNat
    <3> QED
      BY <1>3, <3>1, <3>2, <3>3
  <2> QED
    BY <2>1, <2>2
<1>5. FirstFact(K, "income", Income, q) = FirstOf(values)
  BY DEF FirstFact, values
<1> QED
  BY <1>4, <1>5 DEF Revenue, K

\* A single quarter is known when its two year-to-date values are.
LEMMA SingleQuarter ==
  ASSUME NEW S, TypedStatements(S), NEW e, NEW q \in Int, Single(Known(S, e), q) # None
  PROVE  /\ Revenue(Known(S, e), q) \in Int
         /\ QuarterOf(q) = 1 => Single(Known(S, e), q) = Revenue(Known(S, e), q)
         /\ QuarterOf(q) # 1 => /\ Revenue(Known(S, e), q - 1) \in Int
                                /\ Single(Known(S, e), q)
                                     = Revenue(Known(S, e), q) - Revenue(Known(S, e), q - 1)
<1> DEFINE now == Revenue(Known(S, e), q)
           before == Revenue(Known(S, e), q - 1)
<1>1. now \in Int \union {None} /\ before \in Int \union {None}
  BY RevenueTyped
<1>2. Single(Known(S, e), q) = Less(now, IF QuarterOf(q) = 1 THEN 0 ELSE before)
  BY DEF Single
<1> HIDE DEF now, before
<1>3. None \notin Int
  BY FinancialsAssumption
<1>4. CASE QuarterOf(q) = 1
  BY <1>1, <1>2, <1>3, <1>4 DEF Less, now
<1>5. CASE QuarterOf(q) # 1
  BY <1>1, <1>2, <1>3, <1>5 DEF Less, now, before
<1> QED
  BY <1>4, <1>5

\* What four quarters add up to, by the quarter the last of them is.
LEMMA FourQuarters ==
  ASSUME NEW S, TypedStatements(S), NEW e, NEW p \in Int,
         \A q \in (p - 3) .. p : Single(Known(S, e), q) # None
  PROVE  LET R(q) == Revenue(Known(S, e), q)
             D(q) == Single(Known(S, e), q)
             sum == D(p - 3) + D(p - 2) + D(p - 1) + D(p)
         IN  IF QuarterOf(p) = 4 THEN R(p) \in Int /\ sum = R(p)
             ELSE /\ R(p) \in Int /\ R(p - QuarterOf(p)) \in Int /\ R(p - 4) \in Int
                  /\ sum = R(p) + R(p - QuarterOf(p)) - R(p - 4)
<1> DEFINE R(q) == Revenue(Known(S, e), q)
           D(q) == Single(Known(S, e), q)
<1>1. ASSUME NEW q \in (p - 3) .. p
      PROVE  /\ R(q) \in Int
             /\ QuarterOf(q) = 1 => D(q) = R(q)
             /\ QuarterOf(q) # 1 => R(q - 1) \in Int /\ D(q) = R(q) - R(q - 1)
  BY SingleQuarter
<1>2. /\ p - 3 \in (p - 3) .. p /\ p - 2 \in (p - 3) .. p /\ p - 1 \in (p - 3) .. p
      /\ p \in (p - 3) .. p
      /\ p - 3 - 1 = p - 4 /\ p - 2 - 1 = p - 3 /\ p - 1 - 1 = p - 2
  OBVIOUS
<1> HIDE DEF R, D
<1>3. /\ R(p - 3) \in Int /\ R(p - 2) \in Int /\ R(p - 1) \in Int /\ R(p) \in Int
      /\ QuarterOf(p) = 1 => D(p) = R(p)
      /\ QuarterOf(p) # 1 => D(p) = R(p) - R(p - 1)
      /\ QuarterOf(p - 1) = 1 => D(p - 1) = R(p - 1)
      /\ QuarterOf(p - 1) # 1 => D(p - 1) = R(p - 1) - R(p - 2)
      /\ QuarterOf(p - 2) = 1 => D(p - 2) = R(p - 2)
      /\ QuarterOf(p - 2) # 1 => D(p - 2) = R(p - 2) - R(p - 3)
      /\ QuarterOf(p - 3) = 1 => D(p - 3) = R(p - 3)
      /\ QuarterOf(p - 3) # 1 => R(p - 4) \in Int /\ D(p - 3) = R(p - 3) - R(p - 4)
  BY <1>1, <1>2
<1>4. /\ QuarterOf(p) \in 1 .. 4
      /\ QuarterOf(p) = 1 => QuarterOf(p - 1) = 4 /\ QuarterOf(p - 2) = 3 /\ QuarterOf(p - 3) = 2
      /\ QuarterOf(p) = 2 => QuarterOf(p - 1) = 1 /\ QuarterOf(p - 2) = 4 /\ QuarterOf(p - 3) = 3
      /\ QuarterOf(p) = 3 => QuarterOf(p - 1) = 2 /\ QuarterOf(p - 2) = 1 /\ QuarterOf(p - 3) = 4
      /\ QuarterOf(p) = 4 => QuarterOf(p - 1) = 3 /\ QuarterOf(p - 2) = 2 /\ QuarterOf(p - 3) = 1
  BY DEF QuarterOf
<1> DEFINE sum == D(p - 3) + D(p - 2) + D(p - 1) + D(p)
<1>5. CASE QuarterOf(p) = 4
  BY <1>3, <1>4, <1>5 DEF R, D
<1>6. CASE QuarterOf(p) = 1
  BY <1>3, <1>4, <1>6 DEF R, D
<1>7. CASE QuarterOf(p) = 2
  BY <1>3, <1>4, <1>7 DEF R, D
<1>8. CASE QuarterOf(p) = 3
  BY <1>3, <1>4, <1>8 DEF R, D
<1> QED
  BY <1>4, <1>5, <1>6, <1>7, <1>8

LEMMA PeriodsAreNumbers == Periods \subseteq Int
<1>1. Cardinality(DOMAIN PeriodEnd) \in Nat
  BY FinancialsAssumption, FS_CardinalityType
<1> QED
  BY <1>1, FinancialsAssumption DEF Periods

\* A trailing year is what the yearly and year-to-date reports known at the time say of it.
THEOREM TrailingYearsSum == SnapshotSpec => []TrailingYearsAddUp
<1>1. SnapshotInv => TrailingYearsAddUp
  <2> SUFFICES ASSUME SnapshotInv, NEW x \in Contents,
                      NEW m \in Metrics(x.statements, x.capital), m.code = "revenue_ttm"
               PROVE  LET known == Known(x.statements, [period |-> m.period, available |-> m.available])
                          now == Revenue(known, m.period)
                          lastYear == Revenue(known, m.period - QuarterOf(m.period))
                          same == Revenue(known, m.period - 4)
                      IN  IF QuarterOf(m.period) = 4 THEN m.value = <<now, 1>>
                          ELSE None \notin {now, lastYear, same} /\ m.value = <<now + lastYear - same, 1>>
    BY DEF TrailingYearsAddUp
  <2> DEFINE S == x.statements
  <2>1. TypedStatements(S)
    BY ContentsDelivered DEF Typed
  <2>2. PICK e \in Events(S) : m \in Emitted(e, Values(Known(S, e), x.capital, e))
    BY MetricOfEvent
  <2>3. e.period \in Periods /\ e = [period |-> e.period, available |-> e.available]
    BY <2>1, EventsDated DEF Events
  <2> HIDE DEF S
  <2> DEFINE p == m.period
             K == Known(S, e)
             total == Ttm(LastFour(K, p))
  <2>4. m.period = e.period /\ m.available = e.available /\ p \in Int
    BY <2>2, <2>3, EmittedFields, PeriodsAreNumbers
  <2>5. e = [period |-> m.period, available |-> m.available]
    BY <2>3, <2>4
  <2>6. m.value = Whole(total) /\ Whole(total) # None
    <3>1. Values(K, x.capital, e).revenue_ttm = Whole(total)
      BY <2>4 DEF Values
    <3>2. m.value = Values(K, x.capital, e)[m.code] /\ Values(K, x.capital, e)[m.code] # None
      BY <2>2, EmittedFields
    <3> QED
      BY <3>1, <3>2
  <2>7. total # None
    BY <2>6 DEF Whole
  <2>8. m.value = <<total, 1>>
    BY <2>6, <2>7 DEF Whole
  <2> DEFINE D(q) == Single(K, q)
  <2>9. /\ \A q \in 1 .. 4 : Single(K, p - 4 + q) # None
        /\ total = D(p - 4 + 1) + D(p - 4 + 2) + D(p - 4 + 3) + D(p - 4 + 4)
    BY <2>7 DEF Ttm, LastFour
  <2>10. p - 4 + 1 = p - 3 /\ p - 4 + 2 = p - 2 /\ p - 4 + 3 = p - 1 /\ p - 4 + 4 = p
    BY <2>4
  <2>11. total = D(p - 3) + D(p - 2) + D(p - 1) + D(p)
    BY <2>9, <2>10
  <2>12. \A q \in (p - 3) .. p : Single(K, q) # None
    <3> TAKE q \in (p - 3) .. p
    <3>1. q - (p - 4) \in 1 .. 4 /\ p - 4 + (q - (p - 4)) = q
      BY <2>4
    <3> QED
      BY <2>9, <3>1
  <2> HIDE DEF p, total
  <2> DEFINE R(q) == Revenue(K, q)
  <2>13. IF QuarterOf(p) = 4 THEN R(p) \in Int /\ total = R(p)
         ELSE /\ R(p) \in Int /\ R(p - QuarterOf(p)) \in Int /\ R(p - 4) \in Int
              /\ total = R(p) + R(p - QuarterOf(p)) - R(p - 4)
    BY <2>1, <2>4, <2>11, <2>12, FourQuarters DEF p
  <2>14. None \notin Int
    BY FinancialsAssumption
  <2> HIDE DEF R
  <2>15. IF QuarterOf(p) = 4 THEN m.value = <<R(p), 1>>
         ELSE /\ None \notin {R(p), R(p - QuarterOf(p)), R(p - 4)}
              /\ m.value = <<R(p) + R(p - QuarterOf(p)) - R(p - 4), 1>>
    BY <2>8, <2>13, <2>14
  <2>16. \A q : R(q) = Revenue(Known(x.statements, [period |-> m.period, available |-> m.available]), q)
    BY <2>5 DEF R, S
  <2> QED
    BY <2>15, <2>16 DEF p
<1> QED
  BY <1>1, SnapshotInvariant, PTL

-----------------------------------------------------------------------------
(* Part 4: a pull.  Intervals from daily answers: what holds of the rows    *)
(* written and the intervals still open before a day, where answers[d] is   *)
(* what is seen on day d.                                                   *)

OpenSoFar(answers, open, day) ==
    \A c \in DOMAIN open :
        /\ open[c].since \in PullDays /\ open[c].since < day
        /\ \A d \in PullDays : open[c].since <= d /\ d < day =>
                c \in DOMAIN answers[d] /\ answers[d][c] = open[c].value
ClosedSoFar(answers, rows, day) ==
    \A r \in rows :
        /\ r.from \in PullDays /\ r.to \in PullDays /\ r.from <= r.to /\ r.to < day
        /\ \A d \in PullDays : r.from <= d /\ d <= r.to =>
                r.code \in DOMAIN answers[d] /\ answers[d][r.code] = r.value
Apart(rows, open) ==
    /\ \A r, q \in rows : r.code = q.code /\ r # q => r.to < q.from \/ q.to < r.from
    /\ \A r \in rows : r.code \in DOMAIN open => r.to < open[r.code].since
Covered(answers, rows, open, day) ==
    \A d \in PullDays : d < day => \A c \in DOMAIN answers[d] :
        \/ c \in DOMAIN open /\ open[c].since <= d
        \/ \E r \in rows : r.code = c /\ r.from <= d /\ d <= r.to
ReadSoFar(answers, rows, open, day) ==
    /\ OpenSoFar(answers, open, day) /\ ClosedSoFar(answers, rows, day)
    /\ Apart(rows, open) /\ Covered(answers, rows, open, day)

\* After the last day: every answer can be read back.
ReadBack(answers, rows) ==
    /\ \A r \in rows :
        /\ r.from \in PullDays /\ (r.to # None => r.to \in PullDays /\ r.from <= r.to)
        /\ \A d \in PullDays : Within(r, d) =>
                r.code \in DOMAIN answers[d] /\ answers[d][r.code] = r.value
    /\ \A r, q \in rows : r.code = q.code /\ r # q =>
            (r.to # None /\ r.to < q.from) \/ (q.to # None /\ q.to < r.from)
    /\ \A d \in PullDays : \A c \in DOMAIN answers[d] :
            \E r \in rows : r.code = c /\ Within(r, d)

LEMMA PullDaysKnown ==
  /\ FirstDay \in PullDays /\ LastDay \in PullDays
  /\ \A d \in PullDays : d \in Nat /\ FirstDay <= d /\ d <= LastDay
<1>1. /\ IsFiniteSet(PullDays) /\ PullDays # {} /\ PullDays \in SUBSET Nat
  BY PullAssumption
<1>2. FirstDay \in PullDays /\ \A d \in PullDays : FirstDay <= d
  BY <1>1, LeastOfNat DEF FirstDay
<1>3. LastDay \in PullDays /\ \A d \in PullDays : d <= LastDay
  BY <1>1, GreatestOfFinite DEF LastDay
<1> QED
  BY <1>1, <1>2, <1>3

LEMMA YesterdayKnown ==
  ASSUME NEW day \in Nat, NEW e \in PullDays, e < day
  PROVE  /\ YesterdayOf(day) \in PullDays /\ YesterdayOf(day) < day
         /\ \A d \in PullDays : d < day => d <= YesterdayOf(day)
<1> DEFINE T == {d \in PullDays : d < day}
<1>1. T \in SUBSET Nat /\ T # {} /\ T \in SUBSET PullDays
  BY PullDaysKnown
<1>2. IsFiniteSet(T)
  BY <1>1, PullAssumption, FS_Subset
<1>3. Max(T) \in T /\ \A y \in T : y <= Max(T)
  <2> HIDE DEF T
  <2> QED
    BY <1>1, <1>2, GreatestOfFinite
<1> QED
  BY <1>3 DEF YesterdayOf

LEMMA TomorrowKnown ==
  ASSUME NEW day \in PullDays, day # LastDay
  PROVE  LET next == Min({d \in PullDays : d > day})
         IN  next \in PullDays /\ day < next /\ \A d \in PullDays : d < next => d <= day
<1> DEFINE T == {d \in PullDays : d > day}
<1>1. T \in SUBSET Nat /\ LastDay \in T
  BY PullDaysKnown
<1>2. Min(T) \in T /\ \A y \in T : Min(T) <= y
  <2> HIDE DEF T
  <2> QED
    BY <1>1, LeastOfNat
<1>3. ASSUME NEW d \in PullDays, d < Min(T) PROVE d <= day
  <2>1. Min(T) \in Nat /\ d \in Nat /\ day \in Nat
    BY <1>1, <1>2, PullDaysKnown
  <2>2. d \notin T
    BY <1>2, <1>3, <2>1
  <2> QED
    BY <2>1, <2>2
<1> QED
  BY <1>2, <1>3

\* The rows and intervals of a loop over days, as functions of what is open.
EndedFrom(open, seen, last) ==
    {[code |-> c, value |-> open[c].value, from |-> open[c].since, to |-> last] :
        c \in {k \in DOMAIN open : k \notin DOMAIN seen \/ seen[k] # open[k].value}}
ContinuedFrom(open, seen, day) ==
    [c \in DOMAIN seen |->
        IF c \in DOMAIN open /\ open[c].value = seen[c] THEN open[c]
        ELSE [value |-> seen[c], since |-> day]]
GoingOn(open) ==
    {[code |-> c, value |-> open[c].value, from |-> open[c].since, to |-> None] :
        c \in DOMAIN open}

LEMMA AnotherDay ==
  ASSUME NEW answers, NEW rows, NEW open, NEW day \in PullDays, NEW next \in Nat, day < next,
         \A d \in PullDays : d < next => d <= day,
         ReadSoFar(answers, rows, open, day)
  PROVE  ReadSoFar(answers, rows \union EndedFrom(open, answers[day], YesterdayOf(day)),
                   ContinuedFrom(open, answers[day], day), next)
<1> DEFINE seen == answers[day]
           Y == YesterdayOf(day)
           E == EndedFrom(open, seen, Y)
           rows1 == rows \union E
           open1 == ContinuedFrom(open, seen, day)
           kept(c) == c \in DOMAIN open /\ open[c].value = seen[c]
<1>1. day \in Nat /\ PullDays \in SUBSET Nat
  BY PullDaysKnown
<1>2. ASSUME NEW c \in DOMAIN open
      PROVE  /\ Y \in PullDays /\ Y < day /\ \A d \in PullDays : d < day => d <= Y
             /\ open[c].since \in PullDays /\ open[c].since < day
             /\ \A d \in PullDays : open[c].since <= d /\ d < day =>
                    c \in DOMAIN answers[d] /\ answers[d][c] = open[c].value
  <2>1. /\ open[c].since \in PullDays /\ open[c].since < day
        /\ \A d \in PullDays : open[c].since <= d /\ d < day =>
                    c \in DOMAIN answers[d] /\ answers[d][c] = open[c].value
    BY DEF ReadSoFar, OpenSoFar
  <2> QED
    BY <1>1, <2>1, YesterdayKnown
<1>3. DOMAIN open1 = DOMAIN seen
  BY DEF ContinuedFrom
<1>4. ASSUME NEW c \in DOMAIN seen
      PROVE  /\ kept(c) => open1[c] = open[c] /\ open1[c].since = open[c].since
                           /\ open1[c].value = open[c].value
             /\ ~ kept(c) => open1[c].since = day /\ open1[c].value = seen[c]
  BY DEF ContinuedFrom
<1>5. ASSUME NEW r \in E
      PROVE  /\ r.code \in DOMAIN open
             /\ r = [code |-> r.code, value |-> open[r.code].value,
                     from |-> open[r.code].since, to |-> Y]
             /\ r.code \in DOMAIN seen => ~ kept(r.code)
  BY DEF EndedFrom
<1>6. ASSUME NEW c \in DOMAIN open, ~ (c \in DOMAIN seen /\ kept(c))
      PROVE  [code |-> c, value |-> open[c].value, from |-> open[c].since, to |-> Y] \in E
  BY <1>6 DEF EndedFrom
<1> HIDE DEF E, open1
<1>7. OpenSoFar(answers, open1, next)
  <2> SUFFICES ASSUME NEW c \in DOMAIN seen
               PROVE  /\ open1[c].since \in PullDays /\ open1[c].since < next
                      /\ \A d \in PullDays : open1[c].since <= d /\ d < next =>
                            c \in DOMAIN answers[d] /\ answers[d][c] = open1[c].value
    BY <1>3 DEF OpenSoFar
  <2>1. CASE kept(c)
    <3>1. open1[c].since = open[c].since /\ open1[c].value = open[c].value
      BY <1>4, <2>1
    <3>2. /\ open[c].since \in PullDays /\ open[c].since < day
          /\ \A d \in PullDays : open[c].since <= d /\ d < day =>
                    c \in DOMAIN answers[d] /\ answers[d][c] = open[c].value
      BY <1>2, <2>1
    <3>3. ASSUME NEW d \in PullDays, open[c].since <= d, d < next
          PROVE  c \in DOMAIN answers[d] /\ answers[d][c] = open[c].value
      <4>1. d <= day /\ d \in Nat
        BY <1>1, <3>3
      <4>2. CASE d = day
        BY <2>1, <4>2
      <4>3. CASE d < day
        BY <3>2, <3>3, <4>3
      <4> QED
        BY <1>1, <4>1, <4>2, <4>3
    <3>4. open[c].since < next
      <4>1. PICK x \in Nat : x = open[c].since
        BY <1>1, <3>2
      <4> QED
        BY <1>1, <3>2, <4>1
    <3> QED
      BY <3>1, <3>2, <3>3, <3>4
  <2>2. CASE ~ kept(c)
    <3>1. open1[c].since = day /\ open1[c].value = seen[c]
      BY <1>4, <2>2
    <3>2. ASSUME NEW d \in PullDays, day <= d, d < next PROVE d = day
      BY <1>1, <3>2
    <3> QED
      BY <3>1, <3>2
  <2> QED
    BY <2>1, <2>2
<1>8. ClosedSoFar(answers, rows1, next)
  <2>1. ASSUME NEW r \in rows
        PROVE  /\ r.from \in PullDays /\ r.to \in PullDays /\ r.from <= r.to /\ r.to < next
               /\ \A d \in PullDays : r.from <= d /\ d <= r.to =>
                    r.code \in DOMAIN answers[d] /\ answers[d][r.code] = r.value
    <3>1. /\ r.from \in PullDays /\ r.to \in PullDays /\ r.from <= r.to /\ r.to < day
          /\ \A d \in PullDays : r.from <= d /\ d <= r.to =>
                    r.code \in DOMAIN answers[d] /\ answers[d][r.code] = r.value
      BY DEF ReadSoFar, ClosedSoFar
    <3> QED
      BY <1>1, <3>1
  <2>2. ASSUME NEW r \in E
        PROVE  /\ r.from \in PullDays /\ r.to \in PullDays /\ r.from <= r.to /\ r.to < next
               /\ \A d \in PullDays : r.from <= d /\ d <= r.to =>
                    r.code \in DOMAIN answers[d] /\ answers[d][r.code] = r.value
    <3> DEFINE c == r.code
    <3>1. c \in DOMAIN open /\ r.from = open[c].since /\ r.to = Y /\ r.value = open[c].value
      BY <1>5
    <3>2. /\ Y \in PullDays /\ Y < day /\ open[c].since \in PullDays /\ open[c].since < day
          /\ open[c].since <= Y
          /\ \A d \in PullDays : open[c].since <= d /\ d < day =>
                    c \in DOMAIN answers[d] /\ answers[d][c] = open[c].value
      BY <1>2, <3>1
    <3>3. ASSUME NEW d \in PullDays, d <= Y PROVE d < day
      BY <1>1, <3>2, <3>3
    <3>4. Y < next
      <4>1. PICK y \in Nat : y = Y
        BY <1>1, <3>2
      <4> QED
        BY <1>1, <3>2, <4>1
    <3> QED
      BY <3>1, <3>2, <3>3, <3>4
  <2> QED
    BY <2>1, <2>2 DEF ClosedSoFar
<1>9. Apart(rows1, open1)
  <2>1. ASSUME NEW r \in rows
        PROVE  /\ r.from \in PullDays /\ r.to \in PullDays /\ r.to < day
               /\ r.code \in DOMAIN open => r.to < open[r.code].since
    BY DEF ReadSoFar, ClosedSoFar, Apart
  <2>2. ASSUME NEW r \in E
        PROVE  /\ r.code \in DOMAIN open /\ r.from = open[r.code].since /\ r.to = Y /\ Y < day
               /\ r.code \in DOMAIN seen => ~ kept(r.code)
    BY <1>2, <1>5
  <2>5. \A d \in PullDays : d \in Nat
    BY <1>1
  <2>3. ASSUME NEW r \in rows1, NEW q \in rows1, r.code = q.code, r # q
        PROVE  r.to < q.from \/ q.to < r.from
    <3>1. CASE r \in rows /\ q \in rows
      BY <2>3, <3>1 DEF ReadSoFar, Apart
    <3>2. CASE r \in rows /\ q \in E
      BY <2>1, <2>2, <2>3, <3>2
    <3>3. CASE r \in E /\ q \in rows
      BY <2>1, <2>2, <2>3, <3>3
    <3>4. CASE r \in E /\ q \in E
      BY <1>5, <2>3, <3>4
    <3> QED
      BY <3>1, <3>2, <3>3, <3>4
  <2>4. ASSUME NEW r \in rows1, r.code \in DOMAIN open1
        PROVE  r.to < open1[r.code].since
    <3>1. r.code \in DOMAIN seen
      BY <1>3, <2>4
    <3>2. CASE r \in rows
      <4>1. CASE kept(r.code)
        BY <1>4, <2>1, <3>1, <3>2, <4>1
      <4>2. CASE ~ kept(r.code)
        BY <1>4, <2>1, <3>1, <3>2, <4>2
      <4> QED
        BY <4>1, <4>2
    <3>3. CASE r \in E
      BY <1>4, <2>2, <3>1, <3>3
    <3> QED
      BY <3>2, <3>3
  <2> QED
    BY <2>3, <2>4 DEF Apart
<1>10. Covered(answers, rows1, open1, next)
  <2> SUFFICES ASSUME NEW d \in PullDays, d < next, NEW c \in DOMAIN answers[d]
               PROVE  \/ c \in DOMAIN open1 /\ open1[c].since <= d
                      \/ \E r \in rows1 : r.code = c /\ r.from <= d /\ d <= r.to
    BY DEF Covered
  <2>1. CASE d = day
    <3>1. c \in DOMAIN seen
      BY <2>1
    <3>2. CASE kept(c)
      <4>1. open1[c].since = open[c].since /\ open[c].since \in PullDays /\ open[c].since < day
        BY <1>2, <1>4, <3>1, <3>2
      <4>2. open1[c].since <= d
        <5>1. PICK x \in Nat : x = open[c].since
          BY <1>1, <4>1
        <5> QED
          BY <1>1, <2>1, <4>1, <5>1
      <4> QED
        BY <1>3, <3>1, <4>2
    <3>3. CASE ~ kept(c)
      <4>1. open1[c].since = day
        BY <1>4, <3>1, <3>3
      <4> QED
        BY <1>1, <1>3, <2>1, <3>1, <4>1
    <3> QED
      BY <3>2, <3>3
  <2>2. CASE d < day
    <3>1. CASE \E r \in rows : r.code = c /\ r.from <= d /\ d <= r.to
      BY <3>1
    <3>2. CASE c \in DOMAIN open /\ open[c].since <= d
      <4>1. CASE c \in DOMAIN seen /\ kept(c)
        BY <1>3, <1>4, <3>2, <4>1
      <4>2. CASE ~ (c \in DOMAIN seen /\ kept(c))
        <5> DEFINE r == [code |-> c, value |-> open[c].value, from |-> open[c].since, to |-> Y]
        <5>1. r \in E
          BY <1>6, <3>2, <4>2
        <5>2. r.code = c /\ r.from <= d /\ d <= r.to
          BY <1>2, <2>2, <3>2
        <5> QED
          BY <5>1, <5>2
      <4> QED
        BY <4>1, <4>2
    <3> QED
      BY <2>2, <3>1, <3>2 DEF ReadSoFar, Covered
  <2>3. d \in Nat /\ d <= day
    BY <1>1
  <2> QED
    BY <1>1, <2>1, <2>2, <2>3
<1> QED
  BY <1>7, <1>8, <1>9, <1>10 DEF ReadSoFar, E, open1

LEMMA LastDayRead ==
  ASSUME NEW answers, NEW rows, NEW open, ReadSoFar(answers, rows, open, LastDay + 1)
  PROVE  ReadBack(answers, rows \union GoingOn(open))
<1> DEFINE G == GoingOn(open)
           rows1 == rows \union G
<1>1. /\ LastDay \in Nat /\ PullDays \in SUBSET Nat /\ None \notin Nat
      /\ \A d \in PullDays : d \in Nat /\ d <= LastDay /\ d < LastDay + 1
  BY PullDaysKnown, FinancialsAssumption
<1>2. ASSUME NEW r \in rows
      PROVE  /\ r.from \in PullDays /\ r.to \in PullDays /\ r.from <= r.to /\ r.to # None
             /\ \A d \in PullDays : r.from <= d /\ d <= r.to =>
                    r.code \in DOMAIN answers[d] /\ answers[d][r.code] = r.value
             /\ r.code \in DOMAIN open => r.to < open[r.code].since
  BY <1>1 DEF ReadSoFar, ClosedSoFar, Apart
<1>3. ASSUME NEW r \in G
      PROVE  /\ r.code \in DOMAIN open
             /\ r = [code |-> r.code, value |-> open[r.code].value,
                     from |-> open[r.code].since, to |-> None]
             /\ open[r.code].since \in PullDays
             /\ \A d \in PullDays : open[r.code].since <= d =>
                    r.code \in DOMAIN answers[d] /\ answers[d][r.code] = open[r.code].value
  <2>1. /\ r.code \in DOMAIN open
        /\ r = [code |-> r.code, value |-> open[r.code].value,
                from |-> open[r.code].since, to |-> None]
    BY DEF GoingOn
  <2> QED
    BY <1>1, <2>1 DEF ReadSoFar, OpenSoFar
<1>4. ASSUME NEW c \in DOMAIN open
      PROVE  [code |-> c, value |-> open[c].value, from |-> open[c].since, to |-> None] \in G
  BY DEF GoingOn
<1> HIDE DEF G
<1>5. ASSUME NEW r \in rows1
      PROVE  /\ r.from \in PullDays /\ (r.to # None => r.to \in PullDays /\ r.from <= r.to)
             /\ \A d \in PullDays : Within(r, d) =>
                    r.code \in DOMAIN answers[d] /\ answers[d][r.code] = r.value
  <2>1. CASE r \in rows
    BY <1>2, <2>1 DEF Within
  <2>2. CASE r \in G
    BY <1>3, <2>2 DEF Within
  <2> QED
    BY <2>1, <2>2
<1>6. ASSUME NEW r \in rows1, NEW q \in rows1, r.code = q.code, r # q
      PROVE  (r.to # None /\ r.to < q.from) \/ (q.to # None /\ q.to < r.from)
  <2>1. CASE r \in rows /\ q \in rows
    BY <1>2, <1>6, <2>1 DEF ReadSoFar, Apart
  <2>2. CASE r \in rows /\ q \in G
    BY <1>2, <1>3, <1>6, <2>2
  <2>3. CASE r \in G /\ q \in rows
    BY <1>2, <1>3, <1>6, <2>3
  <2>4. CASE r \in G /\ q \in G
    BY <1>3, <1>6, <2>4
  <2> QED
    BY <2>1, <2>2, <2>3, <2>4
<1>7. ASSUME NEW d \in PullDays, NEW c \in DOMAIN answers[d]
      PROVE  \E r \in rows1 : r.code = c /\ Within(r, d)
  <2>1. CASE \E r \in rows : r.code = c /\ r.from <= d /\ d <= r.to
    BY <2>1 DEF Within
  <2>2. CASE c \in DOMAIN open /\ open[c].since <= d
    <3> DEFINE r == [code |-> c, value |-> open[c].value, from |-> open[c].since, to |-> None]
    <3>1. r \in G /\ r.code = c /\ Within(r, d)
      BY <1>4, <2>2 DEF Within
    <3> QED
      BY <3>1
  <2> QED
    BY <1>1, <2>1, <2>2 DEF ReadSoFar, Covered
<1> QED
  BY <1>5, <1>6, <1>7 DEF ReadBack, G

\* Rows of one code that are apart are intervals the validator accepts.
LEMMA ApartIsValid ==
  ASSUME NEW rows,
         \A r \in rows : r.from \in Nat /\ (r.to # None => r.to \in Nat /\ r.from <= r.to),
         \A r, q \in rows : r # q =>
            (r.to # None /\ r.to < q.from) \/ (q.to # None /\ q.to < r.from)
  PROVE  ValidIntervals(rows)
<1>1. ASSUME NEW a \in rows, NEW b \in rows, a # b
      PROVE  /\ a.from # b.from
             /\ a.from < b.from => Clear(a, b)
  <2>1. /\ a.from \in Nat /\ (a.to # None => a.to \in Nat /\ a.from <= a.to)
        /\ b.from \in Nat /\ (b.to # None => b.to \in Nat /\ b.from <= b.to)
        /\ (a.to # None /\ a.to < b.from) \/ (b.to # None /\ b.to < a.from)
    BY <1>1
  <2> QED
    BY <2>1 DEF Clear
<1>2. \A r \in rows : r.to # None => r.from <= r.to
  OBVIOUS
<1>3. ASSUME NEW a \in rows PROVE ~ (a.from < a.from)
  <2>1. a.from \in Nat
    OBVIOUS
  <2> QED
    BY <2>1
<1> QED
  BY <1>1, <1>2, <1>3 DEF ValidIntervals, Neighbours

-----------------------------------------------------------------------------
\* Queries and their pages.
IsList(s) == \E T : s \in Seq(T)

LEMMA FunctionIsList ==
  ASSUME NEW k \in Nat, NEW f, f = [n \in 1 .. k |-> f[n]]
  PROVE  IsList(f) /\ Len(f) = k /\ DOMAIN f = 1 .. k
<1> DEFINE T == {f[n] : n \in 1 .. k}
<1>1. f \in [1 .. k -> T]
  OBVIOUS
<1>2. f \in Seq(T) /\ Len(f) = k
  <2> HIDE DEF T
  <2> QED
    BY <1>1
<1> QED
  BY <1>1, <1>2 DEF IsList

LEMMA JoinIsList ==
  ASSUME NEW s, NEW t, IsList(s), IsList(t)
  PROVE  /\ IsList(s \o t)
         /\ \A i \in DOMAIN (s \o t) :
                \/ \E j \in DOMAIN s : (s \o t)[i] = s[j]
                \/ \E j \in DOMAIN t : (s \o t)[i] = t[j]
<1>1. PICK S : s \in Seq(S)
  BY DEF IsList
<1>2. PICK T : t \in Seq(T)
  BY DEF IsList
<1>3. s \in Seq(S \union T) /\ t \in Seq(S \union T)
  BY <1>1, <1>2
<1>4. s \o t \in Seq(S \union T)
  BY <1>3
<1> QED
  BY <1>3, <1>4 DEF IsList

LEMMA TailOfList ==
  ASSUME NEW s, IsList(s), s # <<>>
  PROVE  /\ IsList(Tail(s)) /\ 1 \in DOMAIN s /\ Head(s) = s[1]
         /\ \A i \in DOMAIN Tail(s) : \E j \in DOMAIN s : Tail(s)[i] = s[j]
         /\ \A j \in DOMAIN s : s[j] = Head(s) \/ \E i \in DOMAIN Tail(s) : Tail(s)[i] = s[j]
<1>1. PICK S : s \in Seq(S)
  BY DEF IsList
<1>2. Len(s) \in Nat /\ Len(s) >= 1 /\ DOMAIN s = 1 .. Len(s)
  BY <1>1
<1>3. Tail(s) \in Seq(S) /\ DOMAIN Tail(s) = 1 .. Len(s) - 1
      /\ \A i \in 1 .. Len(s) - 1 : Tail(s)[i] = s[i + 1]
  BY <1>1, <1>2
<1>4. ASSUME NEW j \in DOMAIN s, j # 1
      PROVE  \E i \in DOMAIN Tail(s) : Tail(s)[i] = s[j]
  <2>1. j - 1 \in 1 .. Len(s) - 1 /\ (j - 1) + 1 = j
    BY <1>2, <1>4
  <2> QED
    BY <1>3, <2>1
<1>5. ASSUME NEW i \in DOMAIN Tail(s) PROVE \E j \in DOMAIN s : Tail(s)[i] = s[j]
  <2>1. i + 1 \in 1 .. Len(s)
    BY <1>2, <1>3, <1>5
  <2> QED
    BY <1>2, <1>3, <1>5, <2>1
<1> QED
  BY <1>1, <1>2, <1>3, <1>4, <1>5 DEF IsList

\* Codes in their order: the n-th has n - 1 below it.
LEMMA SortedCovers ==
  ASSUME NEW codes \in SUBSET Nat, IsFiniteSet(codes)
  PROVE  /\ IsList(Sorted(codes)) /\ Len(Sorted(codes)) = Cardinality(codes)
         /\ Cardinality(codes) \in Nat /\ DOMAIN Sorted(codes) = 1 .. Cardinality(codes)
         /\ \A c \in codes : \E n \in 1 .. Cardinality(codes) : Sorted(codes)[n] = c
<1> DEFINE Below(c) == {o \in codes : o < c}
           k == Cardinality(codes)
<1>1. k \in Nat
  BY FS_CardinalityType
<1>2. \A c \in codes : IsFiniteSet(Below(c)) /\ Cardinality(Below(c)) \in Nat
  <2> TAKE c \in codes
  <2>1. Below(c) \in SUBSET codes
    OBVIOUS
  <2> QED
    BY <2>1, FS_Subset, FS_CardinalityType
<1>3. ASSUME NEW c \in codes, NEW e \in codes, c < e
      PROVE  Cardinality(Below(c)) < Cardinality(Below(e))
  <2>1. Below(c) \in SUBSET Below(e) /\ c \in Below(e) /\ c \notin Below(c)
    <3>1. c \in Nat /\ e \in Nat
      OBVIOUS
    <3>2. ASSUME NEW o \in Below(c) PROVE o \in Below(e)
      <4>1. o \in codes /\ o \in Nat /\ o < c
        OBVIOUS
      <4>2. o < e
        BY <1>3, <3>1, <4>1
      <4> QED
        BY <4>1, <4>2
    <3>3. c \in Below(e)
      BY <1>3
    <3>4. c \notin Below(c)
      BY <3>1
    <3> HIDE DEF Below
    <3> QED
      BY <3>2, <3>3, <3>4
  <2>2. /\ Cardinality(Below(c)) <= Cardinality(Below(e))
        /\ Cardinality(Below(c)) # Cardinality(Below(e))
    BY <1>2, <2>1, FS_Subset
  <2> QED
    BY <1>2, <2>2
<1>4. ASSUME NEW c \in codes
      PROVE  \E n \in 1 .. k : Sorted(codes)[n] = c
  <2> DEFINE n == Cardinality(Below(c)) + 1
  <2>1. Below(c) \in SUBSET codes /\ c \notin Below(c)
    BY <1>4
  <2>2. Cardinality(Below(c)) <= k /\ Cardinality(Below(c)) # k
    BY <2>1, FS_Subset
  <2>3. n \in 1 .. k /\ n - 1 = Cardinality(Below(c))
    <3>1. PICK x \in Nat : x = Cardinality(Below(c))
      BY <1>2
    <3>2. PICK y \in Nat : y = k
      BY <1>1
    <3>3. x + 1 \in 1 .. y /\ (x + 1) - 1 = x
      BY <2>2, <3>1, <3>2
    <3> QED
      BY <3>1, <3>2, <3>3
  <2>4. \A e \in codes : Cardinality(Below(e)) = Cardinality(Below(c)) => e = c
    <3> SUFFICES ASSUME NEW e \in codes, Cardinality(Below(e)) = Cardinality(Below(c)), e # c
                 PROVE  FALSE
      OBVIOUS
    <3>1. e < c \/ c < e
      <4>1. e \in Nat /\ c \in Nat
        OBVIOUS
      <4> QED
        BY <4>1
    <3> QED
      BY <1>2, <1>3, <3>1
  <2>5. Sorted(codes)[n] = CHOOSE e \in codes : Cardinality(Below(e)) = n - 1
    BY <2>3 DEF Sorted
  <2>6. \E e \in codes : Cardinality(Below(e)) = n - 1
    BY <2>3
  <2>7. Sorted(codes)[n] \in codes /\ Cardinality(Below(Sorted(codes)[n])) = n - 1
    BY <2>5, <2>6
  <2> QED
    BY <2>3, <2>4, <2>7
<1>5. Sorted(codes) = [n \in 1 .. k |-> Sorted(codes)[n]]
  <2> DEFINE nth(n) == CHOOSE c \in codes : Cardinality(Below(c)) = n - 1
  <2>1. Sorted(codes) = [n \in 1 .. k |-> nth(n)]
    BY DEF Sorted
  <2> HIDE DEF nth
  <2> QED
    BY <2>1
<1>6. IsList(Sorted(codes)) /\ Len(Sorted(codes)) = k /\ DOMAIN Sorted(codes) = 1 .. k
  BY <1>1, <1>5, FunctionIsList
<1> QED
  BY <1>1, <1>4, <1>6

\* So many batches reach the last of n codes, and every code is in one.
LEMMA BatchesCover ==
  ASSUME NEW n \in Nat, order.batch \in Nat \ {0}
  PROVE  /\ Batches(n) \in 0 .. n
         /\ \A j \in 1 .. n : \E m \in 1 .. Batches(n) :
                order.batch * (m - 1) + 1 <= j /\ j <= order.batch * m
<1> DEFINE b == order.batch
           U(x) == {k \in 0 .. x : k * b >= x}
<1>1. ASSUME NEW x \in Nat
      PROVE  /\ Min(U(x)) \in 0 .. x /\ Min(U(x)) * b >= x
             /\ \A y \in 0 .. x : y * b >= x => Min(U(x)) <= y
  <2>1. x * b >= x /\ x \in 0 .. x
    OBVIOUS
  <2>2. U(x) \in SUBSET Nat /\ U(x) # {}
    BY <2>1
  <2>3. Min(U(x)) \in U(x) /\ \A y \in U(x) : Min(U(x)) <= y
    <3> HIDE DEF U
    <3> QED
      BY <2>2, LeastOfNat
  <2> QED
    BY <2>3
<1>2. Batches(n) = Min(U(n))
  BY DEF Batches
<1> HIDE DEF U
<1>3. ASSUME NEW j \in 1 .. n
      PROVE  \E m \in 1 .. Batches(n) : b * (m - 1) + 1 <= j /\ j <= b * m
  <2>1. j \in Nat /\ j >= 1 /\ j <= n
    OBVIOUS
  <2>2. PICK x \in 0 .. j : x * b >= j /\ \A y \in 0 .. j : y * b >= j => x <= y
    BY <1>1, <2>1
  <2>5. x # 0
    BY <2>1, <2>2
  <2>6. (x - 1) * b < j
    <3>1. x - 1 \in 0 .. j /\ ~ (x <= x - 1)
      BY <2>1, <2>5
    <3>3. ~ ((x - 1) * b >= j)
      BY <2>2, <3>1
    <3>4. (x - 1) * b \in Nat
      BY <2>5
    <3> QED
      BY <2>1, <3>3, <3>4
  <2>7. PICK k \in Nat : k = Batches(n) /\ k * b >= n
    BY <1>1, <1>2
  <2>8. x <= k
    <3>1. CASE k <= j
      <4>1. k * b \in Nat
        BY <2>7
      <4>2. k \in 0 .. j /\ k * b >= j
        BY <2>1, <2>7, <3>1, <4>1
      <4> QED
        BY <2>2, <4>2
    <3>2. CASE ~ (k <= j)
      BY <2>1, <2>2, <2>7, <3>2
    <3> QED
      BY <3>1, <3>2
  <2>9. x \in 1 .. Batches(n)
    BY <2>2, <2>5, <2>7, <2>8
  <2>10. b * (x - 1) = (x - 1) * b /\ b * x = x * b /\ (x - 1) * b \in Nat /\ x * b \in Nat
    BY <2>5
  <2>11. b * (x - 1) + 1 <= j /\ j <= b * x
    BY <2>1, <2>2, <2>6, <2>10
  <2> QED
    BY <2>9, <2>11
<1>4. Batches(n) \in 0 .. n
  BY <1>1, <1>2
<1> QED
  BY <1>3, <1>4

\* The queries of a table ask for all the codes.
LEMMA QueriesCover ==
  ASSUME NEW table, NEW codes \in SUBSET Nat, IsFiniteSet(codes), order.batch \in Nat \ {0}
  PROVE  /\ IsList(Queries(table, codes))
         /\ \A i \in DOMAIN Queries(table, codes) : Queries(table, codes)[i].table = table
         /\ Len(Queries(table, codes)) = Batches(Cardinality(codes))
         /\ \A c \in codes : \E i \in DOMAIN Queries(table, codes) :
                c \in Asked(Queries(table, codes)[i])
<1> DEFINE sorted == Sorted(codes)
           n == Cardinality(codes)
           k == Batches(n)
           span(m) == (order.batch * (m - 1) + 1 .. order.batch * m) \intersect 1 .. n
           q == Queries(table, codes)
<1>1. /\ Len(sorted) = n /\ n \in Nat /\ DOMAIN sorted = 1 .. n
      /\ \A c \in codes : \E j \in 1 .. n : sorted[j] = c
  BY SortedCovers
<1>2. k \in Nat /\ k \in 0 .. n /\ \A j \in 1 .. n : \E m \in 1 .. k : j \in span(m)
  <2>1. k \in 0 .. n
    BY <1>1, BatchesCover
  <2>2. ASSUME NEW j \in 1 .. n PROVE \E m \in 1 .. k : j \in span(m)
    <3>1. PICK m \in 1 .. k : order.batch * (m - 1) + 1 <= j /\ j <= order.batch * m
      BY <1>1, BatchesCover
    <3>2. order.batch * (m - 1) + 1 \in Int /\ order.batch * m \in Int /\ j \in Int
      BY <1>1, <2>1
    <3> QED
      BY <3>1, <3>2
  <2> QED
    BY <1>1, <2>1, <2>2
<1>3. BatchesOf(codes) = [m \in 1 .. k |-> Restrict(sorted, span(m))]
  BY <1>1 DEF BatchesOf
<1>4. q = [m \in 1 .. k |-> [table |-> table, codes |-> Restrict(sorted, span(m))]]
  BY <1>3 DEF Queries
<1> HIDE DEF q, k, span
<1>5. IsList(q) /\ Len(q) = k /\ DOMAIN q = 1 .. k
  BY <1>2, <1>4, FunctionIsList
<1>6. ASSUME NEW c \in codes PROVE \E i \in DOMAIN q : c \in Asked(q[i])
  <2>1. PICK j \in 1 .. n : sorted[j] = c
    BY <1>1
  <2>2. PICK m \in 1 .. k : j \in span(m)
    BY <1>2
  <2>3. q[m].codes = [x \in span(m) |-> sorted[x]]
    BY <1>4 DEF Restrict
  <2>4. c \in Asked(q[m])
    BY <2>1, <2>2, <2>3 DEF Asked
  <2> QED
    BY <1>5, <2>4
<1>7. \A i \in DOMAIN q : q[i].table = table
  BY <1>4, <1>5
<1> QED
  BY <1>5, <1>6, <1>7 DEF q, k

\* A page takes all ids up to its last; one that is not full takes all.
LEMMA PageTakes ==
  ASSUME NEW rows, IsFiniteSet(rows), \A r \in rows : r.id \in Nat \ {0}, NEW id \in Nat
  PROVE  LET page == PageAfter(rows, id)
         IN  /\ page \subseteq rows
             /\ Cardinality(page) < PageSize =>
                    \A r \in rows : r.id > id => r \in page
             /\ ~ (Cardinality(page) < PageSize) =>
                    /\ Advanced(page) \in Nat \ {0}
                    /\ \A r \in rows : r.id > id => r \in page \/ r.id > Advanced(page)
<1> DEFINE after == {r \in rows : r.id > id}
           Lower(r) == {o \in after : o.id < r.id}
           page == PageAfter(rows, id)
<1>0. PageSize \in Nat \ {0}
  BY PullAssumption
<1>1. page = {r \in after : Cardinality(Lower(r)) < PageSize}
  BY DEF PageAfter
<1>2. IsFiniteSet(after) /\ IsFiniteSet(page) /\ page \subseteq rows /\ page \in SUBSET after
  BY <1>1, FS_Subset
<1>3. \A r \in after : IsFiniteSet(Lower(r)) /\ Cardinality(Lower(r)) \in Nat
  BY <1>2, FS_Subset, FS_CardinalityType
<1>4. Cardinality(page) \in Nat
  BY <1>2, FS_CardinalityType
<1>5. ASSUME Cardinality(page) < PageSize, NEW r \in rows, r.id > id, r \notin page
      PROVE  FALSE
  <2> DEFINE left == after \ page
             I == {o.id : o \in left}
  <2>1. I \in SUBSET Nat /\ I # {}
    BY <1>5
  <2>2. PICK o \in left : \A e \in left : o.id <= e.id
    <3>1. PICK x \in I : \A y \in I : x <= y
      <4> HIDE DEF I
      <4> QED
        BY <2>1, LeastOfNat
    <3> QED
      BY <3>1
  <2>3. Lower(o) \in SUBSET page
    <3> SUFFICES ASSUME NEW e \in Lower(o), e \notin page PROVE FALSE
      OBVIOUS
    <3>1. e \in left /\ e.id < o.id /\ e.id \in Nat /\ o.id \in Nat
      BY <2>2
    <3> HIDE DEF left
    <3> QED
      BY <2>2, <3>1
  <2>4. o \in after /\ ~ (Cardinality(Lower(o)) < PageSize)
    BY <1>1, <2>2
  <2>5. Cardinality(Lower(o)) <= Cardinality(page)
    BY <1>2, <2>3, FS_Subset
  <2> QED
    BY <1>0, <1>3, <1>4, <1>5, <2>4, <2>5
<1>6. ASSUME ~ (Cardinality(page) < PageSize)
      PROVE  /\ Advanced(page) \in Nat \ {0}
             /\ \A r \in rows : r.id > id => r \in page \/ r.id > Advanced(page)
  <2> DEFINE I == {r.id : r \in page}
  <2>1. page # {}
    <3> SUFFICES ASSUME page = {} PROVE FALSE
      OBVIOUS
    <3>1. Cardinality(page) = 0
      BY FS_EmptySet
    <3> QED
      BY <1>0, <1>6, <3>1
  <2>2. PICK m \in page : \A r \in page : r.id <= m.id
    <3> DEFINE R == {t \in page \X page : t[1].id < t[2].id}
    <3>1. \A r \in page : r.id \in Nat
      BY <1>2
    <3> HIDE DEF page
    <3>2. /\ \A x, y, z \in page : <<x, y>> \in R /\ <<y, z>> \in R => <<x, z>> \in R
          /\ \A x \in page : <<x, x>> \notin R
          /\ \A x, y \in page : <<x, y>> \in R <=> x.id < y.id
      BY <3>1
    <3> HIDE DEF R
    <3>3. PICK m \in page : \A y \in page : <<m, y>> \notin R
      BY <1>2, <2>1, <3>2, MaximalExists
    <3>4. ASSUME NEW r \in page PROVE r.id <= m.id
      <4>1. ~ (m.id < r.id)
        BY <3>2, <3>3
      <4>2. m.id \in Nat /\ r.id \in Nat
        BY <3>1
      <4> QED
        BY <4>1, <4>2
    <3> QED
      BY <3>4
  <2>3. Max(I) = m.id
    <3>1. m.id \in I /\ \A y \in I : m.id >= y /\ y \in Nat
      BY <1>2, <2>2
    <3> HIDE DEF I
    <3>2. Max(I) \in I /\ \A y \in I : Max(I) >= y
      BY <3>1 DEF Max
    <3> QED
      BY <3>1, <3>2
  <2>4. m \in page
    OBVIOUS
  <2>5. Advanced(page) = m.id
    BY <2>3 DEF Advanced
  <2>6. m.id \in Nat \ {0} /\ m \in after /\ Cardinality(Lower(m)) < PageSize
    BY <1>1, <1>2, <2>4
  <2>7. ASSUME NEW r \in rows, r.id > id, r \notin page PROVE r.id > m.id
    <3> SUFFICES ASSUME ~ (r.id > m.id) PROVE FALSE
      OBVIOUS
    <3>1. r \in after /\ r.id \in Nat /\ r.id <= m.id
      BY <2>6, <2>7
    <3>2. Lower(r) \in SUBSET Lower(m)
      <4> SUFFICES ASSUME NEW o \in Lower(r) PROVE o \in Lower(m)
        OBVIOUS
      <4>1. o \in after /\ o.id < r.id /\ o.id \in Nat
        OBVIOUS
      <4> QED
        BY <2>6, <3>1, <4>1
    <3>3. Cardinality(Lower(r)) <= Cardinality(Lower(m))
      BY <1>3, <2>6, <3>2, FS_Subset
    <3>4. ~ (Cardinality(Lower(r)) < PageSize)
      BY <1>1, <2>7, <3>1
    <3> QED
      BY <1>0, <1>3, <2>6, <3>1, <3>3, <3>4
  <2> QED
    BY <2>5, <2>6, <2>7
<1> QED
  BY <1>2, <1>5, <1>6

-----------------------------------------------------------------------------
\* The inductive invariant of a pull.
MemberAnswers == [d \in PullDays |-> [c \in service.index[d] |-> "member"]]
IndustryAnswers == [d \in PullDays |-> IndustriesOn(d)]

PullStages ==
    {"connect", "calendar", "universe", "catalog", "lookup", "missing", "prices", "actions",
     "history", "industry", "financials", "finish", "batch", "refused"}
MembersKnown == PullStages \ {"connect", "calendar", "universe", "refused"}
BarsKnown == {"actions", "history", "industry", "financials", "finish", "batch"}
IndustriesKnown == {"financials", "finish", "batch"}

PullTypes ==
    /\ ServiceKnows(service)
    /\ order.codes \subseteq DOMAIN service.listed /\ order.batch \in Nat \ {0}
    /\ stage \in PullStages /\ today \in PullDays /\ IsList(queries)

\* Between two loops over the days nothing is open.
AtRest == today = FirstDay /\ DOMAIN spans = {}

UniverseRead ==
    /\ stage \in {"connect", "calendar"} => AtRest /\ members = {}
    /\ stage = "universe" => ReadSoFar(MemberAnswers, members, spans, today)
    /\ stage \in MembersKnown => ReadBack(MemberAnswers, members)

IndustriesReadBack ==
    \A c \in DOMAIN service.listed :
        /\ ValidIntervals(RowsOf(c, industries))
        /\ \A day \in PullDays : c \in ActiveOn(day) =>
                {r.value : r \in {i \in RowsOf(c, industries) : Within(i, day)}}
                    = {service.industry[c][day]} \ {None}
IndustriesRead ==
    /\ stage \notin IndustriesKnown \union {"industry", "refused"} => industries = {}
    /\ stage \in {"catalog", "lookup", "prices", "actions", "history"} => AtRest
    /\ stage = "industry" => ReadSoFar(IndustryAnswers, industries, spans, today)
    /\ stage \in IndustriesKnown => IndustriesReadBack

\* Who was not found on the last day is still to be looked up, or was not listed either on
\* the day of the lookup.
LookedUp ==
    /\ stage = "lookup" => \A c \in Required \ catalog :
            ~ ListedOn(c, LastDay) /\ (FirstSeen(c) \in lookups \/ ~ ListedOn(c, FirstSeen(c)))
    /\ stage = "missing" =>
            \E c \in order.codes \ Everyone : ~ (ListedOn(c, FirstDay) \/ ListedOn(c, LastDay))

PricedRead ==
    /\ stage = "prices" => \A b \in service.bars : b[1] \in Priced =>
            b \in bars \/ \E i \in DOMAIN queries : b[1] \in Asked(queries[i])
    /\ stage \in BarsKnown => \A b \in service.bars : b[1] \in Priced => b \in bars

\* What was there when its query began was read, or is on a page to come.
ToCome(t) ==
    IF cursor # 0 /\ t = Head(queries).table
    THEN {r \in Matching(Head(queries)) : r.id > cursor} ELSE {}
PagesRead ==
    /\ cursor \in Nat /\ (stage \notin {"actions", "financials", "refused"} => cursor = 0)
    /\ stage \in {"actions", "financials"} => \A i \in DOMAIN queries : queries[i].table \in Tables
    /\ cursor # 0 => queries # <<>> /\ Head(queries).table \in Tables
    /\ DOMAIN fetched = Tables
    /\ \A t \in Tables : fetched[t].had \subseteq fetched[t].got \union ToCome(t)

PullInv ==
    PullTypes /\ UniverseRead /\ IndustriesRead /\ LookedUp /\ PricedRead /\ PagesRead

\* Before the first day nothing is read.
LEMMA NothingRead ==
  ASSUME NEW answers, NEW open, DOMAIN open = {}
  PROVE  ReadSoFar(answers, {}, open, FirstDay)
<1>1. \A d \in PullDays : ~ (d < FirstDay)
  BY PullDaysKnown
<1> QED
  BY <1>1 DEF ReadSoFar, OpenSoFar, ClosedSoFar, Apart, Covered

LEMMA PullInvInit == PullInit => PullInv
<1> SUFFICES ASSUME PullInit PROVE PullInv
  OBVIOUS
<1>1. PICK p \in Pulls : service = p.service /\ order = p.order
  BY DEF PullInit
<1>2. PullTypes
  <2>1. IsList(queries)
    <3>1. queries \in Seq({})
      BY DEF PullInit
    <3> QED
      BY <3>1 DEF IsList
  <2> QED
    BY <1>1, <2>1, PullAssumption, PullDaysKnown DEF PullInit, PullTypes, PullStages
<1>3. UniverseRead /\ IndustriesRead /\ LookedUp /\ PricedRead
  BY DEF PullInit, UniverseRead, IndustriesRead, LookedUp, PricedRead, AtRest, MembersKnown,
     BarsKnown, IndustriesKnown
<1>4. PagesRead
  BY DEF PullInit, PagesRead, ToCome
<1> QED
  BY <1>2, <1>3, <1>4 DEF PullInv

\* One day of a loop, and the last one.
LEMMA LoopStep ==
  ASSUME NEW answers, NEW rows, today \in PullDays, ReadSoFar(answers, rows, spans, today)
  PROVE  /\ today # LastDay =>
                ReadSoFar(answers, rows \union DailyRows(answers[today]),
                          Continued(answers[today], today), Min({d \in PullDays : d > today}))
         /\ today = LastDay => ReadBack(answers, rows \union DailyRows(answers[today]))
<1> DEFINE seen == answers[today]
           ended == EndedFrom(spans, seen, YesterdayOf(today))
           open1 == ContinuedFrom(spans, seen, today)
<1>1. Ended(seen, today) = ended /\ Continued(seen, today) = open1
  <2>1. Ended(seen, today) = ended
    BY DEF Ended, EndedFrom
  <2>2. Continued(seen, today) = open1
    BY DEF Continued, ContinuedFrom
  <2> QED
    BY <2>1, <2>2
<1>2. Unended(seen, today) = GoingOn(open1)
  BY <1>1 DEF Unended, GoingOn
<1> HIDE DEF ended, open1
<1>3. CASE today # LastDay
  <2> DEFINE next == Min({d \in PullDays : d > today})
  <2>1. next \in PullDays /\ today < next /\ \A d \in PullDays : d < next => d <= today
    BY <1>3, TomorrowKnown
  <2>2. next \in Nat
    BY <2>1, PullDaysKnown
  <2>3. DailyRows(seen) = ended
    BY <1>1, <1>3 DEF DailyRows
  <2> HIDE DEF next
  <2>4. ReadSoFar(answers, rows \union ended, open1, next)
    BY <2>1, <2>2, AnotherDay DEF ended, open1
  <2> QED
    BY <1>1, <1>3, <2>3, <2>4 DEF next
<1>4. CASE today = LastDay
  <2>1. /\ LastDay + 1 \in Nat /\ today < LastDay + 1
        /\ \A d \in PullDays : d < LastDay + 1 => d <= today
    BY <1>4, PullDaysKnown
  <2>2. ReadSoFar(answers, rows \union ended, open1, LastDay + 1)
    BY <2>1, AnotherDay DEF ended, open1
  <2>3. ReadBack(answers, (rows \union ended) \union GoingOn(open1))
    BY <2>2, LastDayRead
  <2>4. DailyRows(seen) = ended \union GoingOn(open1)
    BY <1>1, <1>2, <1>4 DEF DailyRows
  <2>5. rows \union DailyRows(seen) = (rows \union ended) \union GoingOn(open1)
    BY <2>4
  <2> QED
    BY <1>4, <2>3, <2>5
<1> QED
  BY <1>3, <1>4

LEMMA NextDayKnown ==
  ASSUME today \in PullDays, NextDay
  PROVE  today' \in PullDays /\ (today = LastDay => today' = FirstDay)
BY PullDaysKnown, TomorrowKnown DEF NextDay

\* Only these parts of a service have to do with its history.
LEMMA HistoryUntouched ==
  ASSUME NEW s, NEW t, HistoryAgrees(s),
         t.history = s.history, t.stock = s.stock, t.industry = s.industry
  PROVE  HistoryAgrees(t)
<1>1. /\ \A r \in t.history : r.from \in Nat /\ (r.to # None => r.to \in Nat /\ r.from <= r.to)
      /\ \A a, b \in t.history : a.code = b.code /\ a # b =>
            (a.to # None /\ a.to < b.from) \/ (b.to # None /\ b.to < a.from)
  BY DEF HistoryAgrees
<1>2. ASSUME NEW c \in t.stock, NEW d \in PullDays
      PROVE  {r.value : r \in {h \in t.history : h.code = c /\ Within(h, d)}}
                 = {t.industry[c][d]} \ {None}
  <2>1. {r.value : r \in {h \in s.history : h.code = c /\ Within(h, d)}}
            = {s.industry[c][d]} \ {None}
    BY <1>2 DEF HistoryAgrees
  <2> DEFINE here == {h \in s.history : h.code = c /\ Within(h, d)}
  <2>2. {h \in t.history : h.code = c /\ Within(h, d)} = here
    OBVIOUS
  <2> HIDE DEF here
  <2>3. {r.value : r \in {h \in t.history : h.code = c /\ Within(h, d)}} = {r.value : r \in here}
    BY <2>2, Zenon
  <2> QED
    BY <2>1, <2>3 DEF here
<1> QED
  BY <1>1, <1>2 DEF HistoryAgrees

\* The service only adds rows to its finance tables, and the order stays.
LEMMA ServiceStays ==
  ASSUME PullTypes, [PullNext]_pullVars
  PROVE  /\ order' = order /\ ServiceKnows(service)'
         /\ service'.listed = service.listed /\ service'.stock = service.stock
         /\ service'.index = service.index /\ service'.industry = service.industry
         /\ service'.history = service.history /\ service'.bars = service.bars
<1>1. CASE UNCHANGED <<service, order>>
  BY <1>1 DEF PullTypes, ServiceKnows
<1>2. CASE \E c \in DOMAIN service.listed : AddRow(c)
  <2>1. PICK c \in DOMAIN service.listed : AddRow(c)
    BY <1>2
  <2> DEFINE t == Head(queries).table
             row == [id |-> Cardinality(service.tables[t]) + 1, code |-> c, state |-> "done"]
  <2>2. order' = order /\ service' = [service EXCEPT !.tables[t] = @ \union {row}]
    BY <2>1 DEF AddRow
  <2>3. DOMAIN service = {"listed", "stock", "unmarked", "index", "industry", "history", "bars", "tables"}
    BY DEF PullTypes, ServiceKnows
  <2>4. /\ service'.listed = service.listed /\ service'.stock = service.stock
        /\ service'.index = service.index /\ service'.industry = service.industry
        /\ service'.history = service.history /\ service'.bars = service.bars
        /\ service'.tables = [service.tables EXCEPT ![t] = @ \union {row}]
        /\ DOMAIN service' = DOMAIN service
    BY <2>2, <2>3
  <2>5. ASSUME NEW u \in Tables
        PROVE  IsFiniteSet(service'.tables[u]) /\ \A r \in service'.tables[u] : r.id \in Nat \ {0}
    <3>1. /\ IsFiniteSet(service.tables[u]) /\ \A r \in service.tables[u] : r.id \in Nat \ {0}
          /\ DOMAIN service.tables = Tables
      BY DEF PullTypes, ServiceKnows
    <3>2. CASE u = t
      <4>1. service'.tables[u] = service.tables[u] \union {row}
        BY <2>4, <3>1, <3>2
      <4>2. IsFiniteSet({row}) /\ IsFiniteSet(service.tables[u] \union {row})
        BY <3>1, FS_Singleton, FS_Union
      <4>3. row.id \in Nat \ {0}
        <5>1. Cardinality(service.tables[u]) \in Nat
          BY <3>1, FS_CardinalityType
        <5> QED
          BY <3>2, <5>1
      <4> HIDE DEF row
      <4> QED
        BY <3>1, <4>1, <4>2, <4>3
    <3>3. CASE u # t
      BY <2>4, <3>1, <3>3
    <3> QED
      BY <3>2, <3>3
  <2>6. DOMAIN service'.tables = Tables
    BY <2>4 DEF PullTypes, ServiceKnows
  <2> HIDE DEF t, row
  <2>7. ServiceKnows(service)'
    <3>1. /\ DOMAIN service' = {"listed", "stock", "unmarked", "index", "industry", "history", "bars", "tables"}
          /\ IsFiniteSet(DOMAIN service'.listed) /\ DOMAIN service'.listed \subseteq Nat
      BY <2>3, <2>4 DEF PullTypes, ServiceKnows
    <3>2. \A d \in PullDays : \A e \in service'.index[d] :
            e \in DOMAIN service'.listed /\ service'.listed[e].from <= d /\ d <= service'.listed[e].to
      BY <2>4 DEF PullTypes, ServiceKnows
    <3>3. service'.history # None => HistoryAgrees(service')
      <4>1. service.history # None => HistoryAgrees(service)
        BY DEF PullTypes, ServiceKnows
      <4>2. /\ service'.history = service.history /\ service'.stock = service.stock
            /\ service'.industry = service.industry
        BY <2>4
      <4> QED
        BY <4>1, <4>2, HistoryUntouched
    <3> QED
      BY <2>5, <2>6, <3>1, <3>2, <3>3 DEF ServiceKnows
  <2> QED
    BY <2>2, <2>4, <2>7
<1>3. CASE UNCHANGED pullVars
  BY <1>1, <1>3 DEF pullVars
<1>4. CASE PullNext /\ ~ (\E c \in DOMAIN service.listed : AddRow(c))
  <2>1. UNCHANGED <<service, order>>
    BY <1>4 DEF PullNext, Call, Connect, ReadCalendar, ListMembers, ReadCatalog, LookUp,
       CatalogDone, ReadPrices, PricesDone, ReadPage, ActionsDone, ReadHistory, ReadIndustries,
       FinancialsDone, Finish, TimeOut, CallFails, HistoryFails
  <2> QED
    BY <1>1, <2>1
<1> QED
  BY <1>2, <1>3, <1>4

\* The codes of the queries are codes the service knows: a finite set of numbers.
LEMMA CodesKnown ==
  ASSUME PullInv, stage \in MembersKnown
  PROVE  /\ Everyone \subseteq DOMAIN service.listed /\ Required \subseteq DOMAIN service.listed
         /\ \A scope : Scoped(scope) \in SUBSET Nat /\ IsFiniteSet(Scoped(scope))
         /\ \A c \in Everyone : FirstSeen(c) \in PullDays /\ ListedOn(c, FirstSeen(c))
<1>1. /\ ReadBack(MemberAnswers, members) /\ PullTypes
      /\ DOMAIN service.listed \in SUBSET Nat /\ IsFiniteSet(DOMAIN service.listed)
      /\ order.codes \subseteq DOMAIN service.listed
  BY DEF PullInv, UniverseRead, PullTypes, ServiceKnows
<1>2. ASSUME NEW m \in members
      PROVE  m.from \in PullDays /\ m.code \in DOMAIN service.listed /\ ListedOn(m.code, m.from)
  <2>1. m.from \in PullDays /\ (m.to # None => m.from <= m.to)
    BY <1>1 DEF ReadBack
  <2>2. m.from \in Nat
    BY <2>1, PullDaysKnown
  <2>3. Within(m, m.from)
    BY <2>1, <2>2 DEF Within
  <2>4. m.code \in DOMAIN MemberAnswers[m.from]
    BY <1>1, <2>1, <2>3 DEF ReadBack
  <2>5. m.code \in service.index[m.from]
    BY <2>1, <2>4 DEF MemberAnswers
  <2> QED
    BY <1>1, <2>1, <2>5 DEF PullTypes, ServiceKnows, ListedOn
<1>3. Everyone \subseteq DOMAIN service.listed
  BY <1>2 DEF Everyone
<1>4. \A scope : Scoped(scope) \in SUBSET DOMAIN service.listed
  BY <1>1, <1>3 DEF Scoped
<1>5. \A scope : Scoped(scope) \in SUBSET Nat /\ IsFiniteSet(Scoped(scope))
  BY <1>1, <1>4, FS_Subset
<1>6. ASSUME NEW c \in Everyone PROVE FirstSeen(c) \in PullDays /\ ListedOn(c, FirstSeen(c))
  <2> DEFINE T == {m.from : m \in {r \in members : r.code = c}}
  <2>1. T # {} /\ T \in SUBSET Nat
    BY <1>2, PullDaysKnown DEF Everyone
  <2>2. Min(T) \in T
    <3> HIDE DEF T
    <3> QED
      BY <2>1, LeastOfNat
  <2>3. FirstSeen(c) = Min(T)
    BY DEF FirstSeen
  <2> QED
    BY <1>2, <2>2, <2>3
<1> QED
  BY <1>1, <1>3, <1>5, <1>6 DEF Required

LEMMA QueriesJoined ==
  ASSUME NEW s, NEW t, IsList(s), IsList(t),
         \A i \in DOMAIN s : s[i].table \in Tables, \A i \in DOMAIN t : t[i].table \in Tables
  PROVE  IsList(s \o t) /\ \A i \in DOMAIN (s \o t) : (s \o t)[i].table \in Tables
<1> DEFINE u == s \o t
<1>1. /\ IsList(u)
      /\ \A i \in DOMAIN u : (\E j \in DOMAIN s : u[i] = s[j]) \/ (\E j \in DOMAIN t : u[i] = t[j])
  BY JoinIsList
<1> HIDE DEF u
<1>2. \A i \in DOMAIN u : u[i].table \in Tables
  BY <1>1
<1> QED
  BY <1>1, <1>2 DEF u

\* The financial queries are queries of finance tables.
LEMMA FinancialQueriesKnown ==
  ASSUME PullInv, stage \in MembersKnown
  PROVE  /\ IsList(FinancialQueries)
         /\ \A i \in DOMAIN FinancialQueries : FinancialQueries[i].table \in Tables
<1>1. CASE order.financial = None
  <2>1. FinancialQueries \in Seq({})
    BY <1>1 DEF FinancialQueries
  <2> QED
    BY <2>1 DEF IsList
<1>2. CASE order.financial # None
  <2> DEFINE of(table) == Queries(table, FinancialCodes)
             L == Batches(Cardinality(FinancialCodes))
             asked(n) == of(Statements[((n - 1) % 3) + 1])[((n - 1) \div 3) + 1]
             F == [n \in 1 .. 3 * L |-> asked(n)]
             FV == F \o of("valuation")
  <2>1. FinancialCodes \in SUBSET Nat /\ IsFiniteSet(FinancialCodes) /\ order.batch \in Nat \ {0}
    <3>1. FinancialCodes \in SUBSET Scoped(order.financial)
      BY DEF FinancialCodes
    <3>2. Scoped(order.financial) \in SUBSET Nat /\ IsFiniteSet(Scoped(order.financial))
      BY CodesKnown
    <3>3. IsFiniteSet(FinancialCodes)
      BY <3>1, <3>2, FS_Subset
    <3> QED
      BY <3>1, <3>2, <3>3 DEF PullInv, PullTypes
  <2>2. L \in Nat
    <3>1. Cardinality(FinancialCodes) \in Nat
      BY <2>1, FS_CardinalityType
    <3>2. L \in 0 .. Cardinality(FinancialCodes)
      BY <2>1, <3>1, BatchesCover
    <3> QED
      BY <3>1, <3>2
  <2>3. ASSUME NEW t
        PROVE  /\ IsList(of(t)) /\ Len(of(t)) = L /\ DOMAIN of(t) = 1 .. L
               /\ \A i \in DOMAIN of(t) : of(t)[i].table = t
    <3>1. /\ IsList(of(t)) /\ Len(of(t)) = L
          /\ \A i \in DOMAIN of(t) : of(t)[i].table = t
      BY <2>1, QueriesCover
    <3>2. DOMAIN of(t) = 1 .. L
      BY <3>1 DEF IsList
    <3> QED
      BY <3>1, <3>2
  <2> HIDE DEF L, of
  <2>4. ASSUME NEW n \in 1 .. 3 * L PROVE asked(n).table \in Tables
    <3>1. ((n - 1) % 3) + 1 \in 1 .. 3 /\ ((n - 1) \div 3) + 1 \in 1 .. L
      BY <2>2
    <3>2. Statements[((n - 1) % 3) + 1] \in Tables
      BY <3>1 DEF Statements, Tables
    <3> QED
      BY <2>3, <3>1, <3>2
  <2>5. IsList(F) /\ DOMAIN F = 1 .. 3 * L /\ \A i \in DOMAIN F : F[i].table \in Tables
    <3>1. F = [n \in 1 .. 3 * L |-> F[n]] /\ 3 * L \in Nat
      BY <2>2
    <3>2. IsList(F) /\ DOMAIN F = 1 .. 3 * L
      <4> HIDE DEF F
      <4> QED
        BY <3>1, FunctionIsList
    <3> QED
      BY <2>4, <3>2
  <2> HIDE DEF F
  <2>6. IsList(FV) /\ \A i \in DOMAIN FV : FV[i].table \in Tables
    <3>1. IsList(of("valuation")) /\ \A i \in DOMAIN of("valuation") : of("valuation")[i].table \in Tables
      BY <2>3 DEF Tables
    <3> QED
      BY <2>5, <3>1, QueriesJoined DEF FV
  <2> HIDE DEF FV
  <2>7. IsList(FV \o of("capital"))
        /\ \A i \in DOMAIN (FV \o of("capital")) : (FV \o of("capital"))[i].table \in Tables
    <3>1. IsList(of("capital")) /\ \A i \in DOMAIN of("capital") : of("capital")[i].table \in Tables
      BY <2>3 DEF Tables
    <3> QED
      BY <2>6, <3>1, QueriesJoined
  <2>8. FinancialQueries = FV \o of("capital")
    <3>1. Len(of("balance")) = L
      BY <2>3
    <3> QED
      BY <1>2, <3>1 DEF FinancialQueries, F, FV, of
  <2> QED
    BY <2>7, <2>8
<1> QED
  BY <1>1, <1>2

\* Where a pull goes on the way to its end.
LEMMA TypesStep ==
  ASSUME PullInv, [PullNext]_pullVars
  PROVE  PullTypes'
<1>1. PullTypes
  BY DEF PullInv
<1>2. /\ ServiceKnows(service)' /\ order.codes' \subseteq DOMAIN service'.listed
      /\ order'.batch \in Nat \ {0}
  BY <1>1, ServiceStays DEF PullTypes
<1>3. ASSUME ~ ListMembers, ~ ReadIndustries, PullNext \/ UNCHANGED pullVars
      PROVE  UNCHANGED <<today, spans>>
  BY <1>3 DEF PullNext, Call, Connect, ReadCalendar, ReadCatalog, LookUp,
       CatalogDone, ReadPrices, PricesDone, ReadPage, ActionsDone, ReadHistory,
       FinancialsDone, Finish, TimeOut, CallFails, HistoryFails, AddRow, pullVars
<1>4. today' \in PullDays
  <2>1. CASE ListMembers \/ ReadIndustries
    BY <1>1, <2>1, NextDayKnown DEF ListMembers, ReadIndustries, PullTypes
  <2> QED
    BY <1>1, <1>3, <2>1 DEF PullTypes
<1>5. stage' \in PullStages
  BY <1>1 DEF PullNext, Call, Connect, ReadCalendar, ListMembers, ReadCatalog, LookUp,
       CatalogDone, ReadPrices, PricesDone, ReadPage, ActionsDone, ReadHistory, ReadIndustries,
       FinancialsDone, Finish, TimeOut, CallFails, HistoryFails, AddRow, pullVars, Reach,
       Reading, PullTypes, PullStages
<1>6. IsList(queries')
  <2>1. CASE UNCHANGED queries
    BY <1>1, <2>1 DEF PullTypes, IsList
  <2>2. CASE CatalogDone
    <3>1. stage \in MembersKnown /\ queries' = Queries("prices", Priced) /\ order.batch \in Nat \ {0}
      BY <1>1, <2>2 DEF CatalogDone, MembersKnown, PullStages, PullTypes
    <3>2. Priced \in SUBSET Nat /\ IsFiniteSet(Priced)
      BY <3>1, CodesKnown DEF Priced
    <3> QED
      BY <3>1, <3>2, QueriesCover
  <2>3. CASE ReadPrices \/ ReadPage
    <3>1. queries # <<>> /\ queries' \in {queries, Tail(queries)}
      BY <2>3 DEF ReadPrices, ReadPage
    <3> QED
      BY <1>1, <3>1, TailOfList DEF PullTypes
  <2>4. CASE PricesDone
    <3> DEFINE all == Sorted(Priced)
               q == <<[table |-> "actions", codes |-> all], [table |-> "funds", codes |-> all]>>
    <3>1. queries' = q
      BY <2>4 DEF PricesDone
    <3>2. q \in Seq({q[1], q[2]})
      OBVIOUS
    <3> QED
      BY <3>1, <3>2 DEF IsList
  <2>5. CASE ReadHistory \/ ReadIndustries
    <3>1. stage \in MembersKnown /\ (queries' = FinancialQueries \/ queries' = queries)
      BY <2>5 DEF ReadHistory, ReadIndustries, MembersKnown, PullStages
    <3> QED
      BY <1>1, <3>1, FinancialQueriesKnown DEF PullTypes
  <2>6. CASE ~ (CatalogDone \/ ReadPrices \/ ReadPage \/ PricesDone \/ ReadHistory \/ ReadIndustries)
    <3>1. UNCHANGED queries
      BY <2>6 DEF PullNext, Call, Connect, ReadCalendar, ListMembers, ReadCatalog, LookUp,
       ActionsDone, FinancialsDone, Finish, TimeOut, CallFails, HistoryFails, AddRow, pullVars
    <3> QED
      BY <2>1, <3>1
  <2> QED
    BY <2>2, <2>3, <2>4, <2>5, <2>6
<1> QED
  BY <1>2, <1>4, <1>5, <1>6 DEF PullTypes

\* The members read so far, and all of them after the last day.
LEMMA UniverseStep ==
  ASSUME PullInv, [PullNext]_pullVars
  PROVE  UniverseRead'
<1>1. PullTypes /\ UniverseRead
  BY DEF PullInv
<1>2. MemberAnswers' = MemberAnswers
  BY <1>1, ServiceStays DEF MemberAnswers
<1>3. CASE ListMembers
  <2> DEFINE seen == [c \in service.index[today] |-> "member"]
  <2>1. MemberAnswers[today] = seen
    BY <1>1 DEF MemberAnswers, PullTypes
  <2>2. /\ stage = "universe" /\ members' = members \union DailyRows(seen)
        /\ today # LastDay => spans' = Continued(seen, today) /\ stage' = stage
                              /\ today' = Min({d \in PullDays : d > today})
        /\ today = LastDay => stage' \in {"refused", "catalog"}
    BY <1>3 DEF ListMembers, NextDay
  <2> HIDE DEF seen
  <2>3. ReadSoFar(MemberAnswers, members, spans, today) /\ today \in PullDays
    BY <1>1, <2>2 DEF UniverseRead, PullTypes
  <2>4. CASE today # LastDay
    <3>1. ReadSoFar(MemberAnswers, members', spans', today')
      BY <2>1, <2>2, <2>3, <2>4, LoopStep
    <3> QED
      BY <1>2, <2>2, <2>4, <3>1 DEF UniverseRead, MembersKnown
  <2>5. CASE today = LastDay
    <3>1. ReadBack(MemberAnswers, members')
      BY <2>1, <2>2, <2>3, <2>5, LoopStep
    <3> QED
      BY <1>2, <2>2, <2>5, <3>1 DEF UniverseRead, MembersKnown
  <2> QED
    BY <2>4, <2>5
<1>4. CASE ReadCalendar
  <2>1. stage = "calendar" /\ stage' = "universe" /\ UNCHANGED <<members, spans, today>>
    BY <1>4 DEF ReadCalendar, Reach
  <2>2. today = FirstDay /\ DOMAIN spans = {} /\ members = {}
    BY <1>1, <2>1 DEF UniverseRead, AtRest
  <2>3. ReadSoFar(MemberAnswers, members, spans, today)
    BY <2>2, NothingRead
  <2> QED
    BY <1>2, <2>1, <2>3 DEF UniverseRead, MembersKnown
<1>5. CASE ~ ListMembers /\ ~ ReadCalendar
  <2>1. UNCHANGED members
    BY <1>5 DEF PullNext, Call, Connect, ReadCatalog, LookUp,
       CatalogDone, ReadPrices, PricesDone, ReadPage, ActionsDone, ReadHistory, ReadIndustries,
       FinancialsDone, Finish, TimeOut, CallFails, HistoryFails, AddRow, pullVars
  <2>2. \/ stage' = "refused"
        \/ stage \in MembersKnown /\ stage' \in MembersKnown
        \/ stage' = stage /\ UNCHANGED <<today, spans>>
        \/ stage = "connect" /\ stage' = "calendar" /\ UNCHANGED <<today, spans>>
    BY <1>5 DEF PullNext, Call, Connect, ReadCatalog, LookUp,
       CatalogDone, ReadPrices, PricesDone, ReadPage, ActionsDone, ReadHistory, ReadIndustries,
       FinancialsDone, Finish, TimeOut, CallFails, HistoryFails, AddRow, pullVars, Reach,
       Reading, MembersKnown, PullStages
  <2> QED
    BY <1>1, <1>2, <2>1, <2>2 DEF UniverseRead, AtRest, MembersKnown
<1> QED
  BY <1>3, <1>4, <1>5

-----------------------------------------------------------------------------
\* What reads back is a list of intervals for every code.
LEMMA ReadBackIsValid ==
  ASSUME NEW answers, NEW rows, ReadBack(answers, rows), NEW c
  PROVE  ValidIntervals(RowsOf(c, rows))
<1> DEFINE own == RowsOf(c, rows)
<1>1. ASSUME NEW r \in own PROVE r.from \in Nat /\ (r.to # None => r.to \in Nat /\ r.from <= r.to)
  <2>1. r \in rows
    BY DEF RowsOf
  <2>2. r.from \in PullDays /\ (r.to # None => r.to \in PullDays /\ r.from <= r.to)
    BY <2>1 DEF ReadBack
  <2> QED
    BY <2>2, PullDaysKnown
<1>2. ASSUME NEW r \in own, NEW q \in own, r # q
      PROVE  (r.to # None /\ r.to < q.from) \/ (q.to # None /\ q.to < r.from)
  <2>1. r \in rows /\ q \in rows /\ r.code = q.code
    BY DEF RowsOf
  <2> QED
    BY <1>2, <2>1 DEF ReadBack
<1> HIDE DEF own
<1>3. ValidIntervals(own)
  BY <1>1, <1>2, ApartIsValid
<1> QED
  BY <1>3 DEF own

\* Industries asked for day by day read back.
LEMMA DailyIndustries ==
  ASSUME NEW rows, ReadBack(IndustryAnswers, rows), NEW c
  PROVE  /\ ValidIntervals(RowsOf(c, rows))
         /\ \A day \in PullDays : c \in ActiveOn(day) =>
                {r.value : r \in {i \in RowsOf(c, rows) : Within(i, day)}}
                    = {service.industry[c][day]} \ {None}
<1>1. ValidIntervals(RowsOf(c, rows))
  BY ReadBackIsValid
<1>2. ASSUME NEW day \in PullDays, c \in ActiveOn(day)
      PROVE  {r.value : r \in {i \in RowsOf(c, rows) : Within(i, day)}}
                 = {service.industry[c][day]} \ {None}
  <2> DEFINE V == {r.value : r \in {i \in RowsOf(c, rows) : Within(i, day)}}
             D == {k \in ActiveOn(day) : service.industry[k][day] # None}
  <2>1. IndustryAnswers[day] = [k \in D |-> service.industry[k][day]]
    BY DEF IndustryAnswers, IndustriesOn
  <2>2. ASSUME NEW v \in V PROVE v = service.industry[c][day] /\ v # None
    <3>1. PICK r \in rows : r.code = c /\ Within(r, day) /\ v = r.value
      BY DEF RowsOf
    <3>2. c \in DOMAIN IndustryAnswers[day] /\ IndustryAnswers[day][c] = v
      BY <3>1 DEF ReadBack
    <3> QED
      BY <2>1, <3>2
  <2>3. ASSUME service.industry[c][day] # None PROVE service.industry[c][day] \in V
    <3>1. c \in DOMAIN IndustryAnswers[day] /\ IndustryAnswers[day][c] = service.industry[c][day]
      BY <1>2, <2>1, <2>3
    <3>2. PICK r \in rows : r.code = c /\ Within(r, day)
      BY <3>1 DEF ReadBack
    <3>3. r.value = service.industry[c][day]
      BY <3>1, <3>2 DEF ReadBack
    <3> QED
      BY <3>2, <3>3 DEF RowsOf
  <2> HIDE DEF V
  <2>4. V = {service.industry[c][day]} \ {None}
    BY <2>2, <2>3
  <2> QED
    BY <2>4 DEF V
<1> QED
  BY <1>1, <1>2

\* So do those read from their history and cut to the request.
LEMMA CutIndustries ==
  ASSUME HistoryAgrees(service), NEW c
  PROVE  LET rows == {Cut(r) : r \in {h \in service.history :
                        /\ h.code \in Stocks
                        /\ h.to = None \/ h.to >= FirstDay
                        /\ h.from <= LastDay}}
         IN  /\ ValidIntervals(RowsOf(c, rows))
             /\ \A day \in PullDays : c \in ActiveOn(day) =>
                    {r.value : r \in {i \in RowsOf(c, rows) : Within(i, day)}}
                        = {service.industry[c][day]} \ {None}
<1> DEFINE used == {h \in service.history :
                        /\ h.code \in Stocks
                        /\ h.to = None \/ h.to >= FirstDay
                        /\ h.from <= LastDay}
           rows == {Cut(r) : r \in used}
           own == RowsOf(c, rows)
<1>1. /\ FirstDay \in Nat /\ LastDay \in Nat /\ FirstDay <= LastDay /\ None \notin Nat
      /\ \A d \in PullDays : d \in Nat /\ FirstDay <= d /\ d <= LastDay
  BY PullDaysKnown, FinancialsAssumption
<1>2. ASSUME NEW h \in used
      PROVE  /\ h.from \in Nat /\ (h.to # None => h.to \in Nat /\ h.from <= h.to)
             /\ h \in service.history /\ h.code \in Stocks /\ h.from <= LastDay
             /\ h.to # None => h.to >= FirstDay
             /\ Cut(h).code = h.code /\ Cut(h).value = h.value
             /\ Cut(h).from = (IF h.from > FirstDay THEN h.from ELSE FirstDay)
             /\ Cut(h).to = (IF h.to = None \/ h.to < LastDay THEN h.to ELSE LastDay)
  BY DEF HistoryAgrees, Cut
<1>3. ASSUME NEW h \in used
      PROVE  /\ Cut(h).from \in Nat /\ Cut(h).from >= h.from
             /\ Cut(h).to # None =>
                    /\ Cut(h).to \in Nat /\ Cut(h).from <= Cut(h).to
                    /\ h.to # None /\ Cut(h).to <= h.to
             /\ h.to # None => Cut(h).to # None
  <2>1. CASE h.to = None
    BY <1>1, <1>2, <2>1
  <2>2. CASE h.to # None
    BY <1>1, <1>2, <2>2
  <2> QED
    BY <2>1, <2>2
<1>4. ASSUME NEW r \in own PROVE \E h \in used : r = Cut(h) /\ h.code = c
  BY <1>2 DEF RowsOf
<1> HIDE DEF used, own
<1>5. ValidIntervals(own)
  <2>1. ASSUME NEW r \in own PROVE r.from \in Nat /\ (r.to # None => r.to \in Nat /\ r.from <= r.to)
    BY <1>3, <1>4
  <2>2. ASSUME NEW r \in own, NEW q \in own, r # q
        PROVE  (r.to # None /\ r.to < q.from) \/ (q.to # None /\ q.to < r.from)
    <3>1. PICK h \in used : r = Cut(h) /\ h.code = c
      BY <1>4
    <3>2. PICK g \in used : q = Cut(g) /\ g.code = c
      BY <1>4
    <3>3. (h.to # None /\ h.to < g.from) \/ (g.to # None /\ g.to < h.from)
      BY <1>2, <2>2, <3>1, <3>2 DEF HistoryAgrees
    <3>4. CASE h.to # None /\ h.to < g.from
      <4>1. /\ Cut(h).to \in Nat /\ h.to \in Nat /\ Cut(h).to <= h.to /\ Cut(h).to # None
            /\ g.from \in Nat /\ Cut(g).from \in Nat /\ Cut(g).from >= g.from
        BY <1>2, <1>3, <3>4
      <4> QED
        BY <3>1, <3>2, <3>4, <4>1
    <3>5. CASE g.to # None /\ g.to < h.from
      <4>1. /\ Cut(g).to \in Nat /\ g.to \in Nat /\ Cut(g).to <= g.to /\ Cut(g).to # None
            /\ h.from \in Nat /\ Cut(h).from \in Nat /\ Cut(h).from >= h.from
        BY <1>2, <1>3, <3>5
      <4> QED
        BY <3>1, <3>2, <3>5, <4>1
    <3> QED
      BY <3>3, <3>4, <3>5
  <2> QED
    BY <2>1, <2>2, ApartIsValid
<1>6. ASSUME NEW h \in used, NEW day \in PullDays PROVE Within(Cut(h), day) <=> Within(h, day)
  <2>1. day \in Nat /\ FirstDay <= day /\ day <= LastDay
    BY <1>1
  <2>2. CASE h.to = None
    BY <1>1, <1>2, <2>1, <2>2 DEF Within
  <2>3. CASE h.to # None
    BY <1>1, <1>2, <2>1, <2>3 DEF Within
  <2> QED
    BY <2>2, <2>3
<1>7. ASSUME NEW day \in PullDays, c \in ActiveOn(day)
      PROVE  {r.value : r \in {i \in own : Within(i, day)}} = {service.industry[c][day]} \ {None}
  <2> DEFINE V == {r.value : r \in {i \in own : Within(i, day)}}
             W == {r.value : r \in {h \in service.history : h.code = c /\ Within(h, day)}}
  <2>1. c \in Stocks /\ c \in service.stock
    BY <1>7 DEF ActiveOn, Stocks
  <2>2. W = {service.industry[c][day]} \ {None}
    BY <2>1 DEF HistoryAgrees
  <2>3. ASSUME NEW v \in V PROVE v \in W
    <3>1. PICK r \in own : Within(r, day) /\ v = r.value
      OBVIOUS
    <3>2. PICK h \in used : r = Cut(h) /\ h.code = c
      BY <1>4
    <3> QED
      BY <1>2, <1>6, <3>1, <3>2
  <2>4. ASSUME NEW v \in W PROVE v \in V
    <3>1. PICK h \in service.history : h.code = c /\ Within(h, day) /\ v = h.value
      OBVIOUS
    <3>2. h \in used
      <4>1. h.from \in Nat /\ (h.to # None => h.to \in Nat)
        BY DEF HistoryAgrees
      <4>2. h.from <= LastDay /\ (h.to = None \/ h.to >= FirstDay)
        BY <1>1, <3>1, <4>1 DEF Within
      <4> QED
        BY <2>1, <3>1, <4>2 DEF used
    <3>3. Cut(h) \in own /\ Within(Cut(h), day) /\ Cut(h).value = v
      BY <1>2, <1>6, <3>1, <3>2 DEF own, RowsOf
    <3> QED
      BY <3>3
  <2> HIDE DEF V, W
  <2>5. V = W
    BY <2>3, <2>4
  <2> QED
    BY <2>2, <2>5 DEF V
<1> QED
  BY <1>5, <1>7 DEF own, used

\* The industries, from their history or from daily calls.
LEMMA IndustriesStep ==
  ASSUME PullInv, [PullNext]_pullVars
  PROVE  IndustriesRead'
<1>1. PullTypes /\ IndustriesRead
  BY DEF PullInv
<1>2. /\ service'.listed = service.listed /\ service'.stock = service.stock
      /\ service'.industry = service.industry
  BY <1>1, ServiceStays
<1>3. ASSUME catalog' = catalog PROVE IndustryAnswers' = IndustryAnswers
  BY <1>2, <1>3 DEF IndustryAnswers, IndustriesOn, ActiveOn, Stocks, ListedOn
<1>4. CASE ReadIndustries
  <2> DEFINE seen == IndustriesOn(today)
  <2>1. IndustryAnswers[today] = seen
    BY <1>1 DEF IndustryAnswers, PullTypes
  <2>2. /\ stage = "industry" /\ industries' = industries \union DailyRows(seen)
        /\ catalog' = catalog
        /\ today # LastDay => spans' = Continued(seen, today) /\ stage' \in {"refused", stage}
                              /\ today' = Min({d \in PullDays : d > today})
        /\ today = LastDay => stage' \in {"refused", "financials", "finish"}
    BY <1>4 DEF ReadIndustries, NextDay, Reading
  <2> HIDE DEF seen
  <2>3. ReadSoFar(IndustryAnswers, industries, spans, today) /\ today \in PullDays
    BY <1>1, <2>2 DEF IndustriesRead, PullTypes
  <2>4. CASE today # LastDay
    <3>1. ReadSoFar(IndustryAnswers, industries', spans', today')
      BY <2>1, <2>2, <2>3, <2>4, LoopStep
    <3> QED
      BY <1>3, <2>2, <2>4, <3>1 DEF IndustriesRead, IndustriesKnown
  <2>5. CASE today = LastDay
    <3>1. ReadBack(IndustryAnswers, industries')
      BY <2>1, <2>2, <2>3, <2>5, LoopStep
    <3>2. ReadBack(IndustryAnswers', industries')
      BY <1>3, <2>2, <3>1
    <3>3. \A c : /\ ValidIntervals(RowsOf(c, industries'))
                 /\ \A day \in PullDays : c \in ActiveOn(day) =>
                      {r.value : r \in {i \in RowsOf(c, industries') : Within(i, day)}}
                         = {service.industry[c][day]} \ {None}
      BY <3>1, DailyIndustries
    <3>4. \A day \in PullDays : ActiveOn(day)' = ActiveOn(day)
      BY <1>2, <2>2 DEF ActiveOn, Stocks, ListedOn
    <3>5. IndustriesReadBack'
      BY <1>2, <3>3, <3>4 DEF IndustriesReadBack
    <3> QED
      BY <2>2, <2>5, <3>5 DEF IndustriesRead, IndustriesKnown
  <2> QED
    BY <2>4, <2>5
<1>5. CASE ReadHistory
  <2> DEFINE rows == {Cut(r) : r \in {h \in service.history :
                        /\ h.code \in Stocks
                        /\ h.to = None \/ h.to >= FirstDay
                        /\ h.from <= LastDay}}
  <2>1. /\ stage' \in {"financials", "finish"} /\ industries' = rows /\ service.history # None
        /\ UNCHANGED <<service, catalog>>
    BY <1>5 DEF ReadHistory, Reach, Reading
  <2>2. HistoryAgrees(service)
    BY <1>1, <2>1 DEF PullTypes, ServiceKnows
  <2>3. ASSUME NEW c
        PROVE  /\ ValidIntervals(RowsOf(c, rows))
               /\ \A day \in PullDays : c \in ActiveOn(day) =>
                    {r.value : r \in {i \in RowsOf(c, rows) : Within(i, day)}}
                        = {service.industry[c][day]} \ {None}
    BY <2>2, CutIndustries
  <2> HIDE DEF rows
  <2>4. \A day \in PullDays : ActiveOn(day)' = ActiveOn(day)
    BY <2>1 DEF ActiveOn, Stocks, ListedOn
  <2>5. IndustriesReadBack'
    BY <1>2, <2>1, <2>3, <2>4 DEF IndustriesReadBack
  <2> QED
    BY <2>1, <2>5 DEF IndustriesRead, IndustriesKnown
<1>6. CASE HistoryFails
  <2>1. stage = "history" /\ stage' = "industry" /\ UNCHANGED <<industries, spans, today, catalog>>
    BY <1>6 DEF HistoryFails, Reach
  <2>2. industries = {} /\ today = FirstDay /\ DOMAIN spans = {}
    BY <1>1, <2>1 DEF IndustriesRead, AtRest, IndustriesKnown
  <2>3. ReadSoFar(IndustryAnswers, industries, spans, today)
    BY <2>2, NothingRead
  <2> QED
    BY <1>3, <2>1, <2>3 DEF IndustriesRead, IndustriesKnown
<1>7. CASE ListMembers
  <2>1. /\ stage = "universe" /\ UNCHANGED industries
        /\ stage' \in {"universe", "refused", "catalog"}
        /\ stage' = "catalog" => today' = FirstDay /\ DOMAIN spans' = {}
    BY <1>7 DEF ListMembers, NextDay
  <2> QED
    BY <1>1, <2>1 DEF IndustriesRead, IndustriesKnown, AtRest
<1>8. CASE ~ (ReadIndustries \/ ReadHistory \/ HistoryFails \/ ListMembers)
  <2>1. UNCHANGED <<industries, spans, today>>
    BY <1>8 DEF PullNext, Call, Connect, ReadCalendar, ReadCatalog, LookUp,
       CatalogDone, ReadPrices, PricesDone, ReadPage, ActionsDone,
       FinancialsDone, Finish, TimeOut, CallFails, AddRow, pullVars
  <2>2. \/ stage' = "refused"
        \/ stage' = stage /\ (stage = "lookup" \/ UNCHANGED catalog)
        \/ stage \in {"connect", "calendar"} /\ stage' \in {"calendar", "universe"}
        \/ /\ stage \in {"catalog", "lookup", "prices", "actions"}
           /\ stage' \in {"lookup", "missing", "prices", "actions", "history"}
        \/ stage \in IndustriesKnown /\ stage' \in IndustriesKnown /\ UNCHANGED catalog
    BY <1>8 DEF PullNext, Call, Connect, ReadCalendar, ReadCatalog, LookUp,
       CatalogDone, ReadPrices, PricesDone, ReadPage, ActionsDone,
       FinancialsDone, Finish, TimeOut, CallFails, AddRow, pullVars, Reach, IndustriesKnown
  <2>3. ASSUME UNCHANGED catalog, IndustriesReadBack PROVE IndustriesReadBack'
    <3>1. \A day \in PullDays : ActiveOn(day)' = ActiveOn(day)
      BY <1>2, <2>3 DEF ActiveOn, Stocks, ListedOn
    <3> QED
      BY <1>2, <2>1, <2>3, <3>1 DEF IndustriesReadBack
  <2> QED
    BY <1>1, <1>3, <2>1, <2>2, <2>3 DEF IndustriesRead, IndustriesKnown, AtRest
<1> QED
  BY <1>4, <1>5, <1>6, <1>7, <1>8

\* Who was not found is looked up.
LEMMA LookedStep ==
  ASSUME PullInv, [PullNext]_pullVars
  PROVE  LookedUp'
<1>1. PullTypes /\ LookedUp
  BY DEF PullInv
<1>2. order' = order /\ service'.listed = service.listed
  BY <1>1, ServiceStays
<1>3. ASSUME UNCHANGED members
      PROVE  /\ Everyone' = Everyone /\ Required' = Required
             /\ \A c : FirstSeen(c)' = FirstSeen(c)
             /\ \A c : \A day : ListedOn(c, day)' <=> ListedOn(c, day)
  <2>1. Everyone' = Everyone
    BY <1>3 DEF Everyone
  <2>2. Required' = Required
    BY <1>2, <2>1 DEF Required
  <2>3. \A c : FirstSeen(c)' = FirstSeen(c)
    BY <1>3, <2>1 DEF FirstSeen
  <2>4. \A c : \A day : ListedOn(c, day)' <=> ListedOn(c, day)
    BY <1>2 DEF ListedOn
  <2> QED
    BY <2>1, <2>2, <2>3, <2>4
<1>4. CASE ReadCatalog
  <2>1. /\ UNCHANGED members /\ stage' = "lookup"
        /\ catalog' = {c \in Required : ListedOn(c, LastDay)}
        /\ lookups' = {FirstSeen(c) : c \in Required \ catalog'}
    BY <1>4 DEF ReadCatalog, Reach
  <2>2. \A c \in Required \ catalog' : ~ ListedOn(c, LastDay) /\ FirstSeen(c) \in lookups'
    BY <2>1
  <2> QED
    BY <1>3, <2>1, <2>2 DEF LookedUp
<1>5. CASE LookUp
  <2> DEFINE day == Min(lookups)
  <2>1. /\ UNCHANGED members /\ stage = "lookup" /\ stage' = "lookup"
        /\ catalog' = catalog \union {c \in Required : FirstSeen(c) = day /\ ListedOn(c, day)}
        /\ lookups' = lookups \ {day}
    BY <1>5 DEF LookUp
  <2> HIDE DEF day
  <2>2. ASSUME NEW c \in Required \ catalog'
        PROVE  ~ ListedOn(c, LastDay) /\ (FirstSeen(c) \in lookups' \/ ~ ListedOn(c, FirstSeen(c)))
    <3>1. c \in Required \ catalog /\ ~ (FirstSeen(c) = day /\ ListedOn(c, day))
      BY <2>1
    <3>2. ~ ListedOn(c, LastDay) /\ (FirstSeen(c) \in lookups \/ ~ ListedOn(c, FirstSeen(c)))
      BY <1>1, <2>1, <3>1 DEF LookedUp
    <3> QED
      BY <2>1, <3>1, <3>2
  <2> QED
    BY <1>3, <2>1, <2>2 DEF LookedUp
<1>6. CASE CatalogDone
  <2>1. /\ UNCHANGED members /\ stage = "lookup" /\ lookups = {}
        /\ stage' \in {"missing", "refused", "prices"}
        /\ stage' = "missing" => ~ Required \subseteq catalog
    BY <1>6 DEF CatalogDone, Reach
  <2>2. CASE stage' = "missing"
    <3>1. PICK c \in Required \ catalog : TRUE
      BY <2>1, <2>2
    <3>2. ~ ListedOn(c, LastDay) /\ ~ ListedOn(c, FirstSeen(c))
      BY <1>1, <2>1, <3>1 DEF LookedUp
    <3>3. c \notin Everyone
      BY <2>1, <3>2, CodesKnown DEF MembersKnown, PullStages
    <3>4. c \in order.codes /\ FirstSeen(c) = FirstDay
      BY <3>1, <3>3 DEF Required, FirstSeen
    <3> QED
      BY <1>2, <1>3, <2>1, <2>2, <3>2, <3>3, <3>4 DEF LookedUp
  <2> QED
    BY <2>1, <2>2 DEF LookedUp
<1>7. CASE ~ (ReadCatalog \/ LookUp \/ CatalogDone)
  <2>1. \/ stage' \notin {"lookup", "missing"}
        \/ stage' = stage /\ UNCHANGED <<members, catalog, lookups>>
    BY <1>7 DEF PullNext, Call, Connect, ReadCalendar, ListMembers, ReadPrices, PricesDone,
       ReadPage, ActionsDone, ReadHistory, ReadIndustries, FinancialsDone, Finish, TimeOut,
       CallFails, HistoryFails, AddRow, pullVars, Reach, Reading
  <2> QED
    BY <1>1, <1>2, <1>3, <2>1 DEF LookedUp
<1> QED
  BY <1>4, <1>5, <1>6, <1>7

\* Bars come for all that is priced.
LEMMA PricedStep ==
  ASSUME PullInv, [PullNext]_pullVars
  PROVE  PricedRead'
<1>1. PullTypes /\ PricedRead
  BY DEF PullInv
<1>2. order' = order /\ service'.bars = service.bars
  BY <1>1, ServiceStays
<1>3. ASSUME UNCHANGED members PROVE Priced' = Priced
  BY <1>2, <1>3 DEF Priced, Scoped, Everyone
<1>4. CASE CatalogDone
  <2>1. /\ stage = "lookup" /\ stage' \in {"missing", "refused", "prices"} /\ UNCHANGED members
        /\ queries' = Queries("prices", Priced)
    BY <1>4 DEF CatalogDone, Reach
  <2>2. Priced \in SUBSET Nat /\ IsFiniteSet(Priced)
    BY <2>1, CodesKnown DEF Priced, MembersKnown, PullStages
  <2>3. \A c \in Priced : \E i \in DOMAIN queries' : c \in Asked(queries'[i])
    BY <1>1, <2>1, <2>2, QueriesCover DEF PullTypes
  <2>4. \A i : Asked(queries[i])' = Asked(queries'[i])
    BY DEF Asked
  <2> QED
    BY <1>2, <1>3, <2>1, <2>3, <2>4 DEF PricedRead, BarsKnown
<1>5. CASE ReadPrices
  <2>1. /\ stage = "prices" /\ stage' = stage /\ queries # <<>> /\ UNCHANGED members
        /\ bars' = bars \union {b \in service.bars : b[1] \in Asked(Head(queries))}
        /\ queries' = Tail(queries)
    BY <1>5 DEF ReadPrices
  <2>2. ASSUME NEW b \in service.bars, b[1] \in Priced
        PROVE  b \in bars' \/ \E i \in DOMAIN queries' : b[1] \in Asked(queries'[i])
    <3>1. CASE b \in bars
      BY <2>1, <3>1
    <3>2. CASE b \notin bars
      <4>1. PICK j \in DOMAIN queries : b[1] \in Asked(queries[j])
        BY <1>1, <2>1, <2>2, <3>2 DEF PricedRead
      <4>2. queries[j] = Head(queries) \/ \E i \in DOMAIN queries' : queries'[i] = queries[j]
        BY <1>1, <2>1, TailOfList DEF PullTypes
      <4> QED
        BY <2>1, <4>1, <4>2
    <3> QED
      BY <3>1, <3>2
  <2>3. \A i : Asked(queries[i])' = Asked(queries'[i])
    BY DEF Asked
  <2> QED
    BY <1>2, <1>3, <2>1, <2>2, <2>3 DEF PricedRead, BarsKnown
<1>6. CASE PricesDone
  <2>1. stage = "prices" /\ queries = <<>> /\ UNCHANGED <<members, bars>> /\ stage' # "prices"
    BY <1>6 DEF PricesDone, Reach
  <2>2. DOMAIN queries = {}
    BY <2>1
  <2> QED
    BY <1>1, <1>2, <1>3, <2>1, <2>2 DEF PricedRead, BarsKnown
<1>7. CASE ~ (CatalogDone \/ ReadPrices \/ PricesDone)
  <2>1. \/ stage' \notin BarsKnown \union {"prices"}
        \/ stage' = stage /\ stage = "prices" /\ UNCHANGED <<members, queries, bars>>
        \/ stage \in BarsKnown /\ stage' \in BarsKnown /\ UNCHANGED <<members, bars>>
    BY <1>7 DEF PullNext, Call, Connect, ReadCalendar, ListMembers, ReadCatalog, LookUp,
       ReadPage, ActionsDone, ReadHistory, ReadIndustries, FinancialsDone, Finish, TimeOut,
       CallFails, HistoryFails, AddRow, pullVars, Reach, Reading, BarsKnown
  <2>2. UNCHANGED queries => \A i : Asked(queries[i])' = Asked(queries[i])
    BY DEF Asked
  <2> QED
    BY <1>1, <1>2, <1>3, <2>1, <2>2 DEF PricedRead, BarsKnown
<1> QED
  BY <1>4, <1>5, <1>6, <1>7

\* Between two queries nothing is to come.
LEMMA BetweenQueries ==
  ASSUME PagesRead, cursor = 0, cursor' = 0, UNCHANGED fetched,
         stage' \in {"actions", "financials"} => \A i \in DOMAIN queries' : queries'[i].table \in Tables
  PROVE  PagesRead'
<1>1. \A t : ToCome(t) = {} /\ ToCome(t)' = {}
  BY DEF ToCome
<1> QED
  BY <1>1 DEF PagesRead

\* A page: what was there when its query began is on it, was read before, or lies above the
\* cursor.
LEMMA PageStep ==
  ASSUME PullInv, ReadPage
  PROVE  PagesRead'
<1> DEFINE query == Head(queries)
           rows == Matching(query)
           page == IF query.table = "valuation" THEN rows ELSE PageAfter(rows, cursor)
           last == query.table = "valuation" \/ Cardinality(page) < PageSize
           had == IF cursor = 0 THEN fetched[query.table].had \union rows ELSE fetched[query.table].had
           got == fetched[query.table].got \union page
<1>1. PullTypes /\ PagesRead
  BY DEF PullInv
<1>2. /\ stage \in {"actions", "financials"} /\ stage' = stage /\ queries # <<>> /\ service' = service
      /\ cursor' = IF last THEN 0 ELSE Advanced(page)
      /\ queries' = IF last THEN Tail(queries) ELSE queries
      /\ fetched' = [fetched EXCEPT ![query.table] = [had |-> had, got |-> got]]
  BY DEF ReadPage
<1>3. /\ IsList(queries') /\ \A i \in DOMAIN queries' : queries'[i].table \in Tables
      /\ query.table \in Tables
  <2>1. /\ IsList(Tail(queries)) /\ 1 \in DOMAIN queries /\ query = queries[1]
        /\ \A i \in DOMAIN Tail(queries) : \E j \in DOMAIN queries : Tail(queries)[i] = queries[j]
    BY <1>1, <1>2, TailOfList DEF PullTypes
  <2>2. \A j \in DOMAIN queries : queries[j].table \in Tables
    BY <1>1, <1>2 DEF PagesRead
  <2> HIDE DEF query, last
  <2>3. queries' \in {queries, Tail(queries)}
    BY <1>2
  <2>4. \A i \in DOMAIN Tail(queries) : Tail(queries)[i].table \in Tables
    BY <2>1, <2>2
  <2> QED
    BY <1>1, <2>1, <2>2, <2>3, <2>4 DEF PullTypes
<1>4. rows \subseteq service.tables[query.table] /\ IsFiniteSet(rows) /\ \A r \in rows : r.id \in Nat \ {0}
  <2>1. IsFiniteSet(service.tables[query.table]) /\ \A r \in service.tables[query.table] : r.id \in Nat \ {0}
    BY <1>1, <1>3 DEF PullTypes, ServiceKnows
  <2>2. rows \subseteq service.tables[query.table]
    BY DEF Matching
  <2>3. IsFiniteSet(rows)
    BY <2>1, <2>2, FS_Subset
  <2> QED
    BY <2>1, <2>2, <2>3
<1>5. cursor \in Nat
  BY <1>1 DEF PagesRead
<1> HIDE DEF query, rows
<1>6. /\ last => \A r \in rows : r.id > cursor => r \in page
      /\ ~ last => /\ Advanced(page) \in Nat \ {0}
                   /\ \A r \in rows : r.id > cursor => r \in page \/ r.id > Advanced(page)
  <2>1. CASE query.table = "valuation"
    BY <2>1
  <2>2. CASE query.table # "valuation"
    BY <1>4, <1>5, <2>2, PageTakes
  <2> QED
    BY <2>1, <2>2
<1> HIDE DEF page, last
<1>7. cursor' \in Nat /\ (cursor' # 0 => ~ last /\ queries' = queries /\ cursor' = Advanced(page))
  BY <1>2, <1>6
<1>8. /\ DOMAIN fetched' = Tables /\ DOMAIN fetched = Tables
      /\ fetched'[query.table].had = had /\ fetched'[query.table].got = got
      /\ \A u \in Tables : u # query.table => fetched'[u] = fetched[u]
  <2> HIDE DEF had, got
  <2> QED
    BY <1>1, <1>2, <1>3 DEF PagesRead
<1>9. ASSUME NEW u, u = query.table, cursor' # 0
      PROVE  ToCome(u)' = {r \in rows : r.id > Advanced(page)}
  <2>1. Matching(query)' = {r \in service.tables[query'.table] : r.code \in Asked(query')}
    BY <1>2 DEF Matching, Asked
  <2>2. query' = query
    BY <1>7, <1>9 DEF query
  <2>3. ToCome(u)' = {r \in Matching(query)' : r.id > cursor'}
    BY <1>7, <1>9, <2>2 DEF ToCome, query
  <2> QED
    BY <1>7, <1>9, <2>1, <2>2, <2>3 DEF rows, Matching
<1>10. \A x \in fetched[query.table].had :
            x \in fetched[query.table].got \/ (x \in rows /\ x.id > cursor)
  BY <1>1, <1>3 DEF PagesRead, ToCome, rows, query
<1>11. ASSUME NEW x \in had PROVE x \in got \/ (cursor' # 0 /\ x \in rows /\ x.id > Advanced(page))
  <2>1. CASE x \in fetched[query.table].got
    BY <2>1
  <2>2. CASE x \in rows /\ x.id > cursor
    <3>1. CASE last
      BY <1>6, <2>2, <3>1
    <3>2. CASE ~ last
      <4>1. cursor' # 0 /\ (x \in page \/ x.id > Advanced(page))
        BY <1>2, <1>6, <2>2, <3>2
      <4> QED
        BY <2>2, <4>1
    <3> QED
      BY <3>1, <3>2
  <2>3. cursor = 0 /\ x \in rows => x.id > cursor
    BY <1>4
  <2> QED
    BY <1>10, <2>1, <2>2, <2>3
<1>12. ASSUME NEW u \in Tables PROVE fetched'[u].had \subseteq fetched'[u].got \union ToCome(u)'
  <2>1. CASE u = query.table
    <3>1. cursor' # 0 => ToCome(u)' = {r \in rows : r.id > Advanced(page)}
      BY <1>9, <2>1
    <3> HIDE DEF had, got
    <3>2. \A x \in had : x \in got \/ x \in ToCome(u)'
      BY <1>11, <3>1
    <3> QED
      BY <1>8, <2>1, <3>2
  <2>2. CASE u # query.table
    <3>1. ToCome(u) = {}
      BY <2>2 DEF ToCome, query
    <3> QED
      BY <1>1, <1>8, <2>2, <3>1 DEF PagesRead
  <2> QED
    BY <2>1, <2>2
<1>13. cursor' # 0 => queries' # <<>> /\ Head(queries').table \in Tables
  BY <1>2, <1>3, <1>7 DEF query
<1> QED
  BY <1>2, <1>3, <1>7, <1>8, <1>12, <1>13 DEF PagesRead

\* So no step loses a row that was there.
LEMMA PagesStep ==
  ASSUME PullInv, [PullNext]_pullVars
  PROVE  PagesRead'
<1>1. PullTypes /\ PagesRead
  BY DEF PullInv
<1>2. CASE ReadPage
  BY <1>2, PageStep
<1>3. CASE PricesDone
  <2> DEFINE all == Sorted(Priced)
             q == <<[table |-> "actions", codes |-> all], [table |-> "funds", codes |-> all]>>
  <2>1. stage = "prices" /\ queries' = q /\ UNCHANGED <<cursor, fetched>>
    BY <1>3 DEF PricesDone
  <2>2. \A i \in DOMAIN q : q[i].table \in Tables
    BY DEF Tables
  <2>3. cursor = 0
    BY <1>1, <2>1 DEF PagesRead
  <2> HIDE DEF q
  <2> QED
    BY <1>1, <2>1, <2>2, <2>3, BetweenQueries
<1>4. CASE ReadHistory \/ ReadIndustries
  <2>1. /\ stage \in {"history", "industry"} /\ UNCHANGED <<cursor, fetched>>
        /\ \/ queries' = FinancialQueries
           \/ stage' \in {"refused", "industry"}
    BY <1>4 DEF ReadHistory, ReadIndustries
  <2>2. cursor = 0
    BY <1>1, <2>1 DEF PagesRead
  <2>3. \A i \in DOMAIN FinancialQueries : FinancialQueries[i].table \in Tables
    BY <2>1, FinancialQueriesKnown DEF MembersKnown, PullStages
  <2> QED
    BY <1>1, <2>1, <2>2, <2>3, BetweenQueries
<1>5. CASE \E c \in DOMAIN service.listed : AddRow(c)
  <2>1. PICK c \in DOMAIN service.listed : AddRow(c)
    BY <1>5
  <2> DEFINE u == Head(queries).table
             row == [id |-> Cardinality(service.tables[u]) + 1, code |-> c, state |-> "done"]
  <2>2. /\ UNCHANGED <<stage, queries, cursor, fetched>> /\ cursor # 0
        /\ service' = [service EXCEPT !.tables[u] = @ \union {row}]
    BY <2>1 DEF AddRow
  <2> HIDE DEF row
  <2>3. u \in Tables /\ DOMAIN service.tables = Tables /\ "tables" \in DOMAIN service
    BY <1>1, <2>2 DEF PagesRead, PullTypes, ServiceKnows
  <2>4. service'.tables[u] = service.tables[u] \union {row}
    BY <2>2, <2>3
  <2>5. Matching(Head(queries)) \subseteq Matching(Head(queries))'
    BY <2>2, <2>4 DEF Matching, Asked
  <2>6. \A t : ToCome(t) \subseteq ToCome(t)'
    BY <2>2, <2>5 DEF ToCome
  <2> QED
    BY <1>1, <2>2, <2>6 DEF PagesRead
<1>6. CASE ~ (ReadPage \/ PricesDone \/ ReadHistory \/ ReadIndustries
              \/ \E c \in DOMAIN service.listed : AddRow(c))
  <2>1. UNCHANGED <<service, cursor, fetched>>
    BY <1>6 DEF PullNext, Call, Connect, ReadCalendar, ListMembers, ReadCatalog, LookUp,
       CatalogDone, ReadPrices, ActionsDone, FinancialsDone, Finish, TimeOut, CallFails,
       HistoryFails, pullVars
  <2>2. \/ queries = <<>> /\ UNCHANGED queries /\ stage' \notin {"actions", "financials"}
        \/ UNCHANGED <<queries, stage>>
        \/ stage' = "refused" /\ UNCHANGED queries
        \/ stage \notin {"actions", "financials", "refused"} /\ stage' \notin {"actions", "financials"}
    BY <1>6 DEF PullNext, Call, Connect, ReadCalendar, ListMembers, ReadCatalog, LookUp,
       CatalogDone, ReadPrices, ActionsDone, FinancialsDone, Finish, TimeOut, CallFails,
       HistoryFails, pullVars, Reach
  <2>3. CASE cursor = 0
    <3>1. stage' \in {"actions", "financials"} => \A i \in DOMAIN queries' : queries'[i].table \in Tables
      BY <1>1, <2>2 DEF PagesRead
    <3> QED
      BY <1>1, <2>1, <2>3, <3>1, BetweenQueries
  <2>4. CASE cursor # 0
    <3>1. UNCHANGED queries /\ (stage' = "refused" \/ stage' = stage)
      BY <1>1, <2>2, <2>4 DEF PagesRead
    <3>2. \A t : ToCome(t)' = ToCome(t)
      BY <2>1, <3>1 DEF ToCome, Matching, Asked
    <3> QED
      BY <1>1, <2>1, <3>1, <3>2 DEF PagesRead
  <2> QED
    BY <2>3, <2>4
<1> QED
  BY <1>2, <1>3, <1>4, <1>5, <1>6

LEMMA PullInvHolds == PullSpec => []PullInv
<1>1. PullInit => PullInv
  BY PullInvInit
<1>2. PullInv /\ [PullNext]_pullVars => PullInv'
  <2> SUFFICES ASSUME PullInv, [PullNext]_pullVars PROVE PullInv'
    OBVIOUS
  <2>1. PullTypes' /\ UniverseRead' /\ IndustriesRead'
    BY TypesStep, UniverseStep, IndustriesStep
  <2>2. LookedUp' /\ PricedRead' /\ PagesRead'
    BY LookedStep, PricedStep, PagesStep
  <2> QED
    BY <2>1, <2>2 DEF PullInv
<1> QED
  BY <1>1, <1>2, PTL DEF PullSpec

\* A pull that ends has read every row its tables held when they were asked for, however they
\* were paged and whatever was added meanwhile, and every bar of what it prices; and what it
\* cannot find was asked for by name and is listed neither on the first day nor on the last.
THEOREM PullReadsAll == PullSpec => []PullComplete
<1>1. PullInv => PullComplete
  <2> SUFFICES ASSUME PullInv PROVE PullComplete
    OBVIOUS
  <2>1. ASSUME stage \in {"history", "industry", "finish", "batch"}, NEW t \in Tables
        PROVE  fetched[t].had \subseteq fetched[t].got
    <3>1. ToCome(t) = {}
      BY <2>1 DEF PullInv, PagesRead, ToCome
    <3> QED
      BY <3>1 DEF PullInv, PagesRead
  <2>2. stage = "batch" => \A b \in service.bars : b[1] \in Priced => b \in bars
    BY DEF PullInv, PricedRead, BarsKnown
  <2>3. stage = "missing" =>
            \E c \in order.codes \ Everyone : ~ (ListedOn(c, FirstDay) \/ ListedOn(c, LastDay))
    BY DEF PullInv, LookedUp
  <2> QED
    BY <2>1, <2>2, <2>3 DEF PullComplete
<1> QED
  BY <1>1, PullInvHolds, PTL

\* The intervals of a pull that ends say of every trade day who the service named a member, and
\* in which industry it put a stock, whether its history was read or every day was asked for.
THEOREM MembershipKept == PullSpec => []MembershipReadsBack
<1>1. PullInv => MembershipReadsBack
  <2> SUFFICES ASSUME PullInv, stage = "batch", NEW c \in DOMAIN service.listed
               PROVE  /\ ValidIntervals(RowsOf(c, members)) /\ ValidIntervals(RowsOf(c, industries))
                      /\ \A day \in PullDays :
                            /\ c \in service.index[day] <=> \E r \in RowsOf(c, members) : Within(r, day)
                            /\ c \in ActiveOn(day) =>
                                {r.value : r \in {i \in RowsOf(c, industries) : Within(i, day)}}
                                    = {service.industry[c][day]} \ {None}
    BY DEF MembershipReadsBack
  <2>1. ReadBack(MemberAnswers, members) /\ IndustriesReadBack
    BY DEF PullInv, UniverseRead, IndustriesRead, MembersKnown, IndustriesKnown, PullStages
  <2>2. ValidIntervals(RowsOf(c, members))
    BY <2>1, ReadBackIsValid
  <2>3. ASSUME NEW day \in PullDays
        PROVE  c \in service.index[day] <=> \E r \in RowsOf(c, members) : Within(r, day)
    <3>1. c \in service.index[day] <=> c \in DOMAIN MemberAnswers[day]
      BY DEF MemberAnswers
    <3>2. c \in DOMAIN MemberAnswers[day] <=> \E r \in members : r.code = c /\ Within(r, day)
      BY <2>1 DEF ReadBack
    <3> QED
      BY <3>1, <3>2 DEF RowsOf
  <2>4. /\ ValidIntervals(RowsOf(c, industries))
        /\ \A day \in PullDays : c \in ActiveOn(day) =>
              {r.value : r \in {i \in RowsOf(c, industries) : Within(i, day)}}
                  = {service.industry[c][day]} \ {None}
    BY <2>1 DEF IndustriesReadBack
  <2> QED
    BY <2>2, <2>3, <2>4
<1> QED
  BY <1>1, PullInvHolds, PTL
=============================================================================
