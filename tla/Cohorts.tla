------------------------------ MODULE Cohorts -------------------------------
(***************************************************************************)
(* Targets that are scheduled ahead (ScheduledTargetPortfolio): a decision *)
(* of day T issues the legs of a cohort, an entry at a later open and an   *)
(* exit at a later close, the engine queues them, and a leg touches only   *)
(* the lots of its cohort.                                                 *)
(*                                                                         *)
(* Two strategies use them: that of docs/strategy-guide.md, which issues   *)
(* both legs and forgets them, and Ema20MomentumStrategy                   *)
(* (strategies/ml_ema20_momentum_v1), which keeps a book of its cohorts in *)
(* its state and issues another exit for whatever is still held.           *)
(*                                                                         *)
(* A code is bought in Lots lots at a price of one; which codes are ranked *)
(* is data.  Both strategies enter at the open and exit at the close, so   *)
(* that their own demands never cross.                                     *)
(***************************************************************************)
EXTENDS Integers, FiniteSets, FiniteSetsExt, Functions

CONSTANTS
    Sessions,       \* the calendar is 1 .. Sessions
    Names,          \* instruments
    Lots,           \* lots of an entry
    Delay,          \* sell_delay_days
    Cash,           \* lots the sleeve can pay for
    TopK,           \* entries of a decision
    Exits,          \* sessions to the exit in the strategy of the guide
    Kinds,          \* subset of {"guide", "ema20"}
    Timings         \* subset of {"next_open", "next_close", "same_close"}

\* A run has sessions and names that can be counted.
ASSUME CohortsAssumption ==
    /\ Sessions \in Nat \ {0} /\ IsFiniteSet(Names)
    /\ Kinds \subseteq {"guide", "ema20"}
    /\ Timings \subseteq {"next_open", "next_close", "same_close"}

VARIABLES
    kind, timing,   \* configuration of the run
    session, step,  \* day_index and what comes next in the day
    queue,          \* pending: legs
    held,           \* [<<cohort, code>> -> lots], cohorts by the day of their signal
    cash,           \* of the sleeve, in lots
    book,           \* payload of the strategy: [cohorts -> [entry, exit, symbols]]
    entered,        \* history: cohorts with a leg executed,
    skipped         \* and cohorts with a leg that was not queued

cohortVars == <<kind, timing, session, step, queue, held, cash, book, entered, skipped>>

Leg(cohort, on, phase, codes) ==
    [cohort |-> cohort, on |-> on, phase |-> phase, codes |-> codes]

CohortsInit ==
    /\ kind \in Kinds /\ timing \in Timings
    /\ session = 1 /\ step = "open"
    /\ queue = {} /\ entered = {} /\ skipped = {}
    /\ held = [k \in {} |-> 0] /\ cash = Cash
    /\ book = [c \in {} |-> 0]

\* What follows in the day; with same_close a decision is executed at the close of its day,
\* on what was known the day before.  The legs name their own phase, so that next_close
\* differs from next_open in nothing a cohort sees.
Following ==
    CASE step = "open"   -> IF timing = "same_close" THEN "decide" ELSE "close"
      [] step = "decide" -> IF timing = "same_close" THEN "close" ELSE "night"
      [] step = "close"  -> IF timing = "same_close" THEN "night" ELSE "decide"

HeldOf(cohort) == {k[2] : k \in {l \in DOMAIN held : l[1] = cohort}}
HeldCodes == {k[2] : k \in DOMAIN held}

-----------------------------------------------------------------------------
(* The execution of the legs that are due.                                  *)

Due(phase) == {l \in queue : l.on = session /\ l.phase = phase}

\* An exit sells what the cohort holds; an exit of the example strategy names its codes.
Sold(l) == IF kind = "guide" THEN HeldOf(l.cohort) ELSE HeldOf(l.cohort) \intersect l.codes

\* A lot is sellable some sessions after its entry, or in the last session.
Sellable(k) == session >= Min({Sessions, k[1] + 1 + Delay})

Demands(legs) ==
    {k \in UNION {{<<l.cohort, c>> : c \in Sold(l)} : l \in legs} : Sellable(k)}

\* At the close the market fills each demand, a part of it, or nothing.
ExecuteExits ==
    /\ step = "close"
    /\ \E fill \in [Demands(Due("close")) -> 0 .. Lots] :
        /\ \A k \in DOMAIN fill : fill[k] <= held[k]
        /\ held' = RestrictValues([k \in DOMAIN held |->
                        IF k \in DOMAIN fill THEN held[k] - fill[k] ELSE held[k]],
                        LAMBDA n : n > 0)
        /\ cash' = cash + SumFunction(fill)
    /\ queue' = queue \ Due("close")
    /\ entered' = entered \union {l.cohort : l \in Due("close")}
    /\ step' = Following
    /\ UNCHANGED <<kind, timing, session, book, skipped>>

\* At the open the cash bounds what is asked for, and the market what of it is filled.
ExecuteEntries ==
    /\ step = "open"
    /\ \E fill \in [UNION {{<<l.cohort, c>> : c \in l.codes} : l \in Due("open")} -> 0 .. Lots] :
        /\ SumFunction(fill) <= cash
        /\ held' = [k \in DOMAIN held \union {j \in DOMAIN fill : fill[j] > 0} |->
                        IF k \in DOMAIN fill THEN fill[k] ELSE held[k]]
        /\ cash' = cash - SumFunction(fill)
    /\ queue' = queue \ Due("open")
    /\ entered' = entered \union {l.cohort : l \in Due("open")}
    /\ step' = Following
    /\ UNCHANGED <<kind, timing, session, book, skipped>>

-----------------------------------------------------------------------------
(* Decisions.                                                               *)

\* Mutant: the legs beyond the last session are skipped, and the others queued.
QueuedByLeg(legs) == {l \in legs : l.on <= Sessions}
Queued(legs) ==
    {l \in legs : \A m \in legs : m.cohort = l.cohort => m.on <= Sessions}

Enqueue(legs) ==
    /\ queue' = queue \union Queued(legs)
    /\ skipped' = skipped \union {l.cohort : l \in legs \ Queued(legs)}

\* A strategy decides on the day of its signal when its target can still be executed.
DecisionDay ==
    IF timing = "same_close" THEN session > 1 ELSE session < Sessions

GuideDecides ==
    /\ kind = "guide"
    /\ \E codes \in SUBSET Names : \E exit \in Exits :
        /\ Cardinality(codes) <= TopK
        /\ Enqueue(IF codes = {} THEN {}
                   ELSE {Leg(session, session + 1, "open", codes),
                         Leg(session, session + exit, "close", codes)})
    /\ UNCHANGED book

\* Mutant: a cohort gets its next exit one day late.
OnItsWayADayLonger(item) == session <= item.exit
OnItsWay(item) == session < item.exit

\* The book at a decision: before its exit a cohort is kept while it waits for its entry or
\* holds something, from then on while something is held.
Kept(cohort) ==
    LET item == book[cohort]
        actual == item.symbols \intersect HeldCodes
    IN  IF session < item.entry THEN item ELSE [item EXCEPT !.symbols = actual]

Remaining == {c \in DOMAIN book : session < book[c].entry \/ Kept(c).symbols # {}}

Retries ==
    {Leg(c, session + 1, "close", Kept(c).symbols) :
        c \in {d \in Remaining : ~ OnItsWay(book[d]) /\ session + 1 <= Sessions}}

Slots == Min({TopK, cash \div Lots})

\* What is held is not selected again; there must be sessions for both legs.
Ema20Decides ==
    /\ kind = "ema20"
    /\ \E codes \in SUBSET (Names \ HeldCodes) :
        /\ Cardinality(codes) <= (IF session + 2 <= Sessions THEN Slots ELSE 0)
        /\ LET kept == [c \in Remaining |-> Kept(c)]
               new == IF codes = {} THEN {} ELSE {session}
               entry == Leg(session, session + 1, "open", codes)
               exit == Leg(session, session + 2, "close", codes)
           IN  /\ book' = [c \in Remaining \union new |->
                            IF c \in Remaining THEN kept[c]
                            ELSE [entry |-> session + 1, exit |-> session + 2, symbols |-> codes]]
               /\ Enqueue(Retries \union (IF codes = {} THEN {} ELSE {entry, exit}))

DecideCohorts ==
    /\ step = "decide"
    /\ IF DecisionDay THEN GuideDecides \/ Ema20Decides
       ELSE UNCHANGED <<queue, skipped, book>>
    /\ step' = Following
    /\ UNCHANGED <<kind, timing, session, held, cash, entered>>

NextSession ==
    /\ step = "night" /\ session < Sessions
    /\ session' = session + 1 /\ step' = "open"
    /\ UNCHANGED <<kind, timing, queue, held, cash, book, entered, skipped>>

CohortsNext == ExecuteEntries \/ ExecuteExits \/ DecideCohorts \/ NextSession

CohortsSpec == CohortsInit /\ [][CohortsNext]_cohortVars

-----------------------------------------------------------------------------
\* The legs a decision issues for a cohort are all executed or none is
\* (docs/strategy-guide.md 86: no cohort is entered that cannot exit).
CohortsComplete == entered \intersect skipped = {}

\* While the example strategy decides, whatever a cohort holds from its first exit on has an
\* exit queued for the next close, and no code is in the hands of two cohorts
\* (tests: test_exit_state_retries_without_maximum_holding_period).
NothingStranded ==
    kind = "ema20" =>
        /\ \A k, j \in DOMAIN held : k[2] = j[2] => k = j
        /\ step = "open" =>
            \A k \in DOMAIN held :
                \/ \E l \in queue : /\ l.cohort = k[1] /\ l.phase = "close"
                                    /\ k[2] \in l.codes /\ l.on <= Max({session, k[1] + 2})
=============================================================================
