---------------------------- MODULE Constraints -----------------------------
(***************************************************************************)
(* ConstraintEngine.apply (zyquant.portfolio.constraints): what the         *)
(* portfolio rules make of a constructor's candidate.                      *)
(*                                                                         *)
(* A book is a function from codes to weights, whole numbers of parts of   *)
(* Unit; a division rounds down where the code has a float, so that two    *)
(* sums that are equal there differ here by Slack at most.  Codes are      *)
(* numbers: they are sorted as the code sorts identifiers.  The rules r    *)
(* are a record of PortfolioConstraints' fields, None where they may be.   *)
(***************************************************************************)
EXTENDS Orders, SequencesExt

CONSTANTS
    Unit,           \* the whole portfolio
    Slack,          \* rounding of the sums compared
    Industry,       \* [codes with a classification -> industries]
    AssetType,      \* [codes -> asset types]
    None

ASSUME ConstraintsAssumption == Unit \in Nat \ {0} /\ Slack \in Nat

Invested(b) == SumFunction(b)
Weight(b, c) == IF c \in DOMAIN b THEN b[c] ELSE 0
Positive(b) == RestrictValues(b, LAMBDA w : w > 0)
Empty == [c \in {} |-> 0]

\* What the members of a group of f hold together.
GroupWeight(b, f, group) ==
    SumFunctionOnSet(b, {c \in DOMAIN b \intersect DOMAIN f : f[c] = group})

Turnover(b, current) ==     \* both ways: twice the one-way turnover
    SumFunction([c \in DOMAIN b \union DOMAIN current |->
                    LET d == Weight(b, c) - Weight(current, c) IN IF d < 0 THEN -d ELSE d])

-----------------------------------------------------------------------------
\* Weights and cash are finite numbers, and not negative.
ProtocolError(b, cash, eligible) ==
    \/ ~ (DOMAIN b \subseteq eligible)
    \/ cash \notin 0 .. Unit
    \/ \E c \in DOMAIN b : b[c] \notin Nat
    \/ Invested(b) + cash \notin Unit - Slack .. Unit + Slack

Unclassified(r, b) ==
    \/ r.maxIndustry # None /\ ~ (DOMAIN b \subseteq DOMAIN Industry)
    \/ DOMAIN r.maxAsset # {} /\ ~ (DOMAIN b \subseteq DOMAIN AssetType)

\* The minimum of cash is kept by scaling all weights; less than a part of Unit is nothing.
Scaled(r, b) ==
    LET budget == Unit - r.minCash
    IN  IF Invested(b) > budget
        THEN Positive([c \in DOMAIN b |-> (b[c] * budget) \div Invested(b)])
        ELSE b

\* The room the caps leave a code.
Room(r, b, c) ==
    Min({r.maxInstrument - b[c]}
        \union (IF r.maxIndustry = None THEN {}
                ELSE {r.maxIndustry - GroupWeight(b, Industry, Industry[c])})
        \union {r.maxAsset[t] - GroupWeight(b, AssetType, t) :
                    t \in DOMAIN r.maxAsset \intersect {AssetType[c]}})

\* A code gets its share of what remains at its turn, as far as it has room.
Grant(room, proposed) == Min({Max({0, room}), proposed})

GiveTo(r, w, base, s, c) ==
    LET proposed == (s.remaining * w[c]) \div base
        room == Room(r, s.book, c)
        added == Grant(room, proposed)
    IN  [book |-> [s.book EXCEPT ![c] = @ + added], remaining |-> s.remaining - added,
         active |-> IF room <= proposed THEN s.active \ {c} ELSE s.active,
         progressed |-> s.progressed \/ added > 0]

\* One pass over the codes that have room, in their order; the shares are of the weights
\* at its start.
Pass(r, w, s) ==
    LET turns == Ascending(s.active)
        base == SumFunctionOnSet(w, s.active)
        given[n \in 0 .. Cardinality(s.active)] ==
            IF n = 0 THEN [s EXCEPT !.progressed = FALSE]
            ELSE GiveTo(r, w, base, given[n - 1], turns[n])
    IN  given[Cardinality(s.active)]

\* Four passes per code at most.
\* Mutant: a single pass.
PassesOne(w) == 1
Passes(w) == 4 * Cardinality(DOMAIN w)

Redistributed(r, w, target) ==
    LET passes[n \in 0 .. Passes(w)] ==
            IF n = 0
            THEN [book |-> [c \in DOMAIN w |-> 0], remaining |-> target,
                  active |-> DOMAIN w, progressed |-> TRUE]
            ELSE LET s == passes[n - 1]
                 IN  IF s.remaining <= 0 \/ s.active = {} \/ ~ s.progressed THEN s
                     ELSE Pass(r, w, s)
    IN  Positive(passes[Passes(w)].book)

\* The heaviest codes, the first of equals.
Heavier(b, c) == {d \in DOMAIN b : b[d] > b[c] \/ (b[d] = b[c] /\ d < c)}
Largest(r, b) ==
    IF r.maxHoldings = None \/ Cardinality(DOMAIN b) <= r.maxHoldings THEN b
    ELSE RestrictDomain(b, LAMBDA c : Cardinality(Heavier(b, c)) < r.maxHoldings)

WithoutFragments(r, b) == RestrictValues(b, LAMBDA w : w >= r.minTarget)

\* Mutant: the caps of the industries are forgotten.
WithinGroupsOfAssets(r, b) ==
    \A t \in DOMAIN r.maxAsset : GroupWeight(b, AssetType, t) <= r.maxAsset[t]
WithinGroups(r, b) ==
    /\ r.maxIndustry # None =>
        /\ DOMAIN b \subseteq DOMAIN Industry
        /\ \A c \in DOMAIN b : GroupWeight(b, Industry, Industry[c]) <= r.maxIndustry
    /\ \A t \in DOMAIN r.maxAsset : GroupWeight(b, AssetType, t) <= r.maxAsset[t]

HardValid(r, b) ==
    /\ \A c \in DOMAIN b : b[c] \in 0 .. r.maxInstrument
    /\ Invested(b) <= Unit - r.minCash
    /\ WithinGroups(r, b)

\* On the way from the current book to the new one, as far as the turnover allows.
\* What is not eligible any more is left out, and so sold as a whole.
Interpolated(r, b, eligible, current) ==
    Positive([c \in (DOMAIN b \union DOMAIN current) \intersect eligible |->
        Weight(current, c) + (2 * r.maxTurnover * (Weight(b, c) - Weight(current, c)))
                                \div Turnover(b, current)])

\* The rules that shape a portfolio, in the order of the code.
Shaped(r, w) ==
    WithoutFragments(r, Largest(r, Redistributed(r, w, Invested(w))))

\* The turnover's limit gives way, on record, where it would break the hard rules.
Steered(r, target, eligible, current) ==
    LET tooFar == r.maxTurnover # None /\ Turnover(target, current) > 2 * r.maxTurnover
        nearer == Interpolated(r, target, eligible, current)
    IN  IF ~ tooFar THEN [book |-> target, overridden |-> FALSE]
        ELSE IF HardValid(r, nearer) THEN [book |-> nearer, overridden |-> FALSE]
        ELSE [book |-> target, overridden |-> TRUE]

Verdict(r, steered) ==
    IF ~ HardValid(r, steered.book) \/ Unit - Invested(steered.book) > r.maxCash + Slack
    THEN [outcome |-> "infeasible"]
    ELSE [outcome |-> "ok", book |-> steered.book, overridden |-> steered.overridden]

\* What becomes of a candidate: an error, or the book and whether the turnover's limit
\* was overridden.
Constrained(r, candidate, cash, eligible, current) ==
    IF ProtocolError(candidate, cash, eligible) THEN [outcome |-> "protocol"]
    ELSE IF Unclassified(r, candidate) THEN [outcome |-> "infeasible"]
    ELSE Verdict(r, Steered(r, Shaped(r, Scaled(r, Positive(candidate))), eligible, current))
=============================================================================
