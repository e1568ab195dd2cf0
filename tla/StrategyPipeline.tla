-------------------------- MODULE StrategyPipeline --------------------------
(***************************************************************************)
(* PipelineStrategy.decide (zyquant.strategy.pipeline) with the engine's   *)
(* part of a decision: a universe is selected from what is known, signals  *)
(* rank it, a constructor makes a candidate of the ranking and of its own  *)
(* state, the constraints make a target of the candidate, and a policy     *)
(* steps in where any of them has nothing.  Between two decisions the      *)
(* market brings the portfolio to the target, or part of the way.          *)
(*                                                                         *)
(* Scores are data: the signals of a day are any function on part of the   *)
(* universe.  A DirectTargetStrategy has no signals and no policies: its   *)
(* candidate is configured, and whatever fails ends the run.  Risk parity, *)
(* an iteration on real numbers, is left out.                              *)
(***************************************************************************)
EXTENDS Constraints

CONSTANTS
    Days,           \* 1 .. n
    Lag,            \* cutoff of a decision before its day: 1 with same_close, else 0
    World,          \* [codes -> [type, listed, delisted, amounts, members]]
    Universe,       \* StandardUniverseSelector: [types, listedDays, window, minAmount, index]
    Strategies,     \* see Construct: [constructor, topK, buffer, replace, invest, external,
                    \*                 noCandidate, infeasible]
    RuleSets,       \* records of PortfolioConstraints
    Scores,         \* values of a signal
    Decisions       \* BOUND: decisions of a run

VARIABLES
    strategy, rules,    \* configuration of the run
    day,                \* of the last decision
    selected,           \* payload of the strategy's state: codes in order
    previous,           \* book of the previous target, or None
    current,            \* weights of what is held
    last,               \* what the last decision did, see Outcome
    decisions           \* decisions so far

pipelineVars == <<strategy, rules, day, selected, previous, current, last, decisions>>

Codes == DOMAIN World

\* The ranges ConstraintEngine accepts.
RulesAccepted(r) ==
    /\ r.maxCash \in 0 .. Unit /\ r.minCash \in 0 .. r.maxCash
    /\ r.maxInstrument \in 1 .. Unit
    /\ r.maxIndustry # None => r.maxIndustry \in 1 .. Unit
    /\ r.maxTurnover # None => r.maxTurnover \in Nat \ {0}
    /\ \A t \in DOMAIN r.maxAsset : r.maxAsset[t] \in 0 .. Unit

\* Slack covers what the rounding of one weight of every code adds up to.
ASSUME PipelineAssumption ==
    /\ IsFiniteSet(Codes) /\ Codes \subseteq Int /\ Cardinality(Codes) <= 2 * Slack
    /\ \A r \in RuleSets : RulesAccepted(r)

NoDecision == [outcome |-> "none"]

PipelineInit ==
    /\ strategy \in Strategies /\ rules \in RuleSets
    /\ day = 0 /\ decisions = 0
    /\ selected = <<>> /\ previous = None /\ current = Empty /\ last = NoDecision

-----------------------------------------------------------------------------
(* The universe: what is listed long enough, not delisted, a member, and    *)
(* traded enough over the last rows of its history, all as of the cutoff.  *)

InForce(m, on, cutoff) ==
    /\ m.from <= on /\ m.known <= cutoff
    /\ m.to # None => m.to >= on

History(c, on, cutoff) ==
    SelectSeq([i \in 1 .. Min({on, cutoff}) |-> World[c].amounts[i]], LAMBDA a : a > 0)

\* Twice the median of the last rows.
Median2(s) ==
    LET n == Len(s)
        sorted == SortSeq(s, <)
    IN  IF n % 2 = 1 THEN 2 * sorted[(n + 1) \div 2]
        ELSE sorted[n \div 2] + sorted[n \div 2 + 1]
LastOf(s, n) == SubSeq(s, Max({1, Len(s) - n + 1}), Len(s))

Eligible(on, cutoff) ==
    {c \in Codes :
        LET w == World[c]
            history == History(c, on, cutoff)
        IN  /\ w.type \in Universe.types
            /\ Universe.index => \E m \in w.members : InForce(m, on, cutoff)
            /\ on - w.listed >= Universe.listedDays
            /\ w.delisted # None => w.delisted > on
            /\ Len(history) >= Max({1, Universe.window})
            /\ Median2(LastOf(history, Universe.window)) >= 2 * Universe.minAmount}

\* The signals of a day in their order: the higher score first, then the identifier.
Ranked(signals) ==
    SetToSortSeq(DOMAIN signals, LAMBDA c, d :
        signals[c] > signals[d] \/ (signals[c] = signals[d] /\ c < d))

-----------------------------------------------------------------------------
(* The constructors.                                                        *)

Candidate(book, cash, state) == [book |-> book, cash |-> cash, state |-> state]
Shared(invest, codes) ==
    [c \in ToSet(codes) |-> invest \div Len(codes)]
First(s, n) == SubSeq(s, 1, Min({n, Len(s)}))

TopKEqualWeight(ranked) ==
    LET codes == First(ranked, strategy.topK)
    IN  IF codes = <<>> THEN Candidate(Empty, Unit, selected)
        ELSE Candidate(Shared(strategy.invest, codes), Unit - strategy.invest, selected)

\* What was selected stays while it ranks within the buffer; what is new is limited, and
\* then whatever ranks highest fills the rest, without that limit.
Retained(ranked) ==
    SelectSeq(selected, LAMBDA c : c \in ToSet(First(ranked, strategy.topK + strategy.buffer)))

TopKDropout(ranked) ==
    LET retained == Retained(ranked)
        Fresh(s) == SelectSeq(ranked, LAMBDA c : c \notin ToSet(s))
        room == Max({0, strategy.topK - Len(retained)})
        chosen == First(retained \o First(Fresh(retained), Min({strategy.replace, room})),
                        strategy.topK)
        filled == chosen \o First(Fresh(chosen), strategy.topK - Len(chosen))
    IN  IF filled = <<>> THEN Candidate(Empty, Unit, filled)
        ELSE Candidate(Shared(strategy.invest, filled), Unit - strategy.invest, filled)

ScoreWeighted(ranked, signals) ==
    LET codes == First(ranked, strategy.topK)
        raw == [i \in DOMAIN codes |->
                    IF strategy.constructor = "rank" THEN Len(codes) + 1 - i
                    ELSE Max({0, signals[codes[i]]})]
        sum == SumFunction(raw)
    IN  IF codes = <<>> \/ sum <= 0 THEN Candidate(Empty, Unit, selected)
        ELSE Candidate([c \in ToSet(codes) |->
                            (raw[CHOOSE i \in DOMAIN codes : codes[i] = c] * strategy.invest)
                                \div sum],
                       Unit - strategy.invest, selected)

ExternalTargetWeights ==
    Candidate(strategy.external, Unit - Invested(strategy.external), selected)

Construct(ranked, signals) ==
    CASE strategy.constructor = "topk" -> TopKEqualWeight(ranked)
      [] strategy.constructor = "dropout" -> TopKDropout(ranked)
      [] strategy.constructor \in {"positive", "rank"} -> ScoreWeighted(ranked, signals)
      [] strategy.constructor \in {"external", "direct"} -> ExternalTargetWeights

-----------------------------------------------------------------------------
(* A decision.                                                              *)

Outcome(outcome, book, state, eligible) ==
    [outcome |-> outcome, book |-> book, state |-> state, eligible |-> eligible,
     held |-> current, candidate |-> Empty, overridden |-> FALSE]

\* "skip" too goes back to the previous target, if there is one.
Fallback(policy, state, eligible) ==
    IF policy = "fail" THEN Outcome("failed", None, state, eligible)
    ELSE IF policy \in {"hold_previous", "skip"} /\ previous # None
    THEN Outcome("fallback", previous, state, eligible)
    ELSE IF policy = "skip" THEN Outcome("skipped", None, state, eligible)
    ELSE Outcome("fallback", Empty, state, eligible)

\* What the constraints made of a candidate.
Judged(candidate, eligible, report) ==
    LET direct == strategy.constructor = "direct"
    IN  CASE report.outcome = "protocol" -> Outcome("failed", None, selected, eligible)
          [] report.outcome = "infeasible" ->
                Fallback(IF direct THEN "fail" ELSE strategy.infeasible,
                         candidate.state, eligible)
          [] report.outcome = "ok" ->
                [Outcome("target", report.book, candidate.state, eligible) EXCEPT
                    !.candidate = candidate.book, !.overridden = report.overridden]

Constructed(candidate, eligible) ==
    IF candidate.cash < 0 THEN Outcome("failed", None, selected, eligible)
    ELSE IF DOMAIN candidate.book = {} /\ strategy.constructor # "direct"
    THEN Fallback(strategy.noCandidate, candidate.state, eligible)
    ELSE Judged(candidate, eligible,
                Constrained(rules, candidate.book, candidate.cash, eligible, current))

Decision(signals, eligible) ==
    IF DOMAIN signals = {} /\ strategy.constructor # "direct"
    THEN Fallback(strategy.noCandidate, selected, eligible)
    ELSE Constructed(Construct(Ranked(signals), signals), eligible)

Signals(eligible) == UNION {[codes -> Scores] : codes \in SUBSET eligible}

\* The engine keeps the state, and the target when there is one; an error ends the run.
Decide(on, signals) ==
    /\ last.outcome # "failed" /\ decisions < Decisions /\ on > day
    /\ LET d == Decision(signals, Eligible(on, on - Lag))
       IN  /\ last' = d
           /\ selected' = IF d.outcome = "failed" THEN selected ELSE d.state
           /\ previous' = IF d.outcome \in {"target", "fallback"} THEN d.book ELSE previous
    /\ day' = on
    /\ decisions' = decisions + 1
    /\ UNCHANGED <<strategy, rules, current>>

\* The market fills everything, or the sales only; then the price of a code may double.
Moved(b, code) ==
    IF code \notin DOMAIN b THEN b
    ELSE [c \in DOMAIN b |->
            (b[c] * (IF c = code THEN 2 ELSE 1) * Unit) \div (Unit + b[code])]

Execute(code) ==
    /\ last.outcome \in {"target", "fallback"}
    /\ LET sold == Positive([c \in DOMAIN current |-> Min({current[c], Weight(last.book, c)})])
       IN  current' \in {Moved(last.book, code), Moved(sold, code)}
    /\ last' = NoDecision
    /\ UNCHANGED <<strategy, rules, day, selected, previous, decisions>>

PipelineNext ==
    \/ \E on \in Days : \E signals \in Signals(Eligible(on, on - Lag)) : Decide(on, signals)
    \/ \E code \in Codes \union {None} : Execute(code)

PipelineSpec == PipelineInit /\ [][PipelineNext]_pipelineVars

-----------------------------------------------------------------------------
Targeted == last.outcome = "target"

HardRules(b) ==
    /\ DOMAIN b \subseteq last.eligible
    /\ \A c \in DOMAIN b : b[c] <= rules.maxInstrument
    /\ Unit - Invested(b) \in rules.minCash .. rules.maxCash + Slack
    /\ rules.maxIndustry # None =>
        \A i \in {Industry[c] : c \in DOMAIN Industry} :
            GroupWeight(b, Industry, i) <= rules.maxIndustry
    /\ \A t \in DOMAIN rules.maxAsset : GroupWeight(b, AssetType, t) <= rules.maxAsset[t]

\* Every target the constraints return keeps the hard rules, also one that went only part
\* of the way from a portfolio that breaks them, and it turns over no more than the limit,
\* unless the report says so or a holding left the universe (ConstraintEngine.apply).
TargetsKeepRules ==
    Targeted =>
        /\ HardRules(last.book)
        /\ rules.maxTurnover # None =>
            \/ Turnover(last.book, last.held) <= 2 * (rules.maxTurnover + Slack)
            \/ last.overridden
            \/ ~ (DOMAIN last.held \subseteq last.eligible)

\* Without the soft rules, what a candidate invests is left in cash only as far as every
\* code it wants is at a cap (docs/architecture.md 10.4: what cannot be given goes to cash).
BudgetPlaced ==
    Targeted /\ rules.maxTurnover = None /\ rules.maxHoldings = None /\ rules.minTarget = 0 =>
        LET wanted == Scaled(rules, Positive(last.candidate))
            full == [c \in DOMAIN wanted |-> Weight(last.book, c)]
        IN  \/ Invested(last.book) >= Invested(wanted) - Slack
            \/ \A c \in DOMAIN wanted : Room(rules, full, c) <= Slack

\* A candidate that meets every rule is the target: every change has a recorded reason.
AdmissibleUnchanged ==
    Targeted /\ rules.maxTurnover = None /\ rules.maxHoldings = None
             /\ HardValid(rules, last.candidate)
             /\ (\A c \in DOMAIN last.candidate : last.candidate[c] >= rules.minTarget) =>
        \A c \in DOMAIN last.candidate :
            Weight(last.book, c) >= last.candidate[c] - Slack
=============================================================================
