---------------------------- MODULE MCStrategies ----------------------------
(***************************************************************************)
(* What decides what a backtest trades: a pipeline and its constraints, a  *)
(* strategy of scheduled cohorts, the training of a model whose            *)
(* predictions become signals, or the loops that net and share the demands *)
(* of strategies.  They share no state.                                    *)
(***************************************************************************)
EXTENDS StrategyPipeline, Cohorts, ModelTraining, NettingLoop

CONSTANTS Topics    \* subset of {"pipeline", "cohorts", "training", "netting"}

VARIABLE topic

\* Nine sessions in three years; a listing on the second day, a suspension.
MCTraded == {1 .. 9, 2 .. 9, (1 .. 9) \ {5}}
MCYear == [d \in 1 .. 9 |-> (d + 2) \div 3]
MCPlan(entry, horizon, folds, embargo) ==
    [entry |-> entry, horizon |-> horizon, folds |-> folds, embargo |-> embargo,
     panel |-> FALSE, validation |-> 0]
MCPlans ==
    {MCPlan(0, 1, 3, 0), MCPlan(1, 1, 2, 1), MCPlan(0, 2, 2, 1),
     [MCPlan(1, 1, 1, 2) EXCEPT !.panel = TRUE, !.validation = 1]}

vars == <<topic, pipelineVars, cohortVars, trainingVars, loopVars>>

\* Three codes: two stocks of one industry, one of which is delisted, and a fund of the other.
MCIndustry == [c \in 1 .. 3 |-> IF c = 3 THEN "b" ELSE "a"]
MCAssetType == [c \in 1 .. 3 |-> IF c = 3 THEN "etf" ELSE "stock"]
MCMember == [from |-> 1, to |-> None, known |-> 1]
MCWorld ==
    [c \in 1 .. 3 |->
        [type |-> MCAssetType[c], listed |-> 0, delisted |-> IF c = 2 THEN 3 ELSE None,
         amounts |-> IF c = 3 THEN <<5, 0, 5>> ELSE <<5, 5, 5>>, members |-> {MCMember}]]
MCUniverse ==
    [types |-> {"stock", "etf"}, listedDays |-> 1, window |-> 1, minAmount |-> 3, index |-> TRUE]

MCStrategy(constructor, topK, invest) ==
    [constructor |-> constructor, topK |-> topK, buffer |-> 0, replace |-> 1,
     invest |-> invest, external |-> Empty, noCandidate |-> "hold_previous",
     infeasible |-> "cash"]
MCExternal == [c \in 1 .. 3 |-> IF c = 1 THEN 1260 ELSE IF c = 2 THEN 0 ELSE 2520]
MCStrategies ==
    {MCStrategy("topk", 2, 5040), [MCStrategy("dropout", 2, 4032) EXCEPT !.infeasible = "skip"],
     MCStrategy("positive", 3, 5040), [MCStrategy("rank", 3, 5040) EXCEPT !.noCandidate = "fail"],
     [MCStrategy("external", 1, 0) EXCEPT !.external = MCExternal, !.infeasible = "fail"],
     [MCStrategy("direct", 1, 0) EXCEPT !.external = MCExternal]}

MCRules ==
    [minCash |-> 0, maxCash |-> 5040, maxInstrument |-> 5040, maxIndustry |-> None,
     maxAsset |-> [t \in {} |-> 0], maxTurnover |-> None, minTarget |-> 0, maxHoldings |-> None]
MCRuleSets ==
    {MCRules,
     [MCRules EXCEPT !.maxIndustry = 2520, !.maxInstrument = 2016],
     [MCRules EXCEPT !.maxAsset = [t \in {"etf"} |-> 1008], !.minCash = 504, !.maxCash = 3024],
     [MCRules EXCEPT !.maxIndustry = 3024, !.maxTurnover = 1260],
     [MCRules EXCEPT !.maxHoldings = 1, !.minTarget = 600, !.maxInstrument = 3024]}

MCPanelPlans == {p \in MCPlans : p.panel}

MCEqualRules == {MCRules}
MCEqualStrategies == {MCStrategy("topk", 2, 5040), MCStrategy("topk", 3, 5040)}

MCSymmetry == Permutations(Names)

\* What a behaviour is not about keeps one initial state.
MCInit ==
    /\ topic \in Topics
    /\ topic # "pipeline" =>
        /\ strategy = CHOOSE s \in Strategies : TRUE
        /\ rules = CHOOSE r \in RuleSets : TRUE
    /\ topic # "cohorts" =>
        /\ kind = CHOOSE k \in Kinds : TRUE
        /\ timing = CHOOSE t \in Timings : TRUE
    /\ topic # "training" =>
        /\ plan = CHOOSE p \in Plans : TRUE
        /\ bars = CHOOSE b \in [Instruments -> Traded] : TRUE
    /\ topic # "netting" => buy = Nothing /\ sell = Nothing
    /\ PipelineInit /\ CohortsInit /\ TrainingInit /\ LoopInit
MCNext ==
    /\ UNCHANGED topic
    /\ \/ topic = "pipeline" /\ PipelineNext /\ UNCHANGED <<cohortVars, trainingVars, loopVars>>
       \/ topic = "cohorts" /\ CohortsNext /\ UNCHANGED <<pipelineVars, trainingVars, loopVars>>
       \/ topic = "training" /\ TrainingNext /\ UNCHANGED <<pipelineVars, cohortVars, loopVars>>
       \/ topic = "netting" /\ LoopNext /\ UNCHANGED <<pipelineVars, cohortVars, trainingVars>>
MCSpec == MCInit /\ [][MCNext]_vars
=============================================================================
