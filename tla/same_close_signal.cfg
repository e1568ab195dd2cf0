SPECIFICATION MCSpec
CONSTANTS
    None = None
    Unit = 5040
    Slack = 6
    Industry <- MCIndustry
    AssetType <- MCAssetType
    Days = {1, 2, 3}
    Lag = 0
    World <- MCWorld
    Universe <- MCUniverse
    Strategies <- MCStrategies
    RuleSets <- MCRuleSets
    Scores = {1, 2}
    Decisions = 2
    Topics = {"training"}
    Sessions = 5
    Names = {x, y}
    Lots = 2
    Delay = 1
    Cash = 4
    TopK = 2
    Exits = {1, 2, 3}
    Kinds = {"guide", "ema20"}
    Timings = {"next_open", "next_close", "same_close"}
    LastSession = 9
    Traded <- MCTraded
    Instruments = {"i", "j"}
    Year <- MCYear
    TrainYears = 2
    Plans <- MCPanelPlans
    Launches = 2
    Executions = {"same_close"}
    NumStrategies = 3
    MaxQuantity = 4
    Lot = 2
INVARIANT SignalsByCutoff
SYMMETRY MCSymmetry
CHECK_DEADLOCK FALSE
