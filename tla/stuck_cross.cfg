SPECIFICATION FairSpec
CONSTANTS
    NumStrategies = 3
    NumInstruments = 2
    NumDays = 2
    Timing = "next_open"
    InitialCash <- StuckCash
    Bootstrap = {1, 2, 3}
    Schedule <- StuckSchedule
    Targets <- StuckTargets
    WeightUnit = 1
    OpenPrice <- FlatFours
    ClosePrice <- FlatFours
    LotSize <- TwoLotsEach
    SellDelay <- Mixed
    Slippage = {0}
    MinCommission = 5
    CommissionPer = 100
    SellTaxPer = 100
    BuyTaxPer = 100
    Actions <- NoActions
    DelistDay <- NeverDelisted
    DelistingPolicy = "carry_last_mark"
    RecoveryNum = 1
    RecoveryDen = 1
PROPERTIES
    Termination
