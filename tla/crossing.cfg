SPECIFICATION Spec
CONSTANTS
    NumStrategies = 3
    NumInstruments = 1
    NumDays = 3
    Timing = "next_open"
    InitialCash <- CrossingCash
    Bootstrap = {1, 2, 3}
    Schedule <- CrossingSchedule
    Targets <- CrossingTargets
    WeightUnit = 2
    OpenPrice <- FlatEight
    ClosePrice <- FlatEight
    LotSize <- OneLot
    SellDelay <- NextDay
    Slippage = {0}
    MinCommission = 5
    CommissionPer = 4
    SellTaxPer = 8
    BuyTaxPer = 8
    Actions <- NoActions
    DelistDay <- NeverDelisted
    DelistingPolicy = "carry_last_mark"
    RecoveryNum = 1
    RecoveryDen = 1
INVARIANTS
    TypeOK
    PositionsReconcile
    NoBookingFailure
