SPECIFICATION Spec
CONSTANTS
    NumStrategies = 2
    NumInstruments = 2
    NumDays = 5
    Timing = "same_close"
    InitialCash <- LifecycleCash
    Bootstrap = {}
    Schedule <- LifecycleSchedule
    Targets <- LifecycleTargets
    WeightUnit = 1
    OpenPrice <- LifecyclePrices
    ClosePrice <- LifecyclePrices
    LotSize <- OneAndTwo
    SellDelay <- Mixed
    Slippage = {0}
    MinCommission = 1
    CommissionPer = 100
    SellTaxPer = 100
    BuyTaxPer = 100
    Actions <- LifecycleActions
    DelistDay <- DelistOnFourAndFive
    DelistingPolicy = "cash_settle_last_close"
    RecoveryNum = 1
    RecoveryDen = 2
INVARIANT EntitlementsHonoured
