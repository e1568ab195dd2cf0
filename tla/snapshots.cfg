SPECIFICATION MCSpec
CONSTANTS
    None = None
    TradeDays <- MCTradeDays
    PeriodEnd <- MCPeriodEnd
    Publishers = {p1, p2}
    Datasets = {d1}
    Deliveries <- MCDeliveries
    TableNames = {"prices", "reference"}
    Attempts = 2
    PullDays <- MCPullDays
    Pulls <- MCPulls
    MaxRetries = 1
    PageSize = 3
    MaxRows = 4
    Procs = {"p", "q", "reader"}
    Source <- NewAndOld
    Policy <- ReaderRequires
    Factors <- BaseAndTop
    Upstream <- TopUpstream
    Lookback <- TopLookback
    NumDays = 3
    Requests <- TopRequests
    Leftover <- OldEntry
    MaxRequests = 1
    Slow = {}
    MaxCrashes = 1
    NoFactor = NoFactor
    NoKey = NoKey
    NoFile = NoFile
INVARIANTS NoLookAhead PanelsAgree BuiltIsValid TrailingYearsAddUp MembershipReadsBack PullComplete
    PublishedIntact
PROPERTIES PublishedForGood RequestsEnd
CHECK_DEADLOCK FALSE
