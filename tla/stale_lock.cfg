SPECIFICATION Spec
CONSTANTS
    Procs = {"p", "q", "r"}
    Source <- AllNew
    Policy <- AllCompute
    Factors = {"base"}
    Upstream <- NoUpstream
    Lookback <- NoLookback
    NumDays = 2
    Requests <- OneRequest
    Leftover = {}
    Slow = {}
    MaxRequests = 1
    MaxCrashes = 1
    NoFactor = NoFactor
    NoKey = NoKey
    NoFile = NoFile
INVARIANT OneProducer
CHECK_DEADLOCK FALSE
