SPECIFICATION MCSpec
CONSTANTS
    Chunks = {"a", "b"}
    NumTables = 2
    Policies = {"repair", "drop"}
    Workers = 2
    MaxRetries = 2
    Restarts = {"resume"}
    Overlap = FALSE
    MaxLaunches = 3
    MaxCrashes = 2
    MaxLosses = 1
    NoTable = NoTable
    None = None
    Exchanges = {1}
    Open <- MCOpen
    StartDate = 1
    EndDate = 5
    DaysPerMonth = 3
    Tolerance = 3
    Topics = {"job", "market", "factor", "state", "type", "alias", "repair", "capital"}
INVARIANTS AcquiredIsComplete PublishedIsSound MembersAccounted FillsAreCausal FactorsCarried
    WindowsPartition ExtensionsSound
PROPERTIES LaunchEnds
CHECK_DEADLOCK FALSE
