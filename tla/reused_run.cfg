SPECIFICATION MCSpec
CONSTANTS
    None = None
    RunIds = {"b1", "b2", "s1", "s2"}
    TrialKeys = {"k1", "k2", "k3"}
    Runners = {p1, p2}
    Requests <- MCRequestsOfCash
    Files = 2
    Calls = 3
    Controllers = {c1}
    Searches <- MCSearches
    Objective <- MCObjective
    Feasible <- MCFeasible
    Retries = 1
    Pooled = {"s2"}
    Launches = 3
    Topics = {"runs"}
INVARIANTS ReturnedAnswersRequest
CHECK_DEADLOCK FALSE
