\* A stale checkout takes the execution lock from the run that works under it.
SPECIFICATION CheckoutSpec
CONSTANTS
    a1 = a1
    a2 = a2
    i1 = i1
    Agents = {a1}
    Issues = {i1}
    NoAgent = NoAgent
    NoIssue = NoIssue
    Kept = Kept
    MaxConcurrentRuns = 1
    DispatchRetryLimit = 0
    OutsideScopes = {NoIssue}
    MaxRuns = 4
    MaxUpsets = 0
    MaxCrashes = 0
    MaxEdits = 0
INVARIANTS
    ExecutionIsExclusive
CHECK_DEADLOCK FALSE
