\* Checkouts beside the heartbeat, with stale writes; two runs, in and beside the lock.
SPECIFICATION CheckoutSpec
CONSTANTS
    a1 = a1
    a2 = a2
    i1 = i1
    Agents = {a1, a2}
    Issues = {i1}
    NoAgent = NoAgent
    NoIssue = NoIssue
    Kept = Kept
    MaxConcurrentRuns = 1
    DispatchRetryLimit = 0
    OutsideScopes = {i1, NoIssue}
    MaxRuns = 2
    MaxUpsets = 0
    MaxCrashes = 0
    MaxEdits = 1
SYMMETRY AgentSymmetry
INVARIANTS
    CheckoutTypeOK
    LiveCheckoutHoldsLock
PROPERTIES
    CheckoutNeverStolen
CHECK_DEADLOCK FALSE
