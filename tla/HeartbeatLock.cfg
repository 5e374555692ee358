\* Two agents compete for one issue; three runs, two if one of them has no issue, and
\* three executors and stops at work at a time.
SPECIFICATION Spec
CONSTANTS
    a1 = a1
    a2 = a2
    i1 = i1
    Agents = {a1, a2}
    Issues = {i1}
    NoAgent = NoAgent
    NoIssue = NoIssue
    MaxConcurrentRuns = 1
    DispatchRetryLimit = 1
    OutsideScopes = {NoIssue}
    MaxRuns = 3
    MaxUpsets = 1
    MaxCrashes = 0
CONSTRAINTS OutsideWithinTwo ThreeAtWork
SYMMETRY AgentSymmetry
INVARIANTS
    OneLockPathRunPerIssue
    ParkedBehindHolder
    OnePlacePerAgent
    AgentStatusSettles
    SlotLimit
PROPERTIES
    LockLeavesFinishedRun
    ParkedIsServedOrRefused
    ParkedInOrder
CHECK_DEADLOCK FALSE
