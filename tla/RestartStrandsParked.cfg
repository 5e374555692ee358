\* A restart between a cancellation and its release strands a parked wakeup.
SPECIFICATION Spec
CONSTANTS
    a1 = a1
    a2 = a2
    i1 = i1
    Agents = {a1, a2}
    Issues = {i1}
    NoAgent = NoAgent
    NoIssue = NoIssue
    MaxConcurrentRuns = 1
    DispatchRetryLimit = 0
    OutsideScopes = {}
    MaxRuns = 2
    MaxUpsets = 1
    MaxCrashes = 1
PROPERTIES
    ParkedSurvivesRestart
CHECK_DEADLOCK FALSE
