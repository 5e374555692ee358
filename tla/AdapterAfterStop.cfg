\* An adapter starts for a run already cancelled.
SPECIFICATION Spec
CONSTANTS
    a1 = a1
    a2 = a2
    i1 = i1
    Agents = {a1, a2}
    Issues = {i1}
    NoAgent = NoAgent
    NoIssue = NoIssue
    MaxConcurrentRuns = 1
    DispatchRetryLimit = 2
    OutsideScopes = {}
    MaxRuns = 2
    MaxUpsets = 1
    MaxCrashes = 0
SYMMETRY AgentSymmetry
PROPERTIES
    NoAdapterForFinishedRun
CHECK_DEADLOCK FALSE
