\* A promoted run that waits for a slot is declared lost.
SPECIFICATION Spec
CONSTANTS
    a1 = a1
    a2 = a2
    i1 = i1
    Agents = {a1, a2}
    Issues = {i1}
    NoAgent = NoAgent
    NoIssue = NoIssue
    MaxConcurrentRuns = 1
    DispatchRetryLimit = 2
    OutsideScopes = {NoIssue}
    MaxRuns = 4
    MaxUpsets = 0
    MaxCrashes = 0
SYMMETRY AgentSymmetry
INVARIANTS
    LostOnlyByRestart
CHECK_DEADLOCK FALSE
