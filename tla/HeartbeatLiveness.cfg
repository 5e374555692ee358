\* A restart, a stop or a failed dispatch; two runs, and no symmetry for liveness.
SPECIFICATION Spec
CONSTANTS
    a1 = a1
    a2 = a2
    i1 = i1
    Agents = {a1, a2}
    Issues = {i1}
    NoAgent = NoAgent
    NoIssue = NoIssue
    MaxConcurrentRuns = 1
    DispatchRetryLimit = 1
    OutsideScopes = {}
    MaxRuns = 2
    MaxUpsets = 1
    MaxCrashes = 1
INVARIANTS
    TypeOK
    LockPathHolds
    NoLeakedLock
PROPERTIES
    FinishedStaysFinished
    ImplementsLock
    EveryRunFinishes
    ParkedIsServed
CHECK_DEADLOCK FALSE
