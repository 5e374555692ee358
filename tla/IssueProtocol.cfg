\* One issue between two agents, the project's lead and one that may also review and
\* test: two review cycles, one question open at a time.
CONSTANTS
    a1 = a1
    a2 = a2
    Agents = {a1, a2}
    NoAgent = NoAgent
    Makers = {a1, a2}
    Checkers = {a2}
    Lead = a1
    ResumeStates = {"none"}
    HasDependencies = TRUE
    MaxCycles = 2
    MaxQuestions = 1
SPECIFICATION ProtocolSpec
INVARIANTS
    ProtocolTypeOK
    OpenCycleIsCurrent
    EveryWaitIsWatched
PROPERTIES
    ReviewKeepsItsCycle
    DecidesOnLatestSubmission
    ImplementsReviewLifecycle
CHECK_DEADLOCK FALSE
