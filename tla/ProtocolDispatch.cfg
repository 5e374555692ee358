\* One issue: an assignment, the one posted in its place, a message of the system; one
\* error or crash, and a sweep that takes up one row at a time.
CONSTANTS
    m1 = m1
    m2 = m2
    m3 = m3
    able = able
    without = without
    paused = paused
    Messages = {m1, m2, m3}
    SystemMessages = {m3}
    NoMessage = NoMessage
    Agents = {able, without, paused}
    Unsupported = {without}
    NotInvokable = {paused}
    MaySkip = {able}
    Sweeps = {s1}
    Reroutes <- MCReroutes
    Effect <- MCEffect
    Plan <- MCPlan
    BatchSize = 1
    HasDependencies = TRUE
    MaxFaults = 1
SPECIFICATION DispatchSpec
INVARIANTS
    DispatchTypeOK
    NothingIsDropped
    OnceWithoutFaults
PROPERTIES
    NoDoubleWakeup
    SettledStaysSettled
    EventuallySettled
CHECK_DEADLOCK FALSE
