SPECIFICATION FairSpec
CONSTANTS
    Runs = {r1, r2}
    Requests = {q1}
    Killers = {k1}
    NoRun = NoRun
    MaxConcurrent = 1
    MaxDepth = 2
    MaxChildren = 2
    MaxAttempts = 2
    MaxTerminal = 1
    MaxEntries = 2
    BodyOutcomes = {"completed", "timed_out"}
    OrphanGrace = FALSE
    StoreMayFail = FALSE
    PersistMayFail = FALSE
    LateCancel = TRUE
    MaxCrashes = 1
CHECK_DEADLOCK FALSE
INVARIANT RegistryMatchesStore
PROPERTIES
    ImplementsLifecycle
    LaneSettles
