SPECIFICATION Spec
CONSTANTS
    Runs = {r1, r2, r3}
    Requests = {q1}
    Killers = {}
    NoRun = NoRun
    MaxConcurrent = 1
    MaxDepth = 1
    MaxChildren = 2
    MaxAttempts = 1
    MaxTerminal = 1
    MaxEntries = 2
    BodyOutcomes = {"completed", "timed_out"}
    OrphanGrace = TRUE
    StoreMayFail = TRUE
    PersistMayFail = TRUE
    LateCancel = TRUE
    MaxCrashes = 1
CHECK_DEADLOCK FALSE
INVARIANT FamilyLimits
