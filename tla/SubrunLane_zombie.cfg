SPECIFICATION Spec
CONSTANTS
    Runs = {r1, r2}
    Requests = {q1}
    Killers = {k1}
    NoRun = NoRun
    MaxConcurrent = 1
    MaxDepth = 2
    MaxChildren = 2
    MaxAttempts = 1
    MaxTerminal = 2
    MaxEntries = 2
    BodyOutcomes = {"completed"}
    OrphanGrace = FALSE
    StoreMayFail = FALSE
    PersistMayFail = FALSE
    LateCancel = FALSE
    MaxCrashes = 0
CHECK_DEADLOCK FALSE
PROPERTY KilledRunsEnd
