SPECIFICATION Spec
CONSTANTS
    Runs = {r1, r2, r3}
    Requests = {q1}
    Killers = {k1}
    NoRun = NoRun
    MaxConcurrent = 2
    MaxDepth = 3
    MaxChildren = 2
    MaxAttempts = 1
    MaxTerminal = 1
    MaxEntries = 2
    BodyOutcomes = {"completed"}
    OrphanGrace = FALSE
    StoreMayFail = FALSE
    PersistMayFail = FALSE
    LateCancel = TRUE
    MaxCrashes = 0
CHECK_DEADLOCK FALSE
INVARIANTS
    TypeOK
    ParentRemembered
    RetentionSettled
PROPERTY KillFinishesWhatItSaw
