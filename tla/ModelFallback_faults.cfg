SPECIFICATION Spec
CONSTANTS
    m1 = m1
    m2 = m2
    Models = {m1, m2}
    FailureThreshold = 2
    SuccessThreshold = 2
    MaxTracked = 1
    Requests = {r1, r2}
    Routes <- BothWays
    MaxAttempts = 2
    SendErrors = {"disconnected", "other"}
    MayCancel = TRUE
PROPERTY OpenClosesByProbing
