SPECIFICATION FairSpec
CONSTANTS
    m1 = m1
    m2 = m2
    Models = {m1, m2}
    FailureThreshold = 2
    SuccessThreshold = 2
    MaxTracked = 2
    Requests = {r1, r2}
    Routes <- OneWay
    MaxAttempts = 2
    SendErrors = {"disconnected"}
    MayCancel = FALSE
INVARIANTS
    TypeOK
    ProbeHasOwner
PROPERTY FallbackSettles
