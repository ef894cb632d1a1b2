SPECIFICATION FairSpec
CONSTANTS
    Calls = {c1, c2, c3}
    Sessions = {s1, s2, s3}
    Locks = {o1, o2, o3}
    NoCall = NoCall
    NoSession = NoSession
    NoLock = NoLock
    MaxGlobal = 2
    MaxCached = 1
INVARIANTS
    TypeOK
    MutualExclusion
    IdleLocksBounded
PROPERTIES
    ImplementsTurns
    NoStarvation
