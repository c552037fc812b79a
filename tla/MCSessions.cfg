SPECIFICATION Spec
CONSTANTS
    Token = {t1, t2}
    NoToken = NoToken
    Request = {r1, r2}
    SessionTTL = 3
    CacheTTL = 1
    MaxEntries = 1
    Skews <- MCSkews
    MaxTime = 3
SYMMETRY Interchangeable
INVARIANTS
    CacheWithinBound
    AcceptsOnlyLiveSessions
    RevocationWithinTTL
    RejectsOnlyForCause
CHECK_DEADLOCK FALSE
