SPECIFICATION Spec
CONSTANTS
    Token = {t1}
    NoToken = NoToken
    Request = {r1, r2}
    SessionTTL = 3
    CacheTTL = 1
    MaxEntries = 1
    Skews <- MCNoSkew
    MaxTime = 3
INVARIANT
    LogoutInvalidatesCache
CHECK_DEADLOCK FALSE
