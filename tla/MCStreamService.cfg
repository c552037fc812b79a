SPECIFICATION Spec
CONSTANTS
    Name <- MCName
    Segments <- MCSegments
    Second = 2
    Client = {c1}
    Subscriber = {s1}
    MaxTime = 12
INVARIANTS
    GraceServed
    CacheBounded
    PrefetchShieldsTick
    StallMeansTwoMissedTicks
PROPERTIES
    EveryTickAdvances
    ImplementsLivePlaylist
CHECK_DEADLOCK FALSE
