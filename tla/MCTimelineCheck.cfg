SPECIFICATION StartSpec
CONSTANTS
    Name = {"a.ts", "gone.ts", "../a.ts"}
    ValidName = {"a.ts", "gone.ts"}
    Values <- MCValues
    Fractions = 10
    Files = {"a.ts"}
    MaxLines = 8
    Second = 2
    Epoch = 1
    MaxTime = 12
    MaxStep = 5
INVARIANTS
    WholeManifestOrNothing
    ReadySegmentsMakeATimeline
    WindowOnAir
PROPERTY
    DiscontinuitySequenceCountsTags
CHECK_DEADLOCK FALSE
