SPECIFICATION FairSpec
CONSTANTS
    Name <- MCName
    Segments <- MCSegments
    Second = 2
    Client = {}
    Subscriber = {}
    MaxTime = 12
PROPERTIES
    Recovers
    CancelStops
CHECK_DEADLOCK FALSE
