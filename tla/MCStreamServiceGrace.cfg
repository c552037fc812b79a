SPECIFICATION Spec
CONSTANTS
    Name <- MCName
    Segments <- MCSegments
    Second = 2
    Client = {c1}
    Subscriber = {s1}
    MaxTime = 8
PROPERTY
    PreviousPlaylistServed
CHECK_DEADLOCK FALSE
