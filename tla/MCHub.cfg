SPECIFICATION FairSpec
CONSTANTS
    Tab = {t1, t2}
    ClientBuffer = 2
    MaxSequence = 1
INVARIANTS
    NoSendOnClosed
    ViewersAreConnections
    CountChangesAnnounced
PROPERTIES
    ImplementsWindowFeed
    ReloadsOnlyAfterRestart
    ShutdownEndsConnections
CHECK_DEADLOCK FALSE
