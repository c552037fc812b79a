SPECIFICATION FairSpec
CONSTANT
    Connection = {c1, c2, c3}
INVARIANTS
    FirstWindowReachesHub
    SuccessOnlyOnSignal
PROPERTIES
    ReadersDoNotNeedTheGrace
    SignalEnds
    FailureEnds
