SPECIFICATION FairSpec
CONSTANTS
    Replica = {r1, r2}
    Session = {s1, s2, s3}
    NoSession = NoSession
    Releases <- MCReleases
INVARIANTS
    AppliedOnce
    ServingIsMigrated
    AppliedInOrder
    OneMigrationAtATime
PROPERTIES
    LockIsFreed
