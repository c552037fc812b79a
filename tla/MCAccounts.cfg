SPECIFICATION FairSpec
CONSTANTS
    Request = {r1, r2, r3}
    Email = {"Ana", "ana"}
    Normal <- MCNormal
    Lower <- MCLower
    Password = {"short", "dummy", "other"}
    Dummy = "dummy"
    NoPassword = "none"
    Acceptable <- MCAcceptable
    Sent <- MCSent
    Slots = 1
INVARIANTS
    WelcomeMeansAccount
    RefusedForCause
    RegistrationStands
    BcryptBounded
PROPERTY
    WaitEnds
