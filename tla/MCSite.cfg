SPECIFICATION FairSpec
CONSTANTS
    Tab = {t1, t2}
    MaxTokens = 1
INVARIANTS
    LoggedOutStaysOut
PROPERTIES
    NavigationsEnd
    EndedSessionLeavesPlayer
CHECK_DEADLOCK FALSE
