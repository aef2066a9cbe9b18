CONSTANTS
    Calls = {c1, c2}
    MaxTokens = 2
    None = None
    MaxKills = 1
SPECIFICATION Spec
CHECK_DEADLOCK FALSE
INVARIANTS
    TypeOK
    ReuseIsExplained
    LogoutHolds
    StoredSessionIsOne
PROPERTIES
    RetryIsFresh
    CallsEnd
