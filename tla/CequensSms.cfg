SPECIFICATION Spec
CONSTANTS
    Sends = {s1, s2}
    MaxTokens = 3
    None = None
    TokenLife = 2
    Margin = 1
    Timeout = 1
    MaxTime = 3
CHECK_DEADLOCK FALSE
INVARIANTS
    TypeOK
    CacheIsSound
    ExpiryIsForeseen
PROPERTIES
    SendIsAnswered
    ImplementsDelivery
