SPECIFICATION Spec
CONSTANTS
    Phones = {p1, p2}
    NationalIds = {n1}
    Jtis = {j1, j2, j3}
    Requests = {r1, r2}
    None = None
    OtpEnabled = TRUE
    TokenLife = 1
    Lag = 1
    MaxTime = 2
    MaxSessions = 2
SYMMETRY Symmetry
CHECK_DEADLOCK FALSE
INVARIANTS
    TypeOK
    SpentTokenMadeAccount
    TechniciansHaveProfiles
PROPERTIES
    NoTakeover
    SuspendedGetsNoSession
