CONSTANTS
    Clients = {a, b}
    Conversations = {k}
    Texts <- SomeTexts
    MaxMessages = 3
    MaxRestarts = 1
SYMMETRY ClientSymmetry
SPECIFICATION Spec
INVARIANTS
    TypeOK
    NoticeIsLogged
    OnlyNoticesAreLate
PROPERTIES
    MissesAreIsolated
