CONSTANTS
    Clients = {a}
    Conversations = {k}
    Texts <- SomeTexts
    MaxMessages = 3
    MaxRestarts = 0
SPECIFICATION Spec
INVARIANTS
    NumbersAreFlagged
