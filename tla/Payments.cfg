SPECIFICATION Spec
CONSTANTS
    Customers = {c1, c2}
    Jobs = {job1}
    Keys = {k1, k2}
    Amounts = {1, 2}
    GtxIds = {g1, g2}
    EventIds = {e1}
    Requests = {r1, r2}
    AuthResults = {"AUTHORIZED", "PENDING"}
    MaxRefunded = 2
    MaxCaptures = 1
SYMMETRY Symmetry
CHECK_DEADLOCK FALSE
INVARIANTS
    TypeOK
    PaymentAtGateway
    ConfirmedJobIsPaid
    StatusFollowsGateway
    RefundsWereMade
PROPERTY PaymentIsSettledForward
