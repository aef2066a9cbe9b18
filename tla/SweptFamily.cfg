SPECIFICATION Spec
CONSTANTS
    Users = {u1, u2}
    TokenIds = {t1, t2, t3}
    Families = {f1, f2}
    Requests = {r1, r2}
    None = None
    TokenLife = 1
    MaxTime = 2
SYMMETRY Symmetry
CHECK_DEADLOCK FALSE
PROPERTY SweptFamilyStaysRevoked
