SPECIFICATION Spec
CONSTANTS
    Processes = {p1, p2}
    Users = {u1, u2}
    Pseudonyms = {q1, q2}
    Jobs = {"event", "erase", "retention"}
    Nobody = Nobody
    Admin = Admin
    MaxAge = 1
    MaxRows = 4
    MaxTime = 3
SYMMETRY Interchangeable
INVARIANTS TypeOK VerifiedIsGenuine NoFalseAlarm
PROPERTY ImplementsLog
CHECK_DEADLOCK FALSE
