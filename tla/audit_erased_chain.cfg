SPECIFICATION Spec
CONSTANTS
    Processes = {p1, p2}
    Users = {u1}
    Pseudonyms = {q1}
    Jobs = {"event", "erase"}
    Nobody = Nobody
    Admin = Admin
    MaxAge = 2
    MaxRows = 3
    MaxTime = 2
SYMMETRY Interchangeable
INVARIANT ErasureKeepsChain
CHECK_DEADLOCK FALSE
