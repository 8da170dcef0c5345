SPECIFICATION FairExportSpec
CONSTANTS
    Processes = {p1, p2}
    Users = {u1}
    Pseudonyms = {q1}
    Jobs = {"event", "retention"}
    Nobody = Nobody
    Admin = Admin
    MaxAge = 2
    MaxRows = 3
    MaxTime = 5
    Periods = {1, 2}
    Day = 1
    Limit = 2
INVARIANT ExportComplete
PROPERTY LockGranted
CHECK_DEADLOCK FALSE
