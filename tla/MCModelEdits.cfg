SPECIFICATION ModelSpec
CONSTANTS
    client = client
    course = course
    meta = meta
    f1 = f1
    v1 = v1
    v2 = v2
    c1 = c1
    c2 = c2
    c3 = c3
    Connection = {c1}
    Table = {client, course}
    ClientTable = client
    MetaTable = meta
    Field = {f1}
    Value = {v1, v2}
    Blank <- MCBlank
    Queries <- MCAll
    ClientsWait = TRUE
    Passwords = {"right"}
    MaxPendingReloads = 0
    UserActions = {"reload", "setData", "remove", "add"}
    ChangesLimit = 100
    AutoIncrement = FALSE
    MaxId = 3
    MaxRevision = 5
    Commands = {}
    MaxRequests = 3
    Faults = {}
CHECK_DEADLOCK FALSE
INVARIANTS
    ModelTypeOK
    NothingForeign
PROPERTIES
    RowsNeverGoBack
