SPECIFICATION ModelSpec
CONSTANTS
    client = client
    course = course
    meta = meta
    f1 = f1
    v1 = v1
    v2 = v2
    c1 = c1
    c2 = c2
    c3 = c3
    Connection = {c1, c2}
    Table = {client, course}
    ClientTable = client
    MetaTable = meta
    Field = {f1}
    Value = {v1}
    Blank <- MCBlank
    Queries <- MCAll
    ClientsWait = TRUE
    Passwords = {"right", "wrong"}
    MaxPendingReloads = 0
    UserActions = {"connect", "disconnect"}
    ChangesLimit = 100
    AutoIncrement = FALSE
    MaxId = 2
    MaxRevision = 5
    Commands = {}
    MaxRequests = 1
    Faults = {"lost", "unreachable"}
CHECK_DEADLOCK FALSE
INVARIANTS
    RefusalMeansConnected
