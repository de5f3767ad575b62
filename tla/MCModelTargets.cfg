SPECIFICATION ModelSpec
CONSTANTS
    client = client
    course = course
    meta = meta
    f1 = f1
    v1 = v1
    v2 = v2
    c1 = c1
    c2 = c2
    c3 = c3
    Connection = {c1, c2}
    Table = {client, course}
    ClientTable = client
    MetaTable = meta
    Field = {f1}
    Value = {v1, v2}
    Blank <- MCBlank
    Queries <- MCFiltered
    ClientsWait = TRUE
    Passwords = {"right"}
    MaxPendingReloads = 1
    UserActions = {"setTarget", "connect", "disconnect"}
    ChangesLimit = 100
    AutoIncrement = FALSE
    MaxId = 2
    MaxRevision = 4
    Commands = {}
    MaxRequests = 3
    Faults = {}
CHECK_DEADLOCK FALSE
INVARIANTS
    NothingMissing
    OneSubscriptionLeft
