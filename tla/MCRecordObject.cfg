SPECIFICATION ObjectSpec
CONSTANTS
    client = client
    course = course
    meta = meta
    f1 = f1
    f2 = f2
    v1 = v1
    v2 = v2
    c1 = c1
    Connection = {c1}
    Table = {client, course}
    ClientTable = client
    MetaTable = meta
    Field = {f1}
    Value = {v1, v2}
    Blank <- MCBlank
    Queries <- MCQueries
    ClientsWait = TRUE
    Passwords = {"right"}
    MaxPendingReloads = 0
    ObjectTable = course
    UserActions = {"create", "setValues", "delete"}
    ChangesLimit = 100
    AutoIncrement = FALSE
    MaxId = 3
    MaxRevision = 5
    Commands = {}
    MaxRequests = 4
    Faults = {"db"}
CHECK_DEADLOCK FALSE
INVARIANTS
    ObjectCurrent
PROPERTIES
    ForgetsOnlyTheDead
    FuturesComplete
