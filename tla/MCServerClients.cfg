SPECIFICATION ServerSpec
CONSTANTS
    client = client
    meta = meta
    f1 = f1
    v1 = v1
    c1 = c1
    c2 = c2
    c3 = c3
    Connection = {c1, c2, c3}
    Table = {client, meta}
    ClientTable = client
    MetaTable = meta
    Field = {f1}
    Value = {v1}
    Blank <- MCBlank
    Queries <- MCQueries
    ClientsWait = FALSE
    ChangesLimit = 100
    AutoIncrement = FALSE
    MaxId = 3
    MaxRevision = 8
    Commands = {"version", "changes"}
    MaxRequests = 1
    Faults = {}
SYMMETRY MCSymmetry
CHECK_DEADLOCK FALSE
INVARIANTS
    NoGhostClients
    LogIsNeverEmptyForClients
