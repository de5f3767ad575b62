SPECIFICATION ServerSpec
CONSTANTS
    client = client
    meta = meta
    f1 = f1
    v1 = v1
    c1 = c1
    c2 = c2
    c3 = c3
    Connection = {c1, c2}
    Table = {client, meta}
    ClientTable = client
    MetaTable = meta
    Field = {f1}
    Value = {v1}
    Blank <- MCBlank
    Queries <- MCQueries
    ClientsWait = TRUE
    ChangesLimit = 2
    AutoIncrement = TRUE
    MaxId = 2
    MaxRevision = 8
    Commands = {"subscribe", "create", "delete", "read", "unsubscribe_query"}
    MaxRequests = 2
    Faults = {"db", "rollback"}
SYMMETRY MCSymmetry
CHECK_DEADLOCK FALSE
INVARIANTS
    ServerTypeOK
    FeedMissesNothing
    AcknowledgedIsCommitted
