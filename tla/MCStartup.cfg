SPECIFICATION StartupSpec
CONSTANTS
    client = client
    meta = meta
    f1 = f1
    v1 = v1
    v2 = v2
    Table = {client, meta}
    ClientTable = client
    MetaTable = meta
    Field = {f1}
    Value = {v1, v2}
    Blank <- MCBlank
    ChangesLimit = 100
    AutoIncrement = FALSE
    SchemaSize = 3
    MaxId = 2
    MaxRevision = 5
INVARIANTS
    TypeOK
    LogTellsRows
    ServesCompleteSchema
    CreationIsAllOrNothing
PROPERTIES
    TombstonesAreFinal
    LogGrowsAtTheEnd
    LifecycleSpec
CHECK_DEADLOCK FALSE
