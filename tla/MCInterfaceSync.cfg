SPECIFICATION SyncSpec
CONSTANTS
    c1 = c1
    c2 = c2
    r1 = r1
    r2 = r2
    d1 = d1
    d2 = d2
    Nobody = Nobody
    Empty = Empty
    Client = {c1, c2}
    Record = {r1, r2}
    Datum = {d1, d2}
    Forms <- MCForms
    Edited <- MCEdited
    InTurns = TRUE
    MaxEdits = 3
INVARIANTS
    HeldIsValid
    WritesBelong
PROPERTIES
    EditorsSettle
CHECK_DEADLOCK FALSE
