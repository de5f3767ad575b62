--------------------------- MODULE DatabaseEngine ---------------------------
(***************************************************************************)
(* The storage engine of the server (server/DatabaseEngine.cpp): tables of *)
(* records that are never removed but marked _deleted_, and the `change`   *)
(* table, in which every create, update and delete leaves one row whose id *)
(* is the global revision.  The list of connected clients is the exception *)
(* that the constructor wipes every time the server starts.                *)
(*                                                                         *)
(* Each operation is one transaction of a single-threaded program, so it   *)
(* is one action; an operation that throws is rolled back and changes      *)
(* nothing.  The constructor's two DELETEs are separate transactions, so   *)
(* the process may die between them.                                       *)
(***************************************************************************)
EXTENDS Integers, FiniteSetsExt

CONSTANTS
    Table,          \* tables that hold records
    ClientTable,    \* the table of connected clients
    MetaTable,      \* the table whose row 1 is written with the schema
    Field,          \* fields of a record
    Value,          \* values of a field
    Blank,          \* the values of a row that does not exist
    ChangesLimit,   \* LIMIT of the query in changes(): 100 in the code
    AutoIncrement,  \* external: ids of physically removed rows are not reused
    MaxId,          \* bound: ids of one table
    MaxRevision     \* bound: revisions

ASSUME TableAssumption == ClientTable \in Table /\ ClientTable # MetaTable
ASSUME ValueAssumption == Blank \in [Field -> Value]
ASSUME BoundAssumption == /\ MaxId \in Nat \ {0}
                          /\ MaxRevision \in Nat
                          /\ ChangesLimit \in Nat
ASSUME AutoIncrementAssumption == AutoIncrement \in BOOLEAN

Id == 1..MaxId
Revision == 1..MaxRevision
Key == Table \X Id

VARIABLES
    row,            \* row[<<table, id>>]: is it there, marked, its fields
    change,         \* the rows of the change table
    lastId,         \* per table: the id the next INSERT counts from
    lastRevision,   \* the same for the change table
    phase           \* "down", "purging" (half-way through the constructor), "up"

vars == <<row, change, lastId, lastRevision, phase>>

Row == [status : {"absent", "live", "deleted"}, values : [Field -> Value]]
Absent == [status |-> "absent", values |-> Blank]

ChangeType == {"Create", "Update", "Delete"}
Change == [revision : Revision, type : ChangeType, key : Key,
           fields : SUBSET Field]

Seed == {k \in Key : k[1] = MetaTable /\ k[2] = 1}
ClientKey == {k \in Key : k[1] = ClientTable}

\* The values a record sent to update() may carry: some of the fields.
Partial == UNION {[F -> Value] : F \in (SUBSET Field) \ {{}}}

Newest(log) == Max({0} \cup {c.revision : c \in log})
ChangesOf(k) == {c \in change : c.key = k}

-----------------------------------------------------------------------------
(* Reading. *)

\* A query: a table, the ids and, per field, the values its filters accept.
\* The six comparison operators of a filter all denote such a set.
TableQuery == [table : Table, ids : {Id} \cup {{i} : i \in Id},
               accepts : [Field -> SUBSET Value]]

Selects(q, k, values) ==
    /\ k[1] = q.table
    /\ k[2] \in q.ids
    /\ \A f \in Field : values[f] \in q.accepts[f]

\* A record as find() returns it, with the newest revision of its changes.
Found(k) == [key |-> k, values |-> row[k].values,
             latestRevision |-> Newest(ChangesOf(k))]

Find(q) ==
    {Found(k) : k \in {j \in Key : /\ row[j].status = "live"
                                   /\ Selects(q, j, row[j].values)}}

\* The changes after `from' in the query's table.  Of the query's filters only
\* those on the id count.
LogSince(q, from) ==
    {c \in change : /\ c.revision > from
                    /\ c.key[1] = q.table
                    /\ c.key[2] \in q.ids}

\* Mutant of ChangesSince: one revision too far.
ChangesSinceNext(q, from) == LogSince(q, from + 1)

\* The answer to changes(): the oldest ChangesLimit of them, each with its
\* record as it is now, marked or not.
ChangesSince(q, from) ==
    {c \in LogSince(q, from) :
        Cardinality({d \in LogSince(q, from) : d.revision < c.revision})
            < ChangesLimit}

Changes(q, from) ==
    {[revision |-> c.revision, type |-> c.type, fields |-> c.fields,
      record |-> Found(c.key)] : c \in ChangesSince(q, from)}

-----------------------------------------------------------------------------
(* Writing. *)

Init ==
    /\ row = [k \in Key |-> IF k \in Seed
                            THEN [status |-> "live", values |-> Blank]
                            ELSE Absent]
    /\ change = {}
    /\ lastId = [t \in Table |-> IF t = MetaTable THEN 1 ELSE 0]
    /\ lastRevision = 0
    /\ phase = "down"

\* Mutant of InsertChange: revisions count the changes there are.
InsertCountedChange(type, k, fields) ==
    /\ lastRevision < MaxRevision
    /\ lastRevision' = lastRevision + 1
    /\ change' = change \cup {[revision |-> Cardinality(change) + 1,
                               type |-> type, key |-> k, fields |-> fields]}

\* insertChange() up to the callback: one row more in the change table.
InsertChange(type, k, fields) ==
    /\ lastRevision < MaxRevision
    /\ lastRevision' = lastRevision + 1
    /\ change' = change \cup {[revision |-> lastRevision + 1, type |-> type,
                               key |-> k, fields |-> fields]}

\* Mutant of NewKey: the id of the row inserted before.
LastKey(t) == <<t, lastId[t]>>

NewKey(t) == <<t, lastId[t] + 1>>

\* The fields of k once an UPDATE has set those of `values'.
Merged(k, values) ==
    [f \in Field |-> IF f \in DOMAIN values THEN values[f] ELSE row[k].values[f]]

Create(t, values) ==
    /\ phase = "up"
    /\ lastId[t] < MaxId
    /\ row' = [row EXCEPT ![NewKey(t)] = [status |-> "live", values |-> values]]
    /\ lastId' = [lastId EXCEPT ![t] = lastId[t] + 1]
    /\ InsertChange("Create", NewKey(t), {})
    /\ UNCHANGED phase

\* Mutant of Update: without `AND _deleted_ = 0'.
UpdateMarked(k, values) ==
    /\ phase = "up"
    /\ row[k].status # "absent"
    /\ row' = [row EXCEPT ![k].values = Merged(k, values)]
    /\ InsertChange("Update", k, DOMAIN values)
    /\ UNCHANGED <<lastId, phase>>

\* An update of a row that is marked or missing is rolled back: the UPDATE
\* touches no row and insertChange() cannot complete the record.
Update(k, values) ==
    /\ phase = "up"
    /\ row[k].status = "live"
    /\ row' = [row EXCEPT ![k].values = Merged(k, values)]
    /\ InsertChange("Update", k, DOMAIN values)
    /\ UNCHANGED <<lastId, phase>>

\* Mutant of Delete: the record is completed even if it is marked.
DeleteMarked(k) ==
    /\ phase = "up"
    /\ row[k].status # "absent"
    /\ row' = [row EXCEPT ![k].status = "deleted"]
    /\ InsertChange("Delete", k, {})
    /\ UNCHANGED <<lastId, phase>>

\* complete() throws for a row that is marked or missing.
Delete(k) ==
    /\ phase = "up"
    /\ row[k].status = "live"
    /\ row' = [row EXCEPT ![k].status = "deleted"]
    /\ InsertChange("Delete", k, {})
    /\ UNCHANGED <<lastId, phase>>

\* The process ends or dies; what is not committed is lost.
Stop ==
    /\ phase # "down"
    /\ phase' = "down"
    /\ UNCHANGED <<row, change, lastId, lastRevision>>

\* The constructor, first DELETE: the clients of the previous run.
PurgeClients ==
    /\ phase = "down"
    /\ phase' = "purging"
    /\ row' = [k \in Key |-> IF k \in ClientKey THEN Absent ELSE row[k]]
    /\ lastId' = IF AutoIncrement THEN lastId
                                  ELSE [lastId EXCEPT ![ClientTable] = 0]
    /\ UNCHANGED <<change, lastRevision>>

\* Mutant of PurgeClientChanges: the constructor has no second DELETE.
KeepClientChanges ==
    /\ phase = "purging"
    /\ phase' = "up"
    /\ UNCHANGED <<row, change, lastId, lastRevision>>

\* The constructor, second DELETE: their changes.
PurgeClientChanges ==
    /\ phase = "purging"
    /\ phase' = "up"
    /\ change' = {c \in change : c.key \notin ClientKey}
    /\ lastRevision' = IF AutoIncrement THEN lastRevision ELSE Newest(change')
    /\ UNCHANGED <<row, lastId>>

Next ==
    \/ \E t \in Table, values \in [Field -> Value] : Create(t, values)
    \/ \E k \in Key, values \in Partial : Update(k, values)
    \/ \E k \in Key : Delete(k)
    \/ Stop
    \/ PurgeClients
    \/ PurgeClientChanges

Spec == Init /\ [][Next]_vars

\* What each operation hands to the change callback, before it commits.  A
\* Delete carries the record as it was completed before it was marked.
Announced(type, fields, record) ==
    [revision |-> lastRevision + 1, type |-> type, fields |-> fields,
     record |-> record]

CreateChange(t, values) ==
    Announced("Create", {},
              [key |-> NewKey(t), values |-> values,
               latestRevision |-> lastRevision + 1])

UpdateChange(k, values) ==
    Announced("Update", DOMAIN values,
              [key |-> k, values |-> Merged(k, values),
               latestRevision |-> lastRevision + 1])

DeleteChange(k) == Announced("Delete", {}, Found(k))

-----------------------------------------------------------------------------
(* Properties. *)

\* Every variable stays within its type (DatabaseMigration.cpp:35-36, the
\* columns of the record tables and of `change').
TypeOK ==
    /\ row \in [Key -> Row]
    /\ change \subseteq Change
    /\ lastId \in [Table -> 0..MaxId]
    /\ lastRevision \in 0..MaxRevision
    /\ phase \in {"down", "purging", "up"}

\* The keys whose rows and changes are meant to agree: those of Client only
\* while the server runs, since the constructor wipes the two one by one.
Settled == IF phase = "up" THEN Key ELSE Key \ ClientKey

\* What the changes of record k say is what became of it.
Told(k) ==
    /\ row[k].status = "absent" => ChangesOf(k) = {}
    /\ row[k].status = "live" => \A c \in ChangesOf(k) : c.type # "Delete"
    /\ row[k].status = "deleted" =>
           \E c \in ChangesOf(k) :
               /\ c.type = "Delete"
               /\ \A d \in ChangesOf(k) : d.revision <= c.revision
    /\ row[k].status # "absent" /\ k \notin Seed =>
           \E c \in ChangesOf(k) :
               \A d \in ChangesOf(k) :
                   /\ c.revision <= d.revision
                   /\ d.type = "Create" <=> d = c

\* The change table tells what became of every record: no change names a row
\* that is not there (so the read() inside changes() cannot throw), a live row
\* has no Delete, a marked row has one and it is its newest change, and apart
\* from the row written with the schema a row's oldest change is its Create.
LogTellsRows == \A k \in Settled : Told(k)

\* A deleted record stays deleted and keeps the values it was deleted with,
\* however late an update or a second delete arrives; only the wipe of the
\* client list removes it.
TombstonesAreFinal ==
    [][\A k \in Key :
           row[k].status = "deleted" =>
               \/ row'[k] = row[k]
               \/ k \in ClientKey /\ row'[k] = Absent]_vars

\* The change table only grows, and at its end: an operation adds one change
\* later than every change there, and a change disappears only with the wipe
\* of the client list.  Subscribers rely on it: nothing appears behind a
\* revision they have already seen.
LogGrowsAtTheEnd ==
    [][/\ \A c \in change \ change' : c.key \in ClientKey /\ phase # "up"
       /\ \A c \in change' \ change :
              /\ \A d \in change : d.revision < c.revision
              /\ change' = change \cup {c}]_vars

\* The life of a record as the change table alone tells it.
LifeOf(k) ==
    IF \E c \in ChangesOf(k) : c.type = "Delete" THEN "deleted"
    ELSE IF k \in Seed \/ ChangesOf(k) # {} THEN "live"
    ELSE "absent"

\* The engine implements RecordLifecycle, with the life and the version of a
\* record read from the change table: what a client that sees only changes
\* concludes about a record is a proper life, through restarts and reused ids.
Lifecycle == INSTANCE RecordLifecycle WITH
    Volatile <- ClientKey,
    life <- [k \in Key |-> LifeOf(k)],
    version <- [k \in Key |-> Newest(ChangesOf(k))]
LifecycleSpec == Lifecycle!Spec
=============================================================================
