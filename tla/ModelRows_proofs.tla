-------------------------- MODULE ModelRows_proofs --------------------------
(***************************************************************************)
(* Proofs about the rows of a record model: what it shows, compared with   *)
(* what the server has, for any number of connections and sessions, any    *)
(* targets, whatever the user and the other clients do.  First what is     *)
(* under way and how it is typed, then that no row goes back, then that    *)
(* the copy becomes complete and exact.                                    *)
(***************************************************************************)
EXTENDS ModelSubscription_proofs

-----------------------------------------------------------------------------
(* Records and changes under way. *)

\* The records of tables that are asked for.
Asked == {k \in Key : \E q \in Queries : k[1] = q.table}
Record == [key : Asked, values : [Field -> Value], latestRevision : 0..MaxRevision]

\* The records of one answer, and the changes of one message.
WholeRecords(records) ==
    records \subseteq Record /\ \A x, y \in records : x.key = y.key => x = y
WholeChanges(changes) ==
    /\ \A ch \in changes : ch.record \in Record /\ ch.revision \in 0..MaxRevision
    /\ \A x, y \in changes : x.revision = y.revision => x = y

\* Some changes have a last one.
LEMMA LatestIsLast ==
    ASSUME NEW S, S # {}, \A x \in S : x.revision \in 0..MaxRevision
    PROVE  Latest(S) \in S /\ \A d \in S : d.revision <= Latest(S).revision
<1> DEFINE R == {x.revision : x \in S}
<1>1. R \subseteq 0..MaxRevision /\ R # {}
  OBVIOUS
<1> HIDE DEF R
<1>2. PICK n \in R : \A y \in R : n >= y
  BY <1>1, BoundedSetHasMax, BoundAssumption
<1>3. PICK x \in S : x.revision = n
  BY <1>2 DEF R
<1>4. \A d \in S : d.revision \in R
  BY DEF R
<1>5. \A d \in S : d.revision <= x.revision
  BY <1>1, <1>2, <1>3, <1>4
<1> QED
  BY <1>3, <1>5 DEF Latest

\* A row that no change is about stays; the last change of any other decides.
LEMMA TriggeredMeans ==
    ASSUME NEW rs, NEW changes, WholeChanges(changes), NEW k
    PROVE  LET new == Triggered(rs, changes)
               last == Latest(About(changes, k))
           IN  IF About(changes, k) = {}
               THEN (k \in DOMAIN new <=> k \in DOMAIN rs)
                    /\ (k \in DOMAIN rs => new[k] = rs[k])
               ELSE /\ last \in changes /\ last.record.key = k
                    /\ k \in DOMAIN new <=> last.type # "Delete"
                    /\ k \in DOMAIN new => new[k] = last.record
<1> DEFINE told == {ch.record.key : ch \in changes}
           gone == {j \in told : Latest(About(changes, j)).type = "Delete"}
           last == Latest(About(changes, k))
<1>1. k \in told <=> About(changes, k) # {}
  BY DEF About
<1>2. About(changes, k) # {} => last \in About(changes, k)
  <2>1. \A x \in About(changes, k) : x.revision \in 0..MaxRevision
    BY DEF About, WholeChanges
  <2> QED
    BY <2>1, LatestIsLast
<1>3. /\ DOMAIN Triggered(rs, changes) = (DOMAIN rs \cup told) \ gone
      /\ k \in DOMAIN Triggered(rs, changes) =>
             Triggered(rs, changes)[k] = IF k \in told THEN last.record ELSE rs[k]
  BY DEF Triggered
<1>4. k \in gone <=> k \in told /\ last.type = "Delete"
  OBVIOUS
<1>5. last \in About(changes, k) => last \in changes /\ last.record.key = k
  BY DEF About
<1> HIDE DEF told, gone, last
<1>6. IF About(changes, k) = {}
      THEN (k \in DOMAIN Triggered(rs, changes) <=> k \in DOMAIN rs)
           /\ (k \in DOMAIN rs => Triggered(rs, changes)[k] = rs[k])
      ELSE /\ last \in changes /\ last.record.key = k
           /\ k \in DOMAIN Triggered(rs, changes) <=> last.type # "Delete"
           /\ k \in DOMAIN Triggered(rs, changes) =>
                  Triggered(rs, changes)[k] = last.record
  BY <1>1, <1>2, <1>3, <1>4, <1>5
<1> QED
  BY <1>6 DEF last

\* The rows of an answer to find are its records, each under its key.
LEMMA RowsAre ==
    ASSUME NEW records, WholeRecords(records)
    PROVE  /\ DOMAIN AsRows(records) = {r.key : r \in records}
           /\ \A r \in records : AsRows(records)[r.key] = r
           /\ \A k \in DOMAIN AsRows(records) :
                  AsRows(records)[k] \in records /\ AsRows(records)[k].key = k
<1>1. DOMAIN AsRows(records) = {r.key : r \in records}
  BY DEF AsRows
<1>2. ASSUME NEW r \in records PROVE AsRows(records)[r.key] = r
  <2>1. AsRows(records)[r.key] = CHOOSE x \in records : x.key = r.key
    BY DEF AsRows
  <2> QED
    BY <2>1 DEF WholeRecords
<1> QED
  BY <1>1, <1>2

\* The revision a subscription starts from is that of the newest record found.
LEMMA LatestRevisionIs ==
    ASSUME NEW records, WholeRecords(records)
    PROVE  /\ LatestRevision(records) \in 0..MaxRevision
           /\ \A r \in records : r.latestRevision <= LatestRevision(records)
           /\ \/ LatestRevision(records) = 0
              \/ \E r \in records : LatestRevision(records) = r.latestRevision
<1> DEFINE S == {0} \cup {r.latestRevision : r \in records}
<1>1. S \subseteq 0..MaxRevision /\ S # {}
  BY BoundAssumption DEF WholeRecords, Record
<1>2. \E x \in S : \A y \in S : x >= y
  BY <1>1, BoundedSetHasMax, BoundAssumption
<1>3. LatestRevision(records) \in S /\ \A y \in S : LatestRevision(records) >= y
  BY <1>2 DEF LatestRevision, Max
<1>4. \A r \in records : r.latestRevision \in S
  OBVIOUS
<1>5. LatestRevision(records) = 0 \/ \E r \in records : LatestRevision(records) = r.latestRevision
  BY <1>3
<1> HIDE DEF S
<1> QED
  BY <1>1, <1>3, <1>4, <1>5

\* What is read from the tables is whole.
LEMMA FoundIsRecord ==
    ASSUME TypeOK, NEW k \in Asked
    PROVE  Found(k) \in Record
<1>1. k \in Key /\ row[k] \in Row
  BY DEF Asked, TypeOK
<1>2. Newest(ChangesOf(k)) \in 0..MaxRevision
  BY NewestIsMax DEF ChangesOf, TypeOK
<1> QED
  BY <1>1, <1>2 DEF Found, Record, Row

LEMMA FindIsWhole ==
    ASSUME TypeOK, NEW q \in Queries
    PROVE  WholeRecords(Find(q))
<1>1. \A k \in Key : Found(k).key = k
  BY DEF Found
<1>2. ASSUME NEW k \in Key, Selects(q, k, row[k].values) PROVE k \in Asked
  BY <1>2 DEF Selects, Asked
<1>3. \A r \in Find(q) : r.key \in Asked /\ r = Found(r.key)
  BY <1>1, <1>2 DEF Find
<1>4. \A r \in Find(q) : r \in Record
  BY <1>3, FoundIsRecord
<1> QED
  BY <1>3, <1>4 DEF WholeRecords

\* A change of the log as changes() tells it.
AsTold(c) == [revision |-> c.revision, type |-> c.type, fields |-> c.fields,
              record |-> Found(c.key)]

LEMMA ChangesAreTold ==
    ASSUME NEW q, NEW from
    PROVE  /\ \A c \in ChangesSince(q, from) : AsTold(c) \in Changes(q, from)
           /\ \A ch \in Changes(q, from) :
                  \E c \in LogSince(q, from) : ch = AsTold(c)
BY DEF Changes, AsTold, ChangesSince

LEMMA ChangesAreWhole ==
    ASSUME TypeOK, OnePerRevision, NEW q \in Queries, NEW from
    PROVE  WholeChanges(Changes(q, from))
<1>1. ASSUME NEW c \in LogSince(q, from)
      PROVE  /\ c \in change /\ AsTold(c).record \in Record
             /\ AsTold(c).revision = c.revision
             /\ c.revision \in 0..MaxRevision
  <2>1. c \in change /\ c \in Change /\ c.key[1] = q.table
    BY DEF LogSince, TypeOK
  <2>2. c.key \in Asked
    BY <2>1 DEF Change, Asked
  <2> QED
    BY <2>1, <2>2, FoundIsRecord DEF AsTold, Change, Revision
<1>2. \A ch \in Changes(q, from) : \E c \in LogSince(q, from) : ch = AsTold(c)
  BY ChangesAreTold
<1>3. \A ch \in Changes(q, from) : ch.record \in Record /\ ch.revision \in 0..MaxRevision
  BY <1>1, <1>2
<1>4. \A x, y \in Changes(q, from) : x.revision = y.revision => x = y
  BY <1>1, <1>2 DEF OnePerRevision
<1> QED
  BY <1>3, <1>4 DEF WholeChanges

-----------------------------------------------------------------------------
(* What a write does, and what is told of it. *)

\* The write that ch announces, of record k, has been committed.
WritesTo(k, ch) ==
    /\ k \in Key
    /\ ch.revision = lastRevision + 1 /\ lastRevision' = lastRevision + 1
    /\ \A j \in Key \ {k} : row'[j] = row[j] /\ ChangesOf(j)' = ChangesOf(j)
    /\ Newest(ChangesOf(k)) \in 0..lastRevision
    /\ Newest(ChangesOf(k)') = lastRevision + 1
    /\ ch.record.values = row'[k].values /\ row'[k].values \in [Field -> Value]
    /\ k \in Asked => ch.record \in Record
    /\ Newest(ChangesOf(k)) <= ch.record.latestRevision
    /\ ch.record.latestRevision <= lastRevision + 1
    /\ ch.type = "Delete" => row'[k].status = "deleted"
    /\ ch.type # "Delete" => row'[k].status = "live" /\ ch.record = Found(k)'
Writes(ch) == WritesTo(ch.record.key, ch)

Still == UNCHANGED <<row, change, lastRevision>>

\* One more change in the log makes its record, and no other, the newest.
LEMMA InsertedIsNewest ==
    ASSUME IInv, TypeOK', NEW type, NEW k \in Key, NEW F, InsertChange(type, k, F)
    PROVE  /\ lastRevision' = lastRevision + 1 /\ lastRevision' \in 0..MaxRevision
           /\ lastRevision \in 0..MaxRevision
           /\ \A j \in Key \ {k} : ChangesOf(j)' = ChangesOf(j)
           /\ Newest(ChangesOf(k)) \in 0..lastRevision
           /\ Newest(ChangesOf(k)') = lastRevision + 1
<1>1. PICK new \in change' :
         /\ ChangesOf(k)' = ChangesOf(k) \cup {new}
         /\ \A j : j # k => ChangesOf(j)' = ChangesOf(j)
         /\ new.revision = lastRevision'
         /\ \A c \in change' : c.revision <= lastRevision'
  BY ChangesAfterInsert
<1>2. /\ lastRevision' = lastRevision + 1 /\ lastRevision' \in 0..MaxRevision
      /\ lastRevision \in 0..MaxRevision
  BY DEF InsertChange, TypeOK, IInv
<1>3. /\ ChangesOf(k) \subseteq Change /\ ChangesOf(k)' \subseteq Change
      /\ ChangesOf(k) \subseteq change /\ ChangesOf(k)' \subseteq change'
  BY DEF ChangesOf, IInv, TypeOK
<1>4. Newest(ChangesOf(k)) \in 0..lastRevision
  <2>1. /\ Newest(ChangesOf(k)) \in 0..MaxRevision
        /\ \/ Newest(ChangesOf(k)) = 0
           \/ \E c \in ChangesOf(k) : c.revision = Newest(ChangesOf(k))
    BY <1>3, NewestIsMax
  <2>2. \A c \in ChangesOf(k) : c.revision <= lastRevision
    BY <1>3 DEF IInv, CountersAhead
  <2> QED
    BY <1>2, <2>1, <2>2, BoundAssumption
<1>5. Newest(ChangesOf(k)') = lastRevision + 1
  <2>1. /\ Newest(ChangesOf(k)') \in 0..MaxRevision
        /\ \A c \in ChangesOf(k)' : c.revision <= Newest(ChangesOf(k)')
        /\ \/ Newest(ChangesOf(k)') = 0
           \/ \E c \in ChangesOf(k)' : c.revision = Newest(ChangesOf(k)')
    BY <1>3, NewestIsMax
  <2>2. lastRevision' <= Newest(ChangesOf(k)')
    BY <1>1, <2>1
  <2>3. Newest(ChangesOf(k)') <= lastRevision'
    <3>1. CASE Newest(ChangesOf(k)') = 0
      BY <1>2, <3>1, BoundAssumption
    <3>2. CASE \E c \in ChangesOf(k)' : c.revision = Newest(ChangesOf(k)')
      BY <1>1, <1>3, <3>2
    <3> QED
      BY <2>1, <3>1, <3>2
  <2> QED
    BY <1>2, <2>1, <2>2, <2>3, BoundAssumption
<1> QED
  BY <1>1, <1>2, <1>4, <1>5

\* Creating, updating and deleting are writes.
LEMMA CreateWrites ==
    ASSUME IInv, TypeOK', NEW t \in Table, NEW values \in [Field -> Value],
           Create(t, values)
    PROVE  Writes(CreateChange(t, values))
<1>1. PICK k \in Key : k = NewKey(t)
  BY NewKeyIsAbsent DEF Create
<1>2. InsertChange("Create", k, {})
  BY <1>1 DEF Create
<1>3. row' = [row EXCEPT ![k] = [status |-> "live", values |-> values]]
  BY <1>1 DEF Create
<1>4. /\ row'[k].status = "live" /\ row'[k].values = values
      /\ \A j \in Key \ {k} : row'[j] = row[j]
  BY <1>3 DEF IInv, TypeOK
<1> DEFINE record == [key |-> k, values |-> values,
                      latestRevision |-> lastRevision + 1]
           ch == [revision |-> lastRevision + 1, type |-> "Create", fields |-> {},
                  record |-> record]
<1>5. CreateChange(t, values) = ch
  BY <1>1 DEF CreateChange, Announced
<1>6. Newest(ChangesOf(k)') = lastRevision + 1 /\ lastRevision + 1 \in 0..MaxRevision
      /\ Newest(ChangesOf(k)) \in 0..lastRevision /\ lastRevision \in 0..MaxRevision
      /\ lastRevision' = lastRevision + 1
      /\ \A j \in Key \ {k} : ChangesOf(j)' = ChangesOf(j)
  BY <1>2, InsertedIsNewest
<1>7. record = Found(k)'
  BY <1>4, <1>6 DEF Found
<1>8. k \in Asked => record \in Record
  BY <1>6 DEF Record
<1>9. /\ record.key = k /\ record.values = values
      /\ record.latestRevision = lastRevision + 1
      /\ ch.record = record /\ ch.type = "Create" /\ ch.revision = lastRevision + 1
  OBVIOUS
<1>10. Newest(ChangesOf(k)) <= lastRevision + 1 /\ lastRevision + 1 <= lastRevision + 1
  BY <1>6, BoundAssumption
<1> HIDE DEF record, ch
<1>11. WritesTo(k, ch)
  BY <1>4, <1>6, <1>7, <1>8, <1>9, <1>10 DEF WritesTo
<1> QED
  BY <1>5, <1>9, <1>11 DEF Writes

LEMMA UpdateWrites ==
    ASSUME IInv, TypeOK', NEW k \in Key, NEW values \in Partial, Update(k, values)
    PROVE  Writes(UpdateChange(k, values))
<1>1. InsertChange("Update", k, DOMAIN values) /\ row[k].status = "live"
      /\ row' = [row EXCEPT ![k].values = Merged(k, values)]
  BY DEF Update
<1>2. Merged(k, values) \in [Field -> Value] /\ row[k] \in Row
  BY MergedType DEF IInv, TypeOK
<1>3. /\ row'[k].status = "live" /\ row'[k].values = Merged(k, values)
      /\ \A j \in Key \ {k} : row'[j] = row[j]
  BY <1>1, <1>2 DEF IInv, TypeOK, Row
<1> DEFINE record == [key |-> k, values |-> Merged(k, values),
                      latestRevision |-> lastRevision + 1]
           ch == UpdateChange(k, values)
<1>4. Newest(ChangesOf(k)') = lastRevision + 1 /\ lastRevision + 1 \in 0..MaxRevision
      /\ Newest(ChangesOf(k)) \in 0..lastRevision /\ lastRevision \in 0..MaxRevision
      /\ lastRevision' = lastRevision + 1
      /\ \A j \in Key \ {k} : ChangesOf(j)' = ChangesOf(j)
  BY <1>1, InsertedIsNewest
<1>5. record = Found(k)'
  BY <1>3, <1>4 DEF Found
<1>6. k \in Asked => record \in Record
  BY <1>2, <1>4 DEF Record
<1>7. /\ record.key = k /\ record.values = Merged(k, values)
      /\ record.latestRevision = lastRevision + 1
      /\ ch.record = record /\ ch.type = "Update" /\ ch.revision = lastRevision + 1
  BY DEF UpdateChange, Announced
<1>8. Newest(ChangesOf(k)) <= lastRevision + 1 /\ lastRevision + 1 <= lastRevision + 1
  BY <1>4, BoundAssumption
<1> HIDE DEF record, ch
<1>9. WritesTo(k, ch)
  BY <1>2, <1>3, <1>4, <1>5, <1>6, <1>7, <1>8 DEF WritesTo
<1> QED
  BY <1>7, <1>9 DEF ch, Writes

LEMMA DeleteWrites ==
    ASSUME IInv, TypeOK', NEW k \in Key, Delete(k)
    PROVE  Writes(DeleteChange(k))
<1>1. InsertChange("Delete", k, {}) /\ row' = [row EXCEPT ![k].status = "deleted"]
  BY DEF Delete
<1>2. row[k] \in Row
  BY DEF IInv, TypeOK
<1>3. /\ row'[k].status = "deleted" /\ row'[k].values = row[k].values
      /\ row[k].values \in [Field -> Value]
      /\ \A j \in Key \ {k} : row'[j] = row[j]
  BY <1>1, <1>2 DEF IInv, TypeOK, Row
<1> DEFINE ch == DeleteChange(k)
<1>4. Newest(ChangesOf(k)') = lastRevision + 1 /\ lastRevision + 1 \in 0..MaxRevision
      /\ Newest(ChangesOf(k)) \in 0..lastRevision /\ lastRevision \in 0..MaxRevision
      /\ lastRevision' = lastRevision + 1
      /\ \A j \in Key \ {k} : ChangesOf(j)' = ChangesOf(j)
  BY <1>1, InsertedIsNewest
<1>5. k \in Asked => Found(k) \in Record
  BY FoundIsRecord DEF IInv
<1>6. /\ Found(k).key = k /\ Found(k).values = row[k].values
      /\ Found(k).latestRevision = Newest(ChangesOf(k))
      /\ ch.record = Found(k) /\ ch.type = "Delete" /\ ch.revision = lastRevision + 1
  BY DEF DeleteChange, Announced, Found
<1>7. /\ Newest(ChangesOf(k)) <= Newest(ChangesOf(k))
      /\ Newest(ChangesOf(k)) <= lastRevision + 1
  BY <1>4, BoundAssumption
<1> HIDE DEF ch
<1>8. WritesTo(k, ch)
  BY <1>3, <1>4, <1>5, <1>6, <1>7 DEF WritesTo
<1> QED
  BY <1>6, <1>8 DEF ch, Writes

-----------------------------------------------------------------------------
(* What a command does. *)

\* What a message says is of the right kind; a model gives its subscriptions up
\* one by one.
Sound(m) ==
    /\ m.cmd # "unsubscribe_query"
    /\ m.cmd = "create" => m.table \in Table /\ m.values \in [Field -> Value]
    /\ m.cmd = "update" => m.values \in Partial
    /\ m.cmd = "find" => m.query \in Queries
    /\ m.cmd = "subscribe" => m.query \in Queries /\ m.from \in 0..MaxRevision

\* Message m changes nothing, and is answered with what is in the tables.
Reads(m, a) ==
    /\ Still
    /\ m.cmd \in {"update", "delete"} => a.cmd = "error"
    /\ IsReply(a, "find") => a.data.records = Find(m.query)
    /\ IsReply(a, "subscribe") => a.data.changes = Changes(m.query, m.from)

\* Message m is a write, which ch announces.
Performs(m, a, ch) ==
    /\ Writes(ch)
    /\ m.cmd \in {"update", "delete"} => ch.record.key = m.key
    /\ ~IsReply(a, "find") /\ ~IsReply(a, "subscribe")

Outcome(c, m) ==
    \/ \E a : Send(Nothing, c, a) /\ Answer(a) /\ Reads(m, a)
    \/ \E a, ch : Send(Broadcast(ch), c, a) /\ Answer(a) /\ Performs(m, a, ch)

\* While nothing is rolled back after a push of it, a command reads or writes, and
\* a write is announced.
LEMMA CommandReadsOrWrites ==
    ASSUME "rollback" \notin Faults, IInv, TypeOK', NEW c \in Connection, NEW m, Sound(m),
           Command(c, m)
    PROVE  Outcome(c, m)
<1>1. ASSUME Refuse(c, m) PROVE Outcome(c, m)
  <2>1. Send(Nothing, c, Error(m)) /\ Still
    BY <1>1 DEF Refuse, Still, engineVars
  <2>2. Answer(Error(m)) /\ Reads(m, Error(m))
    BY <2>1 DEF Answer, Error, Reads, IsReply
  <2> QED
    BY <2>1, <2>2 DEF Outcome
<1>2. ASSUME NEW ch, NEW data, Writes(ch), m.cmd \notin {"find", "subscribe"},
             m.cmd \in {"update", "delete"} => ch.record.key = m.key,
             NEW a \in {Reply(m, data), Error(m)}, Send(Broadcast(ch), c, a)
      PROVE  Outcome(c, m)
  <2>1. Answer(a) /\ Performs(m, a, ch)
    BY <1>2 DEF Answer, Reply, Error, Performs, IsReply
  <2> QED
    BY <1>2, <2>1 DEF Outcome
<1>3. ASSUME NEW a, Send(Nothing, c, a), Still, Answer(a),
             m.cmd \notin {"find", "subscribe", "update", "delete"},
             a.cmd = "error" \/ a.answers = m.cmd
      PROVE  Outcome(c, m)
  <2>1. Reads(m, a)
    BY <1>3 DEF Reads, IsReply
  <2> QED
    BY <1>3, <2>1 DEF Outcome
<1>4. ASSUME NEW data PROVE /\ Answer(Reply(m, data)) /\ Reply(m, data).answers = m.cmd
                            /\ Reply(m, data).data = data
                            /\ Answer(Error(m)) /\ Error(m).cmd = "error"
  BY DEF Answer, Reply, Error
<1>5. CASE Authenticate(c, m)
  <2>1. CASE Refuse(c, m)
    BY <1>1, <2>1
  <2>2. CASE ~Refuse(c, m)
    <3>1. /\ m.cmd = "authenticate" /\ Create(ClientTable, Blank)
          /\ Send(Broadcast(CreateChange(ClientTable, Blank)), c, Reply(m, [ok |-> TRUE]))
      BY <1>5, <2>2 DEF Authenticate
    <3>2. Writes(CreateChange(ClientTable, Blank))
      BY <3>1, CreateWrites, TableAssumption, ValueAssumption
    <3> QED
      BY <1>2, <3>1, <3>2
  <2> QED
    BY <2>1, <2>2
<1>6. CASE NotAuthorized(c, m)
  BY <1>1, <1>6 DEF NotAuthorized
<1>7. CASE Query(c, m)
  <2>1. Still
    BY <1>7 DEF Query, Still, engineVars
  <2>2. CASE m.cmd = "find" /\ Send(Nothing, c, Reply(m, [records |-> Find(m.query)]))
    <3> DEFINE a == Reply(m, [records |-> Find(m.query)])
    <3>1. Answer(a) /\ Reads(m, a)
      BY <2>1, <2>2 DEF Answer, Reply, Reads, IsReply
    <3> HIDE DEF a
    <3> QED
      BY <2>2, <3>1 DEF Outcome, a
  <2>3. CASE /\ m.cmd \in {"version", "read", "changes"}
             /\ \E data : Send(Nothing, c, Reply(m, data)) \/ Send(Nothing, c, Error(m))
    BY <1>3, <1>4, <2>1, <2>3
  <2>4. CASE m.cmd = "version"
    BY <1>7, <2>3, <2>4 DEF Query
  <2>5. CASE m.cmd = "read"
    BY <1>7, <2>3, <2>5 DEF Query
  <2>6. CASE m.cmd = "changes"
    BY <1>7, <2>3, <2>6 DEF Query
  <2> QED
    BY <1>7, <2>2, <2>4, <2>5, <2>6 DEF Query
<1>8. CASE CreateRecord(c, m)
  <2>1. /\ m.cmd = "create" /\ Create(m.table, m.values)
        /\ m.table \in Table /\ m.values \in [Field -> Value]
    BY <1>8 DEF CreateRecord, Sound
  <2>2. PICK ch : ch = CreateChange(m.table, m.values)
    OBVIOUS
  <2>3. Send(Broadcast(ch), c, Reply(m, [record |-> ch.record]))
    BY <1>8, <2>2 DEF CreateRecord
  <2>4. Writes(ch)
    BY <2>1, <2>2, CreateWrites
  <2> QED
    BY <1>2, <2>1, <2>3, <2>4
<1>9. CASE UpdateRecord(c, m)
  <2>1. CASE Refuse(c, m)
    BY <1>1, <2>1
  <2>2. CASE ~Refuse(c, m)
    <3>1. /\ m.cmd = "update" /\ Update(m.key, m.values) /\ m.key \in Key
          /\ m.values \in Partial
          /\ Send(Broadcast(UpdateChange(m.key, m.values)), c,
                  Reply(m, [revision |-> lastRevision + 1]))
      BY <1>9, <2>2 DEF UpdateRecord, Live, Sound
    <3>2. PICK ch : ch = UpdateChange(m.key, m.values)
      OBVIOUS
    <3>3. Writes(ch) /\ ch.record.key = m.key
      BY <3>1, <3>2, UpdateWrites DEF UpdateChange, Announced
    <3> QED
      BY <1>2, <3>1, <3>2, <3>3
  <2> QED
    BY <2>1, <2>2
<1>10. CASE DeleteRecord(c, m)
  <2>1. CASE Refuse(c, m)
    BY <1>1, <2>1
  <2>2. CASE ~Refuse(c, m)
    <3>1. /\ m.cmd = "delete" /\ Delete(m.key) /\ m.key \in Key
          /\ Send(Broadcast(DeleteChange(m.key)), c,
                  Reply(m, [revision |-> lastRevision + 1]))
      BY <1>10, <2>2 DEF DeleteRecord, Live
    <3>2. PICK ch : ch = DeleteChange(m.key)
      OBVIOUS
    <3>3. Writes(ch)
      BY <3>1, <3>2, DeleteWrites
    <3>4. ch.record = Found(m.key) /\ Found(m.key).key = m.key
      BY <3>2 DEF DeleteChange, Announced, Found
    <3> QED
      BY <1>2, <3>1, <3>2, <3>3, <3>4
  <2> QED
    BY <2>1, <2>2
<1>11. CASE Subscribe(c, m)
  <2> DEFINE data == [subscription |-> nextSubscriptionId[c],
                      changes |-> Changes(m.query, m.from)]
             a == IF change # {} THEN Reply(m, data) ELSE Error(m)
  <2>1. m.cmd = "subscribe" /\ Send(Nothing, c, a) /\ Still
    BY <1>11 DEF Subscribe, Still, engineVars
  <2>2. Answer(Reply(m, data)) /\ Reads(m, Reply(m, data))
    BY <2>1 DEF Answer, Reply, Reads, IsReply
  <2>3. Answer(Error(m)) /\ Reads(m, Error(m))
    BY <2>1 DEF Answer, Error, Reads, IsReply
  <2>4. Answer(a) /\ Reads(m, a)
    BY <2>2, <2>3
  <2> HIDE DEF a
  <2> QED
    BY <2>1, <2>4 DEF Outcome
<1>12. CASE Unsubscribe(c, m)
  <2>1. CASE Refuse(c, m)
    BY <1>1, <2>1
  <2>2. CASE ~Refuse(c, m)
    <3>1. /\ m.cmd = "unsubscribe" /\ Still
          /\ Send(Nothing, c, Reply(m, [ids |-> {m.subscription}]))
      BY <1>12, <2>2 DEF Unsubscribe, Still, engineVars
    <3> QED
      BY <1>3, <1>4, <3>1
  <2> QED
    BY <2>1, <2>2
<1>13. CASE UnsubscribeQuery(c, m)
  <2>1. /\ m.cmd = "unsubscribe_query" /\ Still
        /\ \E data : Send(Nothing, c, Reply(m, data))
    BY <1>13 DEF UnsubscribeQuery, Still, engineVars
  <2> QED
    BY <1>3, <1>4, <2>1
<1>14. CASE WriteFails(c, m)
  <2>1. Send(Nothing, c, Error(m)) /\ Still
    BY <1>14 DEF WriteFails, Still, engineVars
  <2>2. Answer(Error(m)) /\ Reads(m, Error(m))
    BY <2>1 DEF Answer, Error, Reads, IsReply
  <2> QED
    BY <2>1, <2>2 DEF Outcome
<1>15. CASE CreateUnread(c, m)
  <2>1. PICK t \in Table, values \in [Field -> Value] :
            /\ Create(t, values)
            /\ Send(Broadcast(CreateChange(t, values)), c, Error(m))
            /\ m.cmd \in {"authenticate", "create"}
    BY <1>15, UnreadCreates DEF Sound
  <2>2. PICK ch : ch = CreateChange(t, values)
    OBVIOUS
  <2>3. Writes(ch)
    BY <2>1, <2>2, CreateWrites
  <2> QED
    BY <1>2, <2>1, <2>2, <2>3
<1> QED
  BY <1>5, <1>6, <1>7, <1>8, <1>9, <1>10, <1>11, <1>12, <1>13, <1>14, <1>15 DEF Command

-----------------------------------------------------------------------------
(* What a connection hears of it. *)

\* Place i of the stream to d is new.
Fresh(d, i) == i \in DOMAIN outbox'[d] /\ i \notin DOMAIN outbox[d]

\* Change ch is pushed to the subscriptions of d that it matches; apart from
\* that d is at most answered.
Announces(d, ch) ==
    /\ \A i : Fresh(d, i) /\ ~Answer(outbox'[d][i]) =>
           \E s \in DOMAIN subscriptions[d] :
               Matches(subscriptions[d][s], ch) /\ outbox'[d][i] = Push(s, ch)
    /\ \A s \in DOMAIN subscriptions[d] : Matches(subscriptions[d][s], ch) =>
           \E i : Fresh(d, i) /\ outbox'[d][i] = Push(s, ch)
OnlyAnswered(d) == \A i : Fresh(d, i) => Answer(outbox'[d][i])

\* Connection d hears of what is written, if anything is.
Informs(d) == \/ Still /\ OnlyAnswered(d)
              \/ \E ch : Writes(ch) /\ Announces(d, ch)

\* Message m of d is answered with a.
Settles(d, m, a) == \/ Reads(m, a) /\ OnlyAnswered(d)
                    \/ \E ch : Performs(m, a, ch) /\ Announces(d, ch)

\* The pushes of a change, and answers behind them.
LEMMA PushesAnnounce ==
    ASSUME ServerSide, NEW d \in Connection, link[d] = "open", NEW ch, NEW answers,
           Appends(d, Pushes(d, ch), answers),
           \A k \in DOMAIN answers : Answer(answers[k])
    PROVE  Announces(d, ch)
<1>1. IsSeq(outbox[d]) /\ nextSubscriptionId[d] \in Nat
      /\ DOMAIN subscriptions[d] \subseteq 1..nextSubscriptionId[d] - 1
  BY DEF ServerSide, ServerEnd
<1>2. PICK p : p = Pushes(d, ch)
  OBVIOUS
<1>3. /\ \A k \in DOMAIN p : \E s \in DOMAIN subscriptions[d] :
             Matches(subscriptions[d][s], ch) /\ p[k] = Push(s, ch)
      /\ \A s \in DOMAIN subscriptions[d] : Matches(subscriptions[d][s], ch) =>
             \E k \in DOMAIN p : p[k] = Push(s, ch)
  BY <1>1, <1>2, PushesOfAny
<1>4. Appends(d, p, answers)
  BY <1>2
<1>5. /\ \A k \in DOMAIN p : /\ Len(outbox[d]) + k \in DOMAIN outbox'[d]
                             /\ outbox'[d][Len(outbox[d]) + k] = p[k]
      /\ \A k \in DOMAIN answers :
             outbox'[d][Len(outbox[d]) + Len(p) + k] = answers[k]
      /\ \A i \in DOMAIN outbox'[d] :
             \/ i \in DOMAIN outbox[d]
             \/ \E k \in DOMAIN p : i = Len(outbox[d]) + k
             \/ \E k \in DOMAIN answers : i = Len(outbox[d]) + Len(p) + k
      /\ Len(outbox[d]) \in Nat /\ DOMAIN outbox[d] = 1..Len(outbox[d])
      /\ Len(p) \in Nat /\ DOMAIN p = 1..Len(p)
  BY <1>1, <1>4, Appended
<1>6. ASSUME NEW k \in DOMAIN p PROVE Fresh(d, Len(outbox[d]) + k)
  BY <1>5 DEF Fresh
<1>7. ASSUME NEW i, Fresh(d, i), ~Answer(outbox'[d][i])
      PROVE  \E k \in DOMAIN p : outbox'[d][i] = p[k]
  BY <1>5, <1>7 DEF Fresh
<1>8. ASSUME NEW s \in DOMAIN subscriptions[d], Matches(subscriptions[d][s], ch)
      PROVE  \E i : Fresh(d, i) /\ outbox'[d][i] = Push(s, ch)
  BY <1>3, <1>5, <1>6, <1>8
<1>9. ASSUME NEW i, Fresh(d, i), ~Answer(outbox'[d][i])
      PROVE  \E s \in DOMAIN subscriptions[d] :
                 Matches(subscriptions[d][s], ch) /\ outbox'[d][i] = Push(s, ch)
  BY <1>3, <1>7, <1>9
<1> QED
  BY <1>8, <1>9 DEF Announces

\* Only answers.
LEMMA AnswersOnly ==
    ASSUME ServerSide, NEW d \in Connection, NEW answers, Appends(d, <<>>, answers),
           \A k \in DOMAIN answers : Answer(answers[k])
    PROVE  OnlyAnswered(d)
<1>1. IsSeq(outbox[d])
  BY DEF ServerSide, ServerEnd
<1>2. PICK none : none = <<>> /\ DOMAIN none = {}
  OBVIOUS
<1>3. Appends(d, none, answers)
  BY <1>2
<1>4. /\ \A k \in DOMAIN answers :
             outbox'[d][Len(outbox[d]) + Len(none) + k] = answers[k]
      /\ \A i \in DOMAIN outbox'[d] :
             \/ i \in DOMAIN outbox[d]
             \/ \E k \in DOMAIN none : i = Len(outbox[d]) + k
             \/ \E k \in DOMAIN answers : i = Len(outbox[d]) + Len(none) + k
  BY <1>1, <1>3, Appended
<1> QED
  BY <1>2, <1>4 DEF OnlyAnswered, Fresh

\* What is sent with an answer to c reaches d.
LEMMA SentInforms ==
    ASSUME ServerSide, NEW c \in Connection, NEW a, Answer(a),
           NEW d \in Connection, link[d] = "open"
    PROVE  /\ Send(Nothing, c, a) => OnlyAnswered(d)
           /\ \A ch : Send(Broadcast(ch), c, a) => Announces(d, ch)
<1>1. ASSUME Send(Nothing, c, a) PROVE OnlyAnswered(d)
  <2>1. PICK answers : Appends(d, <<>>, answers) /\ \A k \in DOMAIN answers : answers[k] = a
    BY <1>1, NothingAppends
  <2> QED
    BY <2>1, AnswersOnly
<1>2. ASSUME NEW ch, Send(Broadcast(ch), c, a) PROVE Announces(d, ch)
  <2>1. Broadcast(ch)[d] = Pushes(d, ch)
    BY DEF Broadcast
  <2>2. IsSeq(Pushes(d, ch))
    BY PushesOfAny DEF ServerSide, ServerEnd
  <2>3. PICK answers : /\ Appends(d, Pushes(d, ch), answers)
                       /\ \A k \in DOMAIN answers : answers[k] = a
    <3>1. PICK pushed : pushed = Broadcast(ch)
      OBVIOUS
    <3>2. \E answers : /\ Appends(d, pushed[d], answers)
                       /\ \A k \in DOMAIN answers : answers[k] = a
      BY <1>2, <2>1, <2>2, <3>1, SendAppends
    <3> QED
      BY <2>1, <3>1, <3>2
  <2> QED
    BY <2>3, PushesAnnounce
<1> QED
  BY <1>1, <1>2

\* A command is heard by whoever is connected, and answered.
LEMMA CommandInforms ==
    ASSUME ServerSide, NEW c \in Connection, NEW m, Outcome(c, m)
    PROVE  /\ \A d \in Connection : link[d] = "open" => Informs(d)
           /\ link[c] = "open" =>
                  \E a, n : Answered(c, a, n) /\ Settles(c, m, a)
<1>1. ASSUME NEW a, Send(Nothing, c, a), Answer(a), Reads(m, a)
      PROVE  /\ \A d \in Connection : link[d] = "open" => Informs(d)
             /\ link[c] = "open" => \E n : Answered(c, a, n) /\ Settles(c, m, a)
  <2>1. \A d \in Connection : link[d] = "open" => OnlyAnswered(d)
    BY <1>1, SentInforms
  <2>2. \E n : Answered(c, a, n)
    BY <1>1, PushingNothing, SendIsAnswered
  <2> QED
    BY <1>1, <2>1, <2>2 DEF Informs, Settles, Reads
<1>2. ASSUME NEW a, NEW ch, Send(Broadcast(ch), c, a), Answer(a), Performs(m, a, ch)
      PROVE  /\ \A d \in Connection : link[d] = "open" => Informs(d)
             /\ link[c] = "open" => \E n : Answered(c, a, n) /\ Settles(c, m, a)
  <2>1. \A d \in Connection : link[d] = "open" => Announces(d, ch)
    BY <1>2, SentInforms
  <2>2. \E n : Answered(c, a, n)
    BY <1>2, PushingNothing, SendIsAnswered
  <2> QED
    BY <1>2, <2>1, <2>2 DEF Informs, Settles, Performs
<1>3. CASE \E a : Send(Nothing, c, a) /\ Answer(a) /\ Reads(m, a)
  BY <1>1, <1>3
<1>4. CASE \E a, ch : Send(Broadcast(ch), c, a) /\ Answer(a) /\ Performs(m, a, ch)
  BY <1>2, <1>4
<1> QED
  BY <1>3, <1>4 DEF Outcome

\* A message has one answer.
LEMMA AnsweredOnce ==
    ASSUME NEW d, NEW a, NEW n, Answered(d, a, n), NEW b, NEW j, Answered(d, b, j)
    PROVE  a = b /\ n = j
<1>1. n \in DOMAIN outbox'[d] /\ j \in DOMAIN outbox'[d] /\ n <= j /\ j <= n
  BY DEF Answered
<1>2. DOMAIN outbox'[d] \subseteq Nat
  BY DEF Answered, IsSeq
<1> QED
  BY <1>1, <1>2 DEF Answered

\* What is pushed to d when nobody is answered.
LEMMA GrownInforms ==
    ASSUME ServerSide, NEW d \in Connection, link[d] = "open", NEW pushed, Pushing(pushed),
           Grows(d, pushed[d])
    PROVE  /\ OnlyPushed(d)
           /\ pushed = Nothing => OnlyAnswered(d)
           /\ \A ch : pushed = Broadcast(ch) => Announces(d, ch)
<1>1. OnlyPushed(d)
  BY PushedIsTold
<1>2. IsSeq(<<>>) /\ DOMAIN <<>> = {} /\ IsSeq(pushed[d]) /\ IsSeq(outbox[d])
  BY ShortSequences, PushingAppends DEF ServerSide, ServerEnd
<1>3. outbox'[d] = outbox[d] \o pushed[d] \o <<>>
  <2>1. Concatenates(outbox[d], pushed[d], outbox[d] \o pushed[d])
    BY <1>2, Joined
  <2>2. (outbox[d] \o pushed[d]) \o <<>> = outbox[d] \o pushed[d]
    BY <2>1, ShortSequences DEF Concatenates
  <2> QED
    BY <2>2 DEF Grows
<1>4. Appends(d, pushed[d], <<>>)
  BY <1>2, <1>3 DEF Appends
<1>5. ASSUME pushed = Nothing PROVE OnlyAnswered(d)
  <2>1. pushed[d] = <<>>
    BY <1>5 DEF Nothing
  <2> QED
    BY <1>2, <1>4, <2>1, AnswersOnly
<1>6. ASSUME NEW ch, pushed = Broadcast(ch) PROVE Announces(d, ch)
  <2>1. pushed[d] = Pushes(d, ch)
    BY <1>6 DEF Broadcast
  <2> QED
    BY <1>2, <1>4, <2>1, PushesAnnounce
<1> QED
  BY <1>1, <1>5, <1>6

\* Another client writes.
LEMMA OthersInform ==
    ASSUME ServerSide, IInv, TypeOK', OthersWrite, NEW d \in Connection, link[d] = "open"
    PROVE  OnlyPushed(d) /\ Informs(d)
<1>1. PICK ch : Writes(ch) /\ outbox' = [e \in Connection |-> outbox[e] \o Pushes(e, ch)]
  <2> DEFINE Pushed(ch) == outbox' = [e \in Connection |-> outbox[e] \o Pushes(e, ch)]
  <2>1. ASSUME NEW t \in Table \ {ClientTable}, NEW values \in [Field -> Value],
               Create(t, values), Pushed(CreateChange(t, values))
        PROVE  \E ch : Writes(ch) /\ Pushed(ch)
    BY <2>1, CreateWrites
  <2>2. ASSUME NEW k \in Key \ ClientKey, NEW values \in Partial,
               Update(k, values), Pushed(UpdateChange(k, values))
        PROVE  \E ch : Writes(ch) /\ Pushed(ch)
    BY <2>2, UpdateWrites
  <2>3. ASSUME NEW k \in Key \ ClientKey, Delete(k), Pushed(DeleteChange(k))
        PROVE  \E ch : Writes(ch) /\ Pushed(ch)
    BY <2>3, DeleteWrites
  <2> QED
    BY <2>1, <2>2, <2>3 DEF OthersWrite
<1>2. PICK pushed : pushed = Broadcast(ch)
  OBVIOUS
<1>3. Grows(d, pushed[d]) /\ Pushing(pushed)
  BY <1>1, <1>2, PushingNothing DEF Grows, Broadcast
<1>4. OnlyPushed(d) /\ Announces(d, ch)
  BY <1>2, <1>3, GrownInforms
<1> QED
  BY <1>1, <1>4 DEF Informs

\* Connection c is closed.
LEMMA ClosingInforms ==
    ASSUME "rollback" \notin Faults, ServerSide, IInv, TypeOK', NEW c \in Connection,
           Disconnect(c), NEW d \in Connection, d # c, link[d] = "open"
    PROVE  OnlyPushed(d) /\ Informs(d)
<1> DEFINE k == <<ClientTable, clientRecordId[c]>>
           Sent(pushed) == outbox' = [e \in Connection |->
                               IF e = c THEN <<>> ELSE outbox[e] \o pushed[e]]
<1>1. \/ k \in Key /\ Delete(k) /\ Sent(Broadcast(DeleteChange(k)))
      \/ Sent(Nothing) /\ UNCHANGED <<engineVars, phase>>
  BY TableAssumption DEF Disconnect, Key
<1>2. ASSUME NEW pushed, Sent(pushed) PROVE Grows(d, pushed[d])
  BY <1>2 DEF Grows
<1> HIDE DEF k, Sent
<1>3. CASE k \in Key /\ Delete(k) /\ Sent(Broadcast(DeleteChange(k)))
  <2>1. PICK ch : ch = DeleteChange(k)
    OBVIOUS
  <2>2. PICK pushed : pushed = Broadcast(ch)
    OBVIOUS
  <2>3. Writes(ch) /\ Pushing(pushed) /\ Grows(d, pushed[d])
    BY <1>2, <1>3, <2>1, <2>2, DeleteWrites, PushingNothing
  <2>4. OnlyPushed(d) /\ Announces(d, ch)
    BY <2>2, <2>3, GrownInforms
  <2> QED
    BY <2>3, <2>4 DEF Informs
<1>4. CASE Sent(Nothing) /\ UNCHANGED <<engineVars, phase>>
  <2>1. PICK pushed : pushed = Nothing
    OBVIOUS
  <2>2. Pushing(pushed) /\ Grows(d, pushed[d])
    BY <1>2, <1>4, <2>1, PushingNothing
  <2>3. OnlyPushed(d) /\ OnlyAnswered(d) /\ Still
    BY <1>4, <2>1, <2>2, GrownInforms DEF engineVars, Still
  <2> QED
    BY <2>3 DEF Informs
<1> QED
  BY <1>1, <1>3, <1>4

\* All messages that are to be handled say something of the right kind.
Letters == \A d \in Connection : \A i \in DOMAIN inbox[d] : Sound(inbox[d][i])

\* The session overhears a step of the server, or is served with it.
Overhears == /\ Informs(peer) /\ OnlyPushed(peer) /\ Untouched(peer)
             /\ inbox'[peer] = inbox[peer]

\* What a step of the server means to the connection of the client.
LEMMA ServerMeans ==
    ASSUME "rollback" \notin Faults, SubscriptionInv, IInv, TypeOK', Letters, Idle,
           ServerHandles \/ ServerActs, link'[peer] = "open"
    PROVE  /\ link[peer] = "open" /\ phase = "up" /\ phase' = "up"
           /\ Overhears \/ \E m, a, n : Serving(m, a, n) /\ Settles(peer, m, a)
<1>1. ServerSide /\ ClientSide /\ peer \in Connection /\ ServerEnd(peer) /\ peer' = peer
  BY IdleMeans DEF SubscriptionInv, ClientSide, ServerSide
<1>2. ASSUME NEW c \in Connection, Handle(c)
      PROVE  /\ link[peer] = "open" /\ phase = "up" /\ phase' = "up"
             /\ Overhears \/ \E m, a, n : Serving(m, a, n) /\ Settles(peer, m, a)
  <2>1. /\ phase = "up" /\ phase' = "up" /\ link[peer] = "open" /\ link[c] = "open"
        /\ inbox[c] # <<>> /\ inbox' = [inbox EXCEPT ![c] = Tail(inbox[c])]
    BY <1>2 DEF Handle
  <2>2. PICK m : m = Head(inbox[c]) /\ Command(c, m)
    BY <1>2 DEF Handle
  <2>3. IsSeq(inbox[c])
    BY <1>1 DEF ServerSide, ServerEnd
  <2>4. PICK rest : rest = Tail(inbox[c])
    OBVIOUS
  <2>5. Rest(inbox[c], rest) /\ m = inbox[c][1] /\ 1 \in DOMAIN inbox[c]
    BY <2>1, <2>2, <2>3, <2>4, TailIsRest DEF Rest
  <2>6. inbox'[c] = rest /\ \A d \in Connection \ {c} : inbox'[d] = inbox[d]
    BY <1>1, <2>1, <2>4 DEF ServerSide
  <2>7. Outcome(c, m)
    BY <2>2, <2>5, CommandReadsOrWrites DEF Letters
  <2>8. PICK pushed, b : Send(pushed, c, b) /\ Pushing(pushed) /\ Replies(c, m, b)
    BY <1>1, <2>2, CommandMeans
  <2>9. Serves(c, m) /\ OnlyOf(c) /\ (change # {} => change' # {})
    BY <1>1, <2>2, CommandMeans
  <2>10. CASE c # peer
    <3>1. OnlyPushed(peer)
      BY <1>1, <2>8, <2>10, SendIsTold
    <3>2. Informs(peer)
      BY <1>1, <2>1, <2>7, CommandInforms
    <3> QED
      BY <1>1, <2>1, <2>6, <2>9, <2>10, <3>1, <3>2 DEF Overhears, OnlyOf
  <2>11. CASE c = peer
    <3>1. PICK n : Answered(peer, b, n)
      BY <1>1, <2>8, <2>11, SendIsAnswered
    <3>2. PICK a, j : Answered(peer, a, j) /\ Settles(peer, m, a)
      BY <1>1, <2>1, <2>7, <2>11, CommandInforms
    <3>3. a = b
      BY <3>1, <3>2, AnsweredOnce
    <3>4. Serving(m, b, n)
      BY <1>1, <2>5, <2>6, <2>8, <2>9, <2>11, <3>1 DEF Serving, ToServer
    <3> QED
      BY <2>1, <3>2, <3>3, <3>4
  <2> QED
    BY <2>10, <2>11
<1>3. CASE OthersWrite
  <2>1. UNCHANGED <<link, phase, subscriptions, nextSubscriptionId, inbox>>
    BY <1>3 DEF OthersWrite, session, Create, Update, Delete
  <2>2. OnlyPushed(peer) /\ Informs(peer)
    BY <1>1, <1>3, <2>1, OthersInform
  <2> QED
    BY <1>1, <2>1, <2>2 DEF Overhears, Untouched, ServerEnd
<1>4. ASSUME NEW c \in Connection, Disconnect(c)
      PROVE  link[peer] = "open" /\ phase = "up" /\ phase' = "up" /\ Overhears
  <2>1. phase = "up" /\ phase' = "up" /\ Closes({c})
    BY <1>4 DEF Disconnect, Forgotten, Closes, Delete
  <2>2. c # peer /\ link[peer] = "open" /\ Untouched(peer) /\ inbox'[peer] = inbox[peer]
    BY <1>1, <2>1 DEF Closes, Untouched
  <2>3. OnlyPushed(peer) /\ Informs(peer)
    BY <1>1, <1>4, <2>2, ClosingInforms
  <2> QED
    BY <2>1, <2>2, <2>3 DEF Overhears
<1>5. CASE ServerStop
  BY <1>1, <1>5 DEF ServerStop, Forgotten
<1>6. CASE ServerStart
  BY <1>1, <1>6 DEF ServerStart, PurgeClients, PurgeClientChanges, serverVars, ServerEnd
<1> QED
  BY <1>2, <1>3, <1>4, <1>5, <1>6 DEF ServerHandles, ServerActs, ServerNotices,
                                      ServerRestarts

-----------------------------------------------------------------------------
(* The engine under a model. *)

EngineInv == IInv /\ OnePerRevision

\* Every step of the system is a step of the engine, or leaves it alone.
LEMMA ModelStepIsEngineStep ==
    ASSUME ServerSide, Letters, [ModelNext]_modelVars
    PROVE  [Next]_vars
<1>1. ASSUME NEW c \in Connection, Handle(c) PROVE [Next]_vars
  <2>1. PICK m : m = Head(inbox[c]) /\ Command(c, m)
    BY <1>1 DEF Handle
  <2>2. IsSeq(inbox[c]) /\ inbox[c] # <<>> /\ UNCHANGED phase
    BY <1>1 DEF Handle, ServerSide, ServerEnd
  <2>3. m = inbox[c][1] /\ 1 \in DOMAIN inbox[c]
    BY <2>1, <2>2, TailIsRest DEF Rest
  <2>4. Sound(m)
    BY <2>3 DEF Letters
  <2> QED
    BY <2>1, <2>2, <2>4, CommandIsEngineStep DEF Sound
<1>2. CASE OthersWrite
  BY <1>2 DEF OthersWrite, Next
<1>3. ASSUME NEW c \in Connection, Disconnect(c) PROVE [Next]_vars
  <2>1. \/ /\ clientRecordId[c] \in Id
           /\ Delete(<<ClientTable, clientRecordId[c]>>)
        \/ UNCHANGED vars
    BY <1>3 DEF Disconnect, engineVars, vars
  <2> QED
    BY <2>1, TableAssumption DEF Next, Key
<1>4. CASE ServerStop \/ ServerStart
  BY <1>4 DEF ServerStop, ServerStart, Next
<1>5. CASE ClientReceives \/ UserActs \/ UNCHANGED modelVars
  BY <1>5 DEF ClientReceives, UserActs, modelVars, allServerVars
<1>6. CASE SocketActs
  BY <1>6 DEF SocketActs, SocketStep, UserConnects, Established, NotEstablished, Lost,
              UserDisconnects, ReconnectNow, allServerVars, engineVars, vars
<1> QED
  BY <1>1, <1>2, <1>3, <1>4, <1>5, <1>6 DEF ModelNext, ServerHandles, ServerActs,
                                            ServerNotices, ServerRestarts

LEMMA EngineStep ==
    ASSUME EngineInv, ServerSide, Letters, [ModelNext]_modelVars
    PROVE  EngineInv' /\ TypeOK'
<1>1. [Next]_vars
  BY ModelStepIsEngineStep
<1>2. IInv' /\ OnePerRevision'
  BY <1>1, IInvStep, OnePerRevisionStep DEF EngineInv
<1> QED
  BY <1>2 DEF EngineInv, IInv

\* The records an earlier run left.
LEMMA EngineStarts == ModelInit => EngineInv
<1> SUFFICES ASSUME ModelInit PROVE EngineInv
  OBVIOUS
<1>1. PICK c \in Connection : ServesFirst(c, {<<target.table, 1>>})
  BY DEF ModelInit
<1>2. PICK left : left = <<target.table, 1>>
  OBVIOUS
<1> DEFINE client == <<ClientTable, 1>>
           keys == {left, client}
           Created(k) == [revision |-> IF k[1] = ClientTable THEN 2 ELSE 1,
                          type |-> "Create", key |-> k, fields |-> {}]
<1>3. left \in Key /\ client \in Key /\ left[2] = 1 /\ client[2] = 1
      /\ client[1] = ClientTable /\ (left[1] = ClientTable => left = client)
  BY <1>2, QueriesAssumption, TableAssumption, BoundAssumption
     DEF ModelInit, Key, Id, TableQuery
<1>4. /\ row = [k \in Key |-> IF k \in Seed \cup keys
                              THEN [status |-> "live", values |-> Blank]
                              ELSE Absent]
      /\ change = {Created(k) : k \in keys}
      /\ lastId = [t \in Table |-> IF <<t, 1>> \in Seed \cup keys THEN 1 ELSE 0]
      /\ lastRevision = 2 /\ phase = "up"
  BY <1>1, <1>2 DEF ServesFirst
<1>5. 1 \in Revision /\ 2 \in Revision /\ 2 \in 0..MaxRevision /\ 1 \in 0..MaxId
      /\ 0 \in 0..MaxId
  BY BoundAssumption, RoomAssumption DEF Revision
<1>6. \A k \in keys : /\ Created(k).key = k /\ Created(k).type = "Create"
                      /\ Created(k).revision = IF k[1] = ClientTable THEN 2 ELSE 1
                      /\ Created(k) \in Change
  BY <1>3, <1>5 DEF Change, ChangeType
<1>7. TypeOK
  <2>1. [status |-> "live", values |-> Blank] \in Row /\ Absent \in Row
    BY ValueAssumption DEF Row, Absent
  <2>2. row \in [Key -> Row]
    BY <1>4, <2>1
  <2>3. change \subseteq Change
    BY <1>4, <1>6
  <2>4. lastId \in [Table -> 0..MaxId]
    BY <1>4, <1>5
  <2> QED
    BY <1>4, <1>5, <2>2, <2>3, <2>4 DEF TypeOK
<1> HIDE DEF Created
<1>8. OnePerRevision
  BY <1>3, <1>4, <1>6 DEF OnePerRevision
<1>9. \A k \in Key : k \in Seed \/ k \in keys => row[k].status = "live"
  BY <1>4
<1>10. \A k \in Key : k \notin Seed /\ k \notin keys => row[k].status = "absent"
  BY <1>4 DEF Absent
<1>11. \A k \in Key : ChangesOf(k) = IF k \in keys THEN {Created(k)} ELSE {}
  BY <1>4, <1>6 DEF ChangesOf
<1>12. CountersAhead
  <2>1. ASSUME NEW k \in Key, row[k].status # "absent" PROVE k[2] <= lastId[k[1]]
    <3>1. k \in Seed \cup keys
      BY <1>10, <2>1
    <3>2. k[2] = 1 /\ k = <<k[1], 1>> /\ k[1] \in Table
      BY <1>3, <3>1 DEF Seed, Key
    <3> QED
      BY <1>4, <3>1, <3>2
  <2>2. \A x \in change : x.revision <= lastRevision
    BY <1>4, <1>6
  <2> QED
    BY <2>1, <2>2 DEF CountersAhead
<1>13. LogTellsRows
  <2>1. ASSUME NEW k \in Key PROVE Told(k)
    <3>1. CASE k \in keys
      <4>1. ChangesOf(k) = {Created(k)} /\ row[k].status = "live"
        BY <1>9, <1>11, <3>1
      <4>2. Created(k).type = "Create" /\ Created(k).revision \in Int
        BY <1>6, <3>1
      <4> QED
        BY <4>1, <4>2 DEF Told
    <3>2. CASE k \notin keys /\ k \in Seed
      BY <1>9, <1>11, <3>2 DEF Told
    <3>3. CASE k \notin keys /\ k \notin Seed
      BY <1>10, <1>11, <3>3 DEF Told
    <3> QED
      BY <3>1, <3>2, <3>3
  <2> QED
    BY <1>4, <2>1 DEF LogTellsRows, Settled
<1> QED
  BY <1>4, <1>7, <1>8, <1>12, <1>13 DEF EngineInv, IInv, PurgedRows

-----------------------------------------------------------------------------
(* What is known of the data. *)

\* What message a tells is whole.
Whole(a) ==
    /\ IsReply(a, "find") => WholeRecords(a.data.records)
    /\ a.cmd = "changes" \/ IsReply(a, "subscribe") => WholeChanges(ChangesIn(a))
Heard == \A i \in DOMAIN ToClient : Whole(ToClient[i])

\* The server listens for the client to queries it has asked.
Listens == \A s \in DOMAIN subscriptions[peer] :
               /\ subscriptions[peer][s].query \in Queries
               /\ subscriptions[peer][s].from \in 0..MaxRevision

\* Rows are records under their keys, and records are put back.
Rows == \A k \in DOMAIN shown : shown[k] \in Record /\ shown[k].key = k
Kept == \A id \in DOMAIN calls : calls[id].kind = "undo" => calls[id].record \in Record

DataInv == /\ target \in Queries /\ pendingReloads \in 0..MaxPendingReloads
           /\ Letters /\ Heard /\ Listens /\ Rows /\ Kept

-----------------------------------------------------------------------------
(* Letters of the client. *)

\* What Post() leaves in the stream, to the letter.
Posted(msgs) ==
    /\ \A d \in Connection : d # peer => inbox'[d] = inbox[d]
    /\ link[peer] # "open" => inbox' = inbox
    /\ link[peer] = "open" =>
           \E sent : /\ Longer(ToServer, inbox'[peer], sent)
                     /\ DOMAIN sent = DOMAIN msgs
                     /\ \A k \in DOMAIN msgs :
                            sent[k] = With(msgs[k], "msgId", nextCall + k - 1)

LEMMA PostIsPosted ==
    ASSUME ServerSide, peer \in Connection, NEW msgs, IsSeq(msgs), NEW contexts,
           NEW others, Post(msgs, contexts, others)
    PROVE  Posted(msgs)
<1> DEFINE sent == [i \in DOMAIN msgs |-> With(msgs[i], "msgId", nextCall + i - 1)]
<1>1. inbox' = IF link[peer] # "open" THEN inbox
               ELSE [inbox EXCEPT ![peer] = inbox[peer] \o sent]
  BY DEF Post
<1>2. DOMAIN sent = DOMAIN msgs
      /\ \A k \in DOMAIN msgs : sent[k] = With(msgs[k], "msgId", nextCall + k - 1)
  OBVIOUS
<1>3. IsSeq(sent)
  <2> DEFINE S == Range(sent)
  <2>1. \A i \in 1..Len(msgs) : sent[i] \in S
    BY DEF Range, IsSeq
  <2>2. Len(msgs) \in Nat /\ sent = [i \in 1..Len(msgs) |-> sent[i]]
    BY DEF IsSeq
  <2> HIDE DEF S, sent
  <2>3. sent \in Seq(S)
    BY <2>1, <2>2
  <2> QED
    BY <2>3 DEF IsSeq, S
<1> HIDE DEF sent
<1>4. /\ inbox = [d \in Connection |-> inbox[d]]
      /\ IsSeq(inbox[peer])
  BY DEF ServerSide, ServerEnd
<1> DEFINE z == inbox[peer] \o sent
<1>5. Longer(ToServer, z, sent)
  BY <1>3, <1>4, JoinedIsLonger DEF ToServer
<1>6. inbox' = IF link[peer] # "open" THEN inbox ELSE [inbox EXCEPT ![peer] = z]
  BY <1>1
<1> HIDE DEF z
<1> QED
  BY <1>2, <1>4, <1>5, <1>6 DEF Posted

Sendable(msgs) == \A k \in DOMAIN msgs : \A id : Sound(With(msgs[k], "msgId", id))

\* Sound messages keep the letters sound.
LEMMA LettersPosted ==
    ASSUME Letters, ServerSide, peer \in Connection, NEW msgs, Posted(msgs), Sendable(msgs)
    PROVE  Letters'
<1> SUFFICES ASSUME NEW d \in Connection, NEW i \in DOMAIN inbox'[d]
             PROVE  Sound(inbox'[d][i])
  BY DEF Letters
<1>1. CASE inbox'[d] = inbox[d]
  BY <1>1 DEF Letters
<1>2. CASE d = peer /\ link[peer] = "open"
  <2>1. PICK sent : /\ Longer(ToServer, inbox'[peer], sent)
                    /\ DOMAIN sent = DOMAIN msgs
                    /\ \A k \in DOMAIN msgs :
                           sent[k] = With(msgs[k], "msgId", nextCall + k - 1)
    BY <1>2 DEF Posted
  <2>2. \A k \in DOMAIN sent : Sound(sent[k])
    BY <2>1 DEF Sendable
  <2>3. CASE i \in DOMAIN inbox[peer]
    BY <1>2, <2>1, <2>3 DEF Letters, Longer, Keeps, ToServer
  <2>4. ASSUME NEW k \in DOMAIN sent, i = Len(inbox[peer]) + k
        PROVE  Sound(inbox'[d][i])
    BY <1>2, <2>1, <2>2, <2>4 DEF Longer, ToServer
  <2> QED
    BY <1>2, <2>1, <2>3, <2>4 DEF Longer, ToServer
<1> QED
  BY <1>1, <1>2 DEF Posted

\* What a model sends is sound.
AskFrom(q, from) == [cmd |-> "subscribe", query |-> q, from |-> from]

LEMMA WithKeeps ==
    ASSUME NEW r, NEW id, NEW f \in DOMAIN r, f # "msgId"
    PROVE  With(r, "msgId", id)[f] = r[f]
BY DEF With

LEMMA MessagesAreSound ==
    /\ \A q \in Queries : \A id : Sound(With(FindMessage(q), "msgId", id))
    /\ \A s, id : Sound(With(DropOf(s), "msgId", id))
    /\ \A q \in Queries, from \in 0..MaxRevision : \A id :
           Sound(With(AskFrom(q, from), "msgId", id))
    /\ \A k, id : \A values \in Partial :
           Sound(With([cmd |-> "update", key |-> k, values |-> values], "msgId", id))
    /\ \A k, id : Sound(With([cmd |-> "delete", key |-> k], "msgId", id))
    /\ \A t \in Table : \A id :
           Sound(With([cmd |-> "create", table |-> t, values |-> Blank], "msgId", id))
<1>1. ASSUME NEW q \in Queries, NEW id PROVE Sound(With(FindMessage(q), "msgId", id))
  BY DEF With, FindMessage, Sound
<1>2. ASSUME NEW s, NEW id PROVE Sound(With(DropOf(s), "msgId", id))
  BY DEF With, DropOf, Sound
<1>3. ASSUME NEW q \in Queries, NEW from \in 0..MaxRevision, NEW id
      PROVE  Sound(With(AskFrom(q, from), "msgId", id))
  BY DEF With, AskFrom, Sound
<1>4. ASSUME NEW k, NEW id, NEW values \in Partial
      PROVE  Sound(With([cmd |-> "update", key |-> k, values |-> values], "msgId", id))
  BY DEF With, Sound
<1>5. ASSUME NEW k, NEW id PROVE Sound(With([cmd |-> "delete", key |-> k], "msgId", id))
  BY DEF With, Sound
<1>6. ASSUME NEW t \in Table, NEW id
      PROVE  Sound(With([cmd |-> "create", table |-> t, values |-> Blank], "msgId", id))
  BY ValueAssumption DEF With, Sound
<1> QED
  BY <1>1, <1>2, <1>3, <1>4, <1>5, <1>6

\* The client knows what it receives.
LEMMA Understood ==
    ASSUME NEW m, NEW r, Receiving(m, r)
    PROVE  /\ \A kind \in {"find", "subscribe", "undo"} : Answers(m, kind) => letIn
           /\ m.cmd = "changes" => letIn
           /\ Answers(m, "find") => IsReply(m, "find")
           /\ Answers(m, "subscribe") => IsReply(m, "subscribe")
           /\ Answers(m, "authenticate") => ~letIn
           /\ 1 \in DOMAIN ToClient /\ m = ToClient[1]
<1>1. IF letIn THEN Expected(m) ELSE Answer(m) /\ Waits(m.reply_to, "authenticate")
  BY GreetedFirst
<1>2. 1 \in DOMAIN ToClient /\ m = ToClient[1]
  BY ReceivingMeans
<1> QED
  BY <1>1, <1>2 DEF Expected, Answers, Answer, Waits, IsReply

\* What is sent is sound, and what is remembered for it are records.
LEMMA PostKeeps ==
    ASSUME ServerSide, ClientSide, Letters, Kept, NEW msgs, IsSeq(msgs), NEW contexts,
           NEW r, Post(msgs, contexts, calls) \/ Post(msgs, contexts, Without(r)),
           Sendable(msgs),
           \A k \in DOMAIN msgs : contexts[k].kind = "undo" => contexts[k].record \in Record
    PROVE  Letters' /\ Kept'
<1>1. peer \in Connection /\ nextCall \in Nat /\ DOMAIN calls \subseteq 1..nextCall - 1
  BY DEF ClientSide
<1>2. Posted(msgs)
  BY <1>1, PostIsPosted
<1>3. Letters'
  BY <1>1, <1>2, LettersPosted
<1>4. PICK q : Calls(msgs, contexts, q)
  <2>1. CASE Post(msgs, contexts, calls)
    <3>1. PICK zero : zero = 0
      OBVIOUS
    <3> QED
      BY <2>1, <3>1, PostMeans
  <2>2. CASE Post(msgs, contexts, Without(r))
    BY <2>2, PostMeans
  <2> QED
    BY <2>1, <2>2
<1>5. /\ \A id \in DOMAIN calls' :
             id \in DOMAIN calls \/ \E k \in DOMAIN msgs : id = nextCall + k - 1
      /\ \A id \in DOMAIN calls' :
             calls'[id] = IF id >= nextCall THEN contexts[id - nextCall + 1]
                                            ELSE calls[id]
  BY <1>4 DEF Calls
<1>6. ASSUME NEW id \in DOMAIN calls', calls'[id].kind = "undo"
      PROVE  calls'[id].record \in Record
  <2>1. CASE id \in DOMAIN calls
    <3>1. ~(id >= nextCall)
      BY <1>1, <2>1
    <3> QED
      BY <1>5, <1>6, <2>1, <3>1 DEF Kept
  <2>2. ASSUME NEW k \in DOMAIN msgs, id = nextCall + k - 1
        PROVE  calls'[id].record \in Record
    <3>1. k \in Nat \ {0}
      BY DEF IsSeq
    <3>2. id >= nextCall /\ id - nextCall + 1 = k
      BY <1>1, <2>2, <3>1
    <3> QED
      BY <1>5, <1>6, <3>2
  <2> QED
    BY <1>5, <2>1, <2>2
<1> QED
  BY <1>3, <1>6 DEF Kept

\* The user.
LEMMA OnePostKeeps ==
    ASSUME SubscriptionInv, DataInv, NEW m, NEW context, NEW others, NEW r,
           Post(<<m>>, <<context>>, others), others = calls \/ others = Without(r),
           \A id : Sound(With(m, "msgId", id)),
           context.kind = "undo" => context.record \in Record
    PROVE  Letters' /\ Kept'
<1> DEFINE msgs == <<m>>
           contexts == <<context>>
<1>1. /\ IsSeq(msgs) /\ DOMAIN msgs = {1} /\ msgs[1] = m /\ contexts[1] = context
      /\ Post(msgs, contexts, calls) \/ Post(msgs, contexts, Without(r))
  BY ShortSequences
<1> HIDE DEF msgs, contexts
<1>2. ServerSide /\ ClientSide /\ Letters /\ Kept
  BY DEF SubscriptionInv, DataInv
<1>3. Sendable(msgs)
  BY <1>1 DEF Sendable
<1> QED
  BY <1>1, <1>2, <1>3, PostKeeps

\* Nothing is sent, but perhaps an answer taken.
LEMMA NoPostKeeps ==
    ASSUME SubscriptionInv, DataInv, NEW r, Post(<<>>, <<>>, Without(r))
    PROVE  Letters' /\ Kept'
<1> DEFINE none == <<>>
<1>1. IsSeq(none) /\ DOMAIN none = {} /\ Post(none, none, Without(r))
  BY ShortSequences
<1> HIDE DEF none
<1>2. Sendable(none)
  BY <1>1 DEF Sendable
<1> QED
  BY <1>1, <1>2, PostKeeps DEF SubscriptionInv, DataInv

LEMMA UserKeepsData ==
    ASSUME SubscriptionInv, DataInv, UserActs
    PROVE  DataInv'
<1>1. /\ target \in Queries /\ Letters /\ Kept /\ Rows /\ Heard /\ Listens
      /\ pendingReloads \in 0..MaxPendingReloads
  BY DEF DataInv
<1>2. UNCHANGED <<outbox, peer, subscriptions>>
  BY DEF UserActs, session, socketVars
<1>3. Heard' /\ Listens'
  BY <1>1, <1>2 DEF Heard, Listens, ToClient
<1>4. ASSUME NEW action, NEW q \in Queries, ReloadFor(action, q)
      PROVE  Letters' /\ Kept' /\ pendingReloads' \in 0..MaxPendingReloads
  <2>1. CASE UserMay(action)
    <3>1. /\ Post(<<FindMessage(q)>>, <<[kind |-> "find"]>>, calls)
          /\ UNCHANGED pendingReloads
      BY <1>4, <2>1 DEF ReloadFor, UserMay
    <3>2. \A id : Sound(With(FindMessage(q), "msgId", id))
      BY MessagesAreSound
    <3>3. [kind |-> "find"].kind # "undo"
      OBVIOUS
    <3> QED
      BY <1>1, <3>1, <3>2, <3>3, OnePostKeeps
  <2>2. CASE ~UserMay(action)
    <3>1. /\ UNCHANGED <<inbox, calls>> /\ pendingReloads' = pendingReloads + 1
          /\ pendingReloads < MaxPendingReloads
      BY <1>4, <2>2 DEF ReloadFor
    <3> QED
      BY <1>1, <3>1, ReloadsAssumption DEF Letters, Kept
  <2> QED
    BY <2>1, <2>2
<1>5. CASE Reload
  BY <1>1, <1>3, <1>4, <1>5 DEF Reload, DataInv, Rows
<1>6. ASSUME NEW q \in Queries, SetTarget(q) PROVE DataInv'
  BY <1>1, <1>3, <1>4, <1>6 DEF SetTarget, DataInv, Rows
<1>7. ASSUME NEW k \in DOMAIN shown, NEW f \in Field, NEW value \in Value,
             SetData(k, f, value)
      PROVE  DataInv'
  <2> DEFINE m == [cmd |-> "update", key |-> k, values |-> [g \in {f} |-> value]]
             context == [kind |-> "undo", record |-> shown[k]]
  <2>1. /\ shown' = [shown EXCEPT ![k].values[f] = value]
        /\ Post(<<m>>, <<context>>, calls)
        /\ UNCHANGED <<target, pendingReloads>>
    BY <1>7 DEF SetData
  <2>2. [g \in {f} |-> value] \in Partial
    <3>1. {f} \in (SUBSET Field) \ {{}} /\ [g \in {f} |-> value] \in [{f} -> Value]
      OBVIOUS
    <3> QED
      BY <3>1 DEF Partial
  <2>3. \A id : Sound(With(m, "msgId", id))
    BY <2>2, MessagesAreSound
  <2>4. shown[k] \in Record /\ shown[k].key = k
    BY <1>1 DEF Rows
  <2>5. context.record \in Record
    BY <2>4
  <2> HIDE DEF m, context
  <2>6. Letters' /\ Kept'
    BY <2>1, <2>3, <2>5, OnePostKeeps
  <2>7. Rows'
    <3>1. /\ DOMAIN shown' = DOMAIN shown
          /\ \A j \in DOMAIN shown : j # k => shown'[j] = shown[j]
          /\ shown'[k] = [shown[k] EXCEPT !.values[f] = value]
      BY <2>1
    <3>2. shown'[k] \in Record /\ shown'[k].key = k
      BY <2>4, <3>1 DEF Record
    <3> QED
      BY <1>1, <3>1, <3>2 DEF Rows
  <2> QED
    BY <1>1, <1>3, <2>1, <2>6, <2>7 DEF DataInv
<1>8. ASSUME NEW k \in DOMAIN shown, RemoveRow(k) PROVE DataInv'
  <2> DEFINE m == [cmd |-> "delete", key |-> k]
             context == [kind |-> "undo", record |-> shown[k]]
  <2>1. /\ shown' = DropRow(shown, k)
        /\ Post(<<m>>, <<context>>, calls)
        /\ UNCHANGED <<target, pendingReloads>>
    BY <1>8 DEF RemoveRow
  <2>2. \A id : Sound(With(m, "msgId", id))
    BY MessagesAreSound
  <2>3. context.record \in Record
    BY <1>1 DEF Rows
  <2> HIDE DEF m, context
  <2>4. Letters' /\ Kept'
    BY <2>1, <2>2, <2>3, OnePostKeeps
  <2>5. Rows'
    BY <1>1, <2>1 DEF Rows, DropRow, Restrict
  <2> QED
    BY <1>1, <1>3, <2>1, <2>4, <2>5 DEF DataInv
<1>9. CASE Add
  <2> DEFINE m == [cmd |-> "create", table |-> target.table, values |-> Blank]
  <2>1. Post(<<m>>, <<NoCall>>, calls) /\ UNCHANGED <<target, pendingReloads, shown>>
    BY <1>9 DEF Add, rowVars
  <2>2. target.table \in Table
    BY <1>1, QueriesAssumption DEF TableQuery
  <2>3. \A id : Sound(With(m, "msgId", id))
    BY <2>2, MessagesAreSound
  <2>4. NoCall.kind # "undo"
    BY DEF NoCall
  <2> HIDE DEF m
  <2>5. Letters' /\ Kept'
    BY <2>1, <2>3, <2>4, OnePostKeeps
  <2> QED
    BY <1>1, <1>3, <2>1, <2>5 DEF DataInv, Rows
<1> QED
  BY <1>5, <1>6, <1>7, <1>8, <1>9 DEF UserActs, User

\* The changes of a message make rows of rows.
LEMMA TriggeredRows ==
    ASSUME Rows, NEW changes, WholeChanges(changes),
           shown' = shown \/ shown' = Triggered(shown, changes)
    PROVE  Rows'
<1>1. CASE shown' = shown
  BY <1>1 DEF Rows
<1>2. CASE shown' = Triggered(shown, changes)
  <2> SUFFICES ASSUME NEW k \in DOMAIN shown' PROVE shown'[k] \in Record /\ shown'[k].key = k
    BY DEF Rows
  <2> DEFINE last == Latest(About(changes, k))
  <2>1. IF About(changes, k) = {}
        THEN k \in DOMAIN shown /\ shown'[k] = shown[k]
        ELSE last \in changes /\ last.record.key = k /\ shown'[k] = last.record
    BY <1>2, TriggeredMeans
  <2> HIDE DEF last
  <2>2. CASE About(changes, k) = {}
    BY <2>1, <2>2 DEF Rows
  <2>3. CASE About(changes, k) # {}
    BY <2>1, <2>3 DEF WholeChanges
  <2> QED
    BY <2>2, <2>3
<1> QED
  BY <1>1, <1>2

\* What a message leaves as it is.
LEMMA TakenKeepsData ==
    ASSUME NEW m, NEW r, Receiving(m, r), DataInv, UNCHANGED <<peer, target>>,
           pendingReloads' \in 0..MaxPendingReloads, Letters', Kept', Rows'
    PROVE  DataInv'
<1>1. Takes(1, r) /\ UNCHANGED subscriptions
  BY ReceivingMeans
<1>2. Heard'
  BY <1>1 DEF DataInv, Heard, Takes
<1>3. Listens'
  BY <1>1 DEF DataInv, Listens
<1> QED
  BY <1>2, <1>3 DEF DataInv

LEMMA ReceiveKeepsData ==
    ASSUME SubscriptionInv, DataInv, ClientReceives
    PROVE  DataInv'
<1>1. PICK m \in Received :
          /\ Taken /\ UNCHANGED <<vars, link, session>>
          /\ \/ OnConnected(m) \/ OnFound(m) \/ OnSubscribed(m) \/ OnWritten(m)
             \/ OnPush(m) \/ OnIgnored(m)
  BY DEF ClientReceives, Receive
<1>2. PICK r : Ends(m, r)
  BY DEF Ends
<1>3. Receiving(m, r)
  BY <1>1, <1>2 DEF Receiving, Received, ToClient
<1>4. 1 \in DOMAIN ToClient /\ m = ToClient[1] /\ Whole(m)
  BY <1>3, Understood DEF DataInv, Heard
<1>5. /\ target \in Queries /\ Letters /\ Kept /\ Rows
      /\ pendingReloads \in 0..MaxPendingReloads /\ pendingReloads \in Nat
      /\ ServerSide /\ ClientSide
  BY ReloadsAssumption DEF DataInv, SubscriptionInv
<1>6. CASE OnConnected(m)
  <2> DEFINE n == 1 + pendingReloads
             msgs == [i \in 1..n |-> FindMessage(target)]
             contexts == [i \in 1..n |-> [kind |-> "find"]]
  <2>1. /\ OnAuthenticated(m, msgs, contexts)
        /\ pendingReloads' = IF m.cmd = "reply" THEN 0 ELSE pendingReloads
        /\ UNCHANGED <<shown, target>>
    BY <1>6 DEF OnConnected
  <2>2. n \in Nat
    BY <1>5
  <2>3. IsSeq(msgs) /\ DOMAIN msgs = 1..n
    <3>1. msgs \in [1..n -> {FindMessage(target)}]
      OBVIOUS
    <3> HIDE DEF msgs, n
    <3> QED
      BY <2>2, <3>1, ListsAre
  <2>4. Sendable(msgs) /\ \A i \in DOMAIN msgs : contexts[i].kind # "undo"
    BY <1>5, <2>3, MessagesAreSound DEF Sendable
  <2> HIDE DEF msgs, contexts, n
  <2>5. /\ Post(msgs, contexts, Without(m.reply_to)) \/ Post(<<>>, <<>>, Without(m.reply_to))
        /\ UNCHANGED peer
    BY <2>1 DEF OnAuthenticated, Unconnect
  <2>6. Letters' /\ Kept'
    <3>1. CASE Post(msgs, contexts, Without(m.reply_to))
      BY <1>5, <2>3, <2>4, <3>1, PostKeeps
    <3>2. CASE Post(<<>>, <<>>, Without(m.reply_to))
      BY <3>2, NoPostKeeps
    <3> QED
      BY <2>5, <3>1, <3>2
  <2>7. pendingReloads' \in 0..MaxPendingReloads
    BY <1>5, <2>1, ReloadsAssumption
  <2>8. Rows'
    BY <1>5, <2>1 DEF Rows
  <2> QED
    BY <1>3, <2>1, <2>5, <2>6, <2>7, <2>8, TakenKeepsData
<1>7. CASE OnFound(m)
  <2> DEFINE from == LatestRevision(m.data.records)
  <2>1. /\ Answers(m, "find") /\ shown' = AsRows(m.data.records)
        /\ Resubscribe(subscription, <<>>, target, from, Without(m.reply_to))
        /\ UNCHANGED <<target, pendingReloads, peer>>
    BY <1>7 DEF OnFound, socketVars
  <2>2. WholeRecords(m.data.records)
    BY <1>3, <1>4, <2>1, Understood DEF Whole
  <2>3. from \in 0..MaxRevision
    BY <2>2, LatestRevisionIs
  <2> HIDE DEF from
  <2>4. PICK msgs, contexts, last :
            /\ Post(msgs, contexts, Without(m.reply_to))
            /\ AskAnew(msgs, contexts, last, target, from)
    BY <1>5, <2>1, ResubscribeMeans
  <2>5. /\ IsSeq(msgs) /\ last \in Nat /\ DOMAIN msgs = 1..last + 1
        /\ \A k \in 1..last : \E s : msgs[k] = DropOf(s)
        /\ \A k \in 1..last : contexts[k] = NoCall
        /\ msgs[last + 1] = AskFrom(target, from)
        /\ contexts[last + 1].kind = "subscribe"
    BY <2>4 DEF AskAnew, DropAll, AskFrom
  <2>6. \A k \in DOMAIN msgs : k \in 1..last \/ k = last + 1
    BY <2>5
  <2>7. Sendable(msgs)
    BY <1>5, <2>3, <2>5, <2>6, MessagesAreSound DEF Sendable
  <2>8. \A k \in DOMAIN msgs : contexts[k].kind # "undo"
    BY <2>5, <2>6 DEF NoCall
  <2>9. Letters' /\ Kept'
    BY <1>5, <2>4, <2>5, <2>7, <2>8, PostKeeps
  <2>10. Rows'
    <3>1. PICK records : records = m.data.records
      OBVIOUS
    <3>2. WholeRecords(records) /\ records \subseteq Record /\ shown' = AsRows(records)
      BY <2>1, <2>2, <3>1 DEF WholeRecords
    <3>3. \A k \in DOMAIN AsRows(records) :
              AsRows(records)[k] \in records /\ AsRows(records)[k].key = k
      BY <3>2, RowsAre
    <3> QED
      BY <3>2, <3>3 DEF Rows
  <2> QED
    BY <1>3, <1>5, <2>1, <2>9, <2>10, TakenKeepsData
<1>8. CASE OnSubscribed(m)
  <2>1. /\ Answers(m, "subscribe") /\ UNCHANGED <<target, pendingReloads, peer>>
        /\ shown' = shown \/ shown' = Triggered(shown, m.data.changes)
        /\ \/ Post(<<>>, <<>>, Without(m.reply_to))
           \/ Post(<<DropOf(m.data.subscription)>>, <<NoCall>>, Without(m.reply_to))
    BY <1>8 DEF OnSubscribed, Registered, Listen, DropOf, socketVars
  <2>2. IsReply(m, "subscribe") /\ ChangesIn(m) = m.data.changes
    BY <1>3, <2>1, Understood DEF ChangesIn, IsReply
  <2>3. WholeChanges(m.data.changes)
    BY <1>4, <2>2 DEF Whole
  <2>4. Rows'
    BY <1>5, <2>1, <2>3, TriggeredRows
  <2>5. Letters' /\ Kept'
    <3>1. CASE Post(<<>>, <<>>, Without(m.reply_to))
      BY <3>1, NoPostKeeps
    <3>2. CASE Post(<<DropOf(m.data.subscription)>>, <<NoCall>>, Without(m.reply_to))
      <4>1. PICK others : others = Without(m.reply_to)
        OBVIOUS
      <4>2. Post(<<DropOf(m.data.subscription)>>, <<NoCall>>, others)
        BY <3>2, <4>1
      <4>3. NoCall.kind # "undo"
        BY DEF NoCall
      <4>4. \A id : Sound(With(DropOf(m.data.subscription), "msgId", id))
        BY MessagesAreSound
      <4> QED
        BY <4>1, <4>2, <4>3, <4>4, OnePostKeeps
    <3> QED
      BY <2>1, <3>1, <3>2
  <2> QED
    BY <1>3, <1>5, <2>1, <2>4, <2>5, TakenKeepsData
<1>9. CASE OnWritten(m)
  <2>1. /\ Answers(m, "undo") /\ UNCHANGED <<target, pendingReloads, peer>>
        /\ shown' = shown \/ shown' = SetRow(shown, calls[m.reply_to].record)
        /\ Post(<<>>, <<>>, Without(m.reply_to))
    BY <1>9 DEF OnWritten, socketVars
  <2>2. calls[m.reply_to].record \in Record
    BY <1>5, <2>1 DEF Answers, Kept
  <2>3. Rows'
    BY <1>5, <2>1, <2>2 DEF Rows, SetRow, With
  <2>4. Letters' /\ Kept'
    BY <2>1, NoPostKeeps
  <2> QED
    BY <1>3, <1>5, <2>1, <2>3, <2>4, TakenKeepsData
<1>10. CASE OnPush(m)
  <2>1. /\ m.cmd = "changes" /\ UNCHANGED <<inbox, calls, target, pendingReloads, peer>>
        /\ shown' = shown \/ shown' = Triggered(shown, m.changes)
    BY <1>10 DEF OnPush, Listen, dispatchVars, socketVars
  <2>2. WholeChanges(m.changes)
    BY <1>4, <2>1 DEF Whole, ChangesIn
  <2>3. Rows'
    BY <1>5, <2>1, <2>2, TriggeredRows
  <2>4. Letters' /\ Kept'
    BY <1>5, <2>1 DEF Letters, Kept
  <2> QED
    BY <1>3, <1>5, <2>1, <2>3, <2>4, TakenKeepsData
<1>11. CASE OnIgnored(m)
  <2>1. UNCHANGED <<inbox, calls, target, pendingReloads, peer, shown>>
    BY <1>11 DEF OnIgnored, dispatchVars, socketVars, rowVars
  <2>2. Letters' /\ Kept' /\ Rows'
    BY <1>5, <2>1 DEF Letters, Kept, Rows
  <2> QED
    BY <1>3, <1>5, <2>1, <2>2, TakenKeepsData
<1> QED
  BY <1>1, <1>6, <1>7, <1>8, <1>9, <1>10, <1>11

LEMMA SocketKeepsData ==
    ASSUME SubscriptionInv, DataInv, SocketActs
    PROVE  DataInv'
<1>1. /\ target \in Queries /\ Letters /\ Kept /\ Rows /\ Heard /\ Listens
      /\ pendingReloads \in 0..MaxPendingReloads /\ ServerSide /\ peer \in Connection
  BY DEF DataInv, SubscriptionInv, ClientSide
<1>2. UNCHANGED <<target, pendingReloads, shown>>
  BY DEF SocketActs, rowVars
<1>3. CASE Established
  <2> DEFINE m == [cmd |-> "authenticate", pwd |-> password, msgId |-> nextCall]
  <2>1. PICK c : c = CHOOSE d \in Connection : link[d] = "new"
    OBVIOUS
  <2>2. c \in Connection /\ link[c] = "new"
    BY <1>3, <2>1 DEF Established
  <2>3. /\ peer' = c /\ inbox' = [inbox EXCEPT ![c] = <<m>>]
        /\ calls' = With(calls, nextCall, [kind |-> "authenticate"])
        /\ UNCHANGED <<outbox, subscriptions>>
    BY <1>3, <2>1 DEF Established
  <2>4. /\ outbox[c] = <<>> /\ DOMAIN subscriptions[c] = {}
    BY <1>1, <2>2 DEF ServerSide, ServerEnd
  <2>5. Heard' /\ Listens'
    BY <2>3, <2>4 DEF Heard, Listens, ToClient
  <2>6. m.cmd = "authenticate"
    OBVIOUS
  <2>7. Sound(m)
    BY <2>6 DEF Sound
  <2> HIDE DEF m
  <2>8. Letters'
    <3>1. \A d \in Connection : d # c => inbox'[d] = inbox[d]
      BY <1>1, <2>3 DEF ServerSide
    <3>2. inbox'[c] = <<m>> /\ DOMAIN <<m>> = {1} /\ <<m>>[1] = m
      BY <1>1, <2>2, <2>3, ShortSequences DEF ServerSide
    <3> QED
      BY <1>1, <2>7, <3>1, <3>2 DEF Letters
  <2>9. Kept'
    BY <1>1, <2>3 DEF Kept, With
  <2> QED
    BY <1>1, <1>2, <2>5, <2>8, <2>9 DEF DataInv, Rows
<1>4. CASE Lost \/ UserDisconnects
  <2>1. /\ outbox' = [outbox EXCEPT ![peer] = <<>>]
        /\ UNCHANGED <<peer, inbox, calls, subscriptions>>
    BY <1>4 DEF Lost, UserDisconnects, Unconnect, dispatchVars, session
  <2>2. outbox'[peer] = <<>>
    BY <1>1, <2>1 DEF ServerSide
  <2>3. Heard' /\ Listens' /\ Letters' /\ Kept'
    BY <1>1, <2>1, <2>2 DEF Heard, Listens, Letters, Kept, ToClient
  <2> QED
    BY <1>1, <1>2, <2>3 DEF DataInv, Rows
<1>5. CASE NotEstablished \/ ReconnectNow \/ \E pwd \in Passwords : UserConnects(pwd)
  <2>1. UNCHANGED <<peer, inbox, outbox, calls, subscriptions>>
    BY <1>5 DEF NotEstablished, ReconnectNow, UserConnects, dispatchVars, allServerVars,
                serverVars, session
  <2>2. Heard' /\ Listens' /\ Letters' /\ Kept'
    BY <1>1, <2>1 DEF Heard, Listens, Letters, Kept, ToClient
  <2> QED
    BY <1>1, <1>2, <2>2 DEF DataInv, Rows
<1> QED
  BY <1>3, <1>4, <1>5 DEF SocketActs, SocketStep

\* The server takes letters out, and what is left of a connection is nothing.
LEMMA ServerKeepsLetters ==
    ASSUME SubscriptionInv, Letters, ServerHandles \/ ServerActs
    PROVE  Letters'
<1>1. ServerSide
  BY DEF SubscriptionInv
<1>2. ASSUME NEW d \in Connection
      PROVE  \/ inbox'[d] = inbox[d] \/ inbox'[d] = <<>>
             \/ inbox[d] # <<>> /\ inbox'[d] = Tail(inbox[d])
  <2>1. ASSUME NEW c \in Connection, Handle(c)
        PROVE  \/ inbox'[d] = inbox[d]
               \/ inbox[d] # <<>> /\ inbox'[d] = Tail(inbox[d])
    BY <1>1, <2>1 DEF Handle, ServerSide
  <2>2. CASE OthersWrite \/ ServerStart
    BY <2>2 DEF OthersWrite, ServerStart, serverVars
  <2>3. ASSUME NEW C, Forgotten(C) PROVE inbox'[d] = inbox[d] \/ inbox'[d] = <<>>
    BY <2>3 DEF Forgotten
  <2> QED
    BY <2>1, <2>2, <2>3 DEF ServerHandles, ServerActs, ServerNotices, ServerRestarts,
                            Disconnect, ServerStop
<1>3. ASSUME NEW d \in Connection, NEW i \in DOMAIN inbox'[d]
      PROVE  \E j \in DOMAIN inbox[d] : inbox'[d][i] = inbox[d][j]
  <2>1. CASE inbox'[d] = inbox[d]
    BY <2>1
  <2>2. CASE inbox'[d] = <<>>
    BY <2>2
  <2>3. CASE inbox[d] # <<>> /\ inbox'[d] = Tail(inbox[d])
    <3>1. Rest(inbox[d], inbox'[d])
      BY <1>1, <2>3, TailIsRest DEF ServerSide, ServerEnd
    <3> QED
      BY <3>1 DEF Rest
  <2> QED
    BY <1>2, <2>1, <2>2, <2>3
<1> QED
  BY <1>3 DEF Letters

\* A push to a subscription that the client has asked for is whole.
LEMMA PushIsWhole ==
    ASSUME Listens, NEW s \in DOMAIN subscriptions[peer], NEW ch, Writes(ch), TypeOK',
           Matches(subscriptions[peer][s], ch)
    PROVE  Whole(Push(s, ch))
<1>1. subscriptions[peer][s].query \in Queries
  BY DEF Listens
<1>2. ch.record.key \in Key /\ ch.record.key[1] = subscriptions[peer][s].query.table
  BY DEF Matches, Selects, Writes, WritesTo
<1>3. ch.record.key \in Asked
  BY <1>1, <1>2 DEF Asked
<1>4. ch.record \in Record /\ ch.revision \in 0..MaxRevision
  BY <1>3 DEF Writes, WritesTo, TypeOK
<1>5. WholeChanges({ch})
  BY <1>4 DEF WholeChanges
<1> QED
  BY <1>5 DEF Whole, Push, IsReply, ChangesIn

\* So is an answer.
LEMMA AnswerIsWhole ==
    ASSUME NEW m, NEW a, NEW n, Serving(m, a, n), Settles(peer, m, a), Sound(m),
           TypeOK, OnePerRevision
    PROVE  Whole(a)
<1>1. a.cmd = "error" \/ IsReply(a, m.cmd)
  BY DEF Serving, Replies
<1>2. CASE Reads(m, a)
  <2>1. IsReply(a, "find") => WholeRecords(a.data.records)
    BY <1>1, <1>2, FindIsWhole DEF Reads, IsReply, Sound
  <2>2. IsReply(a, "subscribe") => WholeChanges(a.data.changes)
    <3>1. IsReply(a, "subscribe") => m.cmd = "subscribe"
      BY <1>1 DEF IsReply
    <3>2. m.cmd = "subscribe" => WholeChanges(Changes(m.query, m.from))
      BY ChangesAreWhole DEF Sound
    <3> QED
      BY <1>2, <3>1, <3>2 DEF Reads
  <2> QED
    BY <1>1, <2>1, <2>2 DEF Whole, IsReply, ChangesIn
<1>3. ASSUME NEW ch, Performs(m, a, ch) PROVE Whole(a)
  BY <1>1, <1>3 DEF Performs, Whole, IsReply
<1> QED
  BY <1>2, <1>3 DEF Settles

LEMMA ServerKeepsData ==
    ASSUME "rollback" \notin Faults, SubscriptionInv, SubscriptionInv', EngineInv, TypeOK',
           DataInv, Idle, ServerHandles \/ ServerActs
    PROVE  DataInv'
<1>1. /\ target \in Queries /\ Letters /\ Kept /\ Rows /\ Heard /\ Listens
      /\ pendingReloads \in 0..MaxPendingReloads /\ ServerSide /\ peer \in Connection
      /\ IInv /\ OnePerRevision /\ TypeOK
  BY DEF DataInv, SubscriptionInv, ClientSide, EngineInv, IInv
<1>2. UNCHANGED <<target, pendingReloads, shown, calls, peer>>
  BY DEF Idle, rowVars, dispatchVars, socketVars
<1>3. Kept' /\ Rows' /\ Letters'
  BY <1>1, <1>2, ServerKeepsLetters DEF Kept, Rows
<1>4. CASE link'[peer] # "open"
  <2>1. ServerEnd(peer)'
    BY <1>1, <1>2 DEF SubscriptionInv, ServerSide
  <2>2. outbox'[peer] = <<>> /\ DOMAIN subscriptions'[peer] = {}
    BY <1>2, <1>4, <2>1 DEF ServerEnd
  <2>3. Heard' /\ Listens'
    BY <1>2, <2>2 DEF Heard, Listens, ToClient
  <2> QED
    BY <1>1, <1>2, <1>3, <2>3 DEF DataInv
<1>5. CASE link'[peer] = "open"
  <2>1. Overhears \/ \E m, a, n : Serving(m, a, n) /\ Settles(peer, m, a)
    BY <1>1, <1>5, ServerMeans
  <2>2. ASSUME NEW i, Fresh(peer, i), NEW ch, Writes(ch), Announces(peer, ch),
               ~Answer(outbox'[peer][i])
        PROVE  Whole(outbox'[peer][i])
    <3>1. PICK s \in DOMAIN subscriptions[peer] :
             Matches(subscriptions[peer][s], ch) /\ outbox'[peer][i] = Push(s, ch)
      BY <2>2 DEF Announces
    <3> QED
      BY <1>1, <2>2, <3>1, PushIsWhole
  <2>3. ASSUME Keeps(outbox[peer], outbox'[peer]),
               \A i : Fresh(peer, i) => Whole(outbox'[peer][i])
        PROVE  Heard'
    <3>1. \A i \in DOMAIN outbox'[peer] : Whole(outbox'[peer][i])
      BY <1>1, <2>3 DEF Keeps, Fresh, Heard, ToClient
    <3>2. ToClient' = outbox'[peer]
      BY <1>2 DEF ToClient
    <3> QED
      BY <3>1, <3>2 DEF Heard, Whole
  <2>4. CASE Overhears
    <3>1. ASSUME NEW i, Fresh(peer, i) PROVE Whole(outbox'[peer][i])
      <4>1. ~Answer(outbox'[peer][i])
        BY <2>4, <3>1 DEF Overhears, OnlyPushed, Fresh, Answer
      <4> QED
        BY <2>2, <2>4, <3>1, <4>1 DEF Overhears, Informs, OnlyAnswered
    <3>2. Heard'
      BY <2>3, <2>4, <3>1 DEF Overhears, OnlyPushed
    <3>3. Listens'
      BY <1>1, <1>2, <2>4 DEF Overhears, Untouched, Listens
    <3> QED
      BY <1>1, <1>2, <1>3, <3>2, <3>3 DEF DataInv
  <2>5. ASSUME NEW m, NEW a, NEW n, Serving(m, a, n), Settles(peer, m, a) PROVE DataInv'
    <3>1. Sound(m)
      BY <1>1, <2>5 DEF Serving, Letters, Rest, ToServer
    <3>2. Answered(peer, a, n) /\ Serves(peer, m)
      BY <2>5 DEF Serving
    <3>3. ASSUME NEW i, Fresh(peer, i) PROVE Whole(outbox'[peer][i])
      <4>1. CASE i = n
        BY <1>1, <2>5, <3>1, <3>2, <4>1, AnswerIsWhole DEF Answered
      <4>2. CASE i # n
        <5>1. ~Answer(outbox'[peer][i])
          BY <3>2, <3>3, <4>2 DEF Answered, Fresh, Answer
        <5> QED
          BY <2>2, <2>5, <3>3, <5>1 DEF Settles, Performs, OnlyAnswered
      <4> QED
        BY <4>1, <4>2
    <3>4. Heard'
      BY <2>3, <3>2, <3>3 DEF Answered
    <3>5. Listens'
      <4>1. CASE Untouched(peer)
        BY <1>1, <1>2, <4>1 DEF Untouched, Listens
      <4>2. CASE m.cmd = "subscribe" /\ authenticated[peer]
        BY <1>1, <1>2, <3>1, <3>2, <4>2 DEF Serves, With, Sound, Listens
      <4>3. CASE m.cmd = "unsubscribe" /\ authenticated[peer]
        BY <1>1, <1>2, <3>2, <4>3 DEF Serves, Listens
      <4> QED
        BY <3>1, <3>2, <4>1, <4>2, <4>3 DEF Serves, Sound
    <3> QED
      BY <1>1, <1>2, <1>3, <3>4, <3>5 DEF DataInv
  <2> QED
    BY <2>1, <2>4, <2>5
<1> QED
  BY <1>4, <1>5

-----------------------------------------------------------------------------
(* The types hold in every run. *)

\* What SubscriptionInv leaves out of ConnectionTypeOK.
SocketTypes ==
    /\ socket \in {"unconnected", "connecting", "connected"}
    /\ shouldBeConnected \in BOOLEAN /\ letIn \in BOOLEAN /\ reconnectQueued \in BOOLEAN
    /\ pendingSubscriptions \subseteq Nat \ {0}
    /\ \A s \in DOMAIN clientSubscriptions : clientSubscriptions[s] # 0

LEMMA ReceiveKeepsTypes ==
    ASSUME SocketTypes, nextSubscription \in Nat \ {0}, NEW m,
           OnConnected(m) \/ OnFound(m) \/ OnSubscribed(m) \/ OnWritten(m)
               \/ OnPush(m) \/ OnIgnored(m)
    PROVE  SocketTypes'
<1>1. CASE OnConnected(m)
  BY <1>1 DEF OnConnected, OnAuthenticated, Unconnect, subscriptionVars, SocketTypes
<1>2. CASE OnFound(m)
  <2>1. /\ UNCHANGED socketVars
        /\ pendingSubscriptions' = (pendingSubscriptions \ {subscription}) \cup {nextSubscription}
        /\ clientSubscriptions' = Restrict(clientSubscriptions,
                                      DOMAIN clientSubscriptions \ IdsOf(subscription))
    BY <1>2 DEF OnFound, Resubscribe
  <2> QED
    BY <2>1 DEF SocketTypes, socketVars, Restrict
<1>3. CASE OnSubscribed(m)
  <2>1. PICK object : object = calls[m.reply_to].object
    OBVIOUS
  <2>2. /\ UNCHANGED socketVars
        /\ \/ /\ object \in pendingSubscriptions
              /\ clientSubscriptions' = With(clientSubscriptions, m.data.subscription, object)
              /\ pendingSubscriptions' = pendingSubscriptions \ {object}
           \/ UNCHANGED <<clientSubscriptions, pendingSubscriptions>>
    BY <1>3, <2>1 DEF OnSubscribed, Registered, Listen
  <2> QED
    BY <2>2 DEF SocketTypes, socketVars, With
<1>4. CASE OnWritten(m) \/ OnPush(m) \/ OnIgnored(m)
  BY <1>4 DEF OnWritten, OnPush, OnIgnored, Listen, dispatchVars, subscriptionVars,
              socketVars, SocketTypes
<1> QED
  BY <1>1, <1>2, <1>3, <1>4

LEMMA SocketTypesStep ==
    ASSUME SocketTypes, nextSubscription \in Nat \ {0}, [ModelNext]_modelVars
    PROVE  SocketTypes'
<1>1. CASE ClientReceives
  BY <1>1, ReceiveKeepsTypes DEF ClientReceives, Receive
<1>2. CASE SocketActs
  <2>1. UNCHANGED subscriptionVars
    BY <1>2 DEF SocketActs, SocketStep, UserConnects, Established, NotEstablished, Lost,
                UserDisconnects, ReconnectNow, dispatchVars
  <2>2. /\ socket' \in {"unconnected", "connecting", "connected"}
        /\ shouldBeConnected' \in BOOLEAN /\ letIn' \in BOOLEAN
        /\ reconnectQueued' \in BOOLEAN
    BY <1>2 DEF SocketActs, SocketStep, UserConnects, Established, NotEstablished, Lost,
                UserDisconnects, ReconnectNow, Unconnect, ConnectToHost, SocketTypes
  <2> QED
    BY <2>1, <2>2 DEF SocketTypes, subscriptionVars
<1>3. CASE ServerHandles \/ UserActs \/ ServerActs \/ UNCHANGED modelVars
  BY <1>3 DEF ServerHandles, UserActs, ServerActs, modelVars, socketVars, dispatchVars,
              subscriptionVars, SocketTypes
<1> QED
  BY <1>1, <1>2, <1>3 DEF ModelNext

\* All that is known of the types.
TypesInv == SubscriptionInv /\ EngineInv /\ DataInv /\ SocketTypes

LEMMA TypesStep ==
    ASSUME "rollback" \notin Faults, TypesInv, [ModelNext]_modelVars
    PROVE  TypesInv' /\ TypeOK'
<1>1. /\ SubscriptionInv /\ EngineInv /\ DataInv /\ SocketTypes
      /\ ServerSide /\ Letters /\ nextSubscription \in Nat \ {0} /\ pendingReloads \in Nat
  BY ReloadsAssumption DEF TypesInv, SubscriptionInv, ClientSide, DataInv
<1>2. SubscriptionInv'
  BY <1>1, ModelStep
<1>3. EngineInv' /\ TypeOK'
  BY <1>1, EngineStep
<1>4. SocketTypes'
  BY <1>1, SocketTypesStep
<1>5. DataInv'
  <2>1. CASE ServerHandles \/ ServerActs
    BY <1>1, <1>2, <1>3, <2>1, ServerKeepsData DEF ServerHandles, ServerActs, Idle
  <2>2. CASE UNCHANGED modelVars
    BY <1>1, <2>2 DEF modelVars, allServerVars, serverVars, session, socketVars,
                      dispatchVars, rowVars, DataInv, Letters, Heard, ToClient, Listens,
                      Rows, Kept
  <2> QED
    BY <1>1, <2>1, <2>2, UserKeepsData, ReceiveKeepsData, SocketKeepsData DEF ModelNext
<1> QED
  BY <1>2, <1>3, <1>4, <1>5 DEF TypesInv

LEMMA TypesStart == ModelInit => TypesInv
<1> SUFFICES ASSUME ModelInit PROVE TypesInv
  OBVIOUS
<1>1. SubscriptionInv /\ EngineInv
  BY ModelStarts, EngineStarts
<1>2. PICK c \in Connection :
         /\ target \in Queries
         /\ subscriptions = [d \in Connection |-> <<>>]
         /\ outbox = [d \in Connection |-> <<>>]
         /\ inbox = [Nothing EXCEPT ![c] = <<With(FindMessage(target), "msgId", 1)>>]
         /\ Connected(c) /\ pendingSubscriptions = {} /\ clientSubscriptions = <<>>
         /\ calls = <<[kind |-> "find"]>> /\ shown = <<>> /\ pendingReloads = 0
  BY DEF ModelInit, ServesFirst, Nothing
<1>3. peer = c /\ SocketTypes
  <2>1. /\ peer = c /\ socket = "connected" /\ shouldBeConnected = TRUE
        /\ letIn = TRUE /\ reconnectQueued = FALSE
    BY <1>2 DEF Connected
  <2>2. DOMAIN clientSubscriptions = {}
    BY <1>2, ShortSequences
  <2> QED
    BY <1>2, <2>1, <2>2 DEF SocketTypes
<1>4. Heard /\ Listens
  BY <1>2, <1>3 DEF Heard, Listens, ToClient
<1>5. Letters
  <2>1. Sound(With(FindMessage(target), "msgId", 1))
    BY <1>2, MessagesAreSound
  <2> DEFINE m == With(FindMessage(target), "msgId", 1)
  <2> HIDE DEF m
  <2>2. \A d \in Connection : inbox[d] = <<>> \/ inbox[d] = <<m>>
    BY <1>2 DEF Nothing, m
  <2>3. DOMAIN <<m>> = {1} /\ <<m>>[1] = m /\ DOMAIN <<>> = {}
    BY ShortSequences
  <2>4. Sound(m)
    BY <2>1 DEF m
  <2> QED
    BY <2>2, <2>3, <2>4 DEF Letters
<1>6. Kept /\ Rows
  BY <1>2 DEF Kept, Rows
<1> QED
  BY <1>1, <1>2, <1>3, <1>4, <1>5, <1>6, ReloadsAssumption DEF TypesInv, DataInv

LEMMA TypesMean == TypesInv => ModelTypeOK
<1> SUFFICES ASSUME TypesInv PROVE ModelTypeOK
  OBVIOUS
<1>1. \A k \in DOMAIN shown :
          shown[k] \in [key : {k}, values : [Field -> Value],
                        latestRevision : 0..MaxRevision]
  BY DEF TypesInv, DataInv, Rows, Record
<1>2. /\ peer \in Connection /\ isConnected = (socket = "connected" /\ letIn)
      /\ DOMAIN calls \subseteq 0..nextCall - 1
      /\ subscription \in 0..nextSubscription - 1 /\ nextSubscription \in Nat \ {0}
  BY DEF TypesInv, SubscriptionInv, ClientSide
<1>3. pendingSubscriptions \subseteq 1..nextSubscription - 1
  BY <1>2 DEF TypesInv, SubscriptionInv, ClientSide, SocketTypes
<1>4. Range(clientSubscriptions) \subseteq 1..nextSubscription - 1
  <2>1. \A s \in DOMAIN clientSubscriptions :
            clientSubscriptions[s] = subscription /\ clientSubscriptions[s] # 0
    BY DEF TypesInv, SubscriptionInv, ClientSide, SocketTypes
  <2> QED
    BY <1>2, <2>1 DEF Range
<1> QED
  BY <1>1, <1>2, <1>3, <1>4 DEF ModelTypeOK, ConnectionTypeOK, TypesInv, DataInv, SocketTypes

\* A row is one whole record under its own id, the object the model listens with
\* is one it was given, and the connection is what those who ask are told, as
\* long as nothing is rolled back after a push of it (AbstractRecordModel.cpp:
\* 129-184, ServerConnection.cpp:332-339).
THEOREM RowsTyped ==
    ASSUME "rollback" \notin Faults
    PROVE  ModelSpec => []ModelTypeOK
<1>1. ModelInit => TypesInv
  BY TypesStart
<1>2. TypesInv /\ [ModelNext]_modelVars => TypesInv'
  BY TypesStep
<1>3. TypesInv => ModelTypeOK
  BY TypesMean
<1> QED
  BY <1>1, <1>2, <1>3, PTL DEF ModelSpec
\* What Post() remembers: what it did, and what the messages are sent for.
LEMMA PostRemembers ==
    ASSUME ServerSide, ClientSide, NEW msgs, IsSeq(msgs), NEW contexts, NEW r,
           Post(msgs, contexts, calls) \/ Post(msgs, contexts, Without(r)),
           NEW id \in DOMAIN calls'
    PROVE  \/ id \in DOMAIN calls /\ calls'[id] = calls[id]
           \/ \E k \in DOMAIN msgs : calls'[id] = contexts[k]
<1>1. peer \in Connection /\ nextCall \in Nat /\ DOMAIN calls \subseteq 1..nextCall - 1
  BY DEF ClientSide
<1>2. PICK q : Calls(msgs, contexts, q)
  <2>1. CASE Post(msgs, contexts, calls)
    <3>1. PICK zero : zero = 0
      OBVIOUS
    <3> QED
      BY <2>1, <3>1, PostMeans
  <2>2. CASE Post(msgs, contexts, Without(r))
    BY <2>2, PostMeans
  <2> QED
    BY <2>1, <2>2
<1>3. /\ id \in DOMAIN calls \/ \E k \in DOMAIN msgs : id = nextCall + k - 1
      /\ calls'[id] = IF id >= nextCall THEN contexts[id - nextCall + 1] ELSE calls[id]
  BY <1>2 DEF Calls
<1>4. CASE id \in DOMAIN calls
  <2>1. ~(id >= nextCall)
    BY <1>1, <1>4
  <2> QED
    BY <1>3, <1>4, <2>1
<1>5. ASSUME NEW k \in DOMAIN msgs, id = nextCall + k - 1
      PROVE  calls'[id] = contexts[k]
  <2>1. k \in Nat \ {0}
    BY DEF IsSeq
  <2>2. id >= nextCall /\ id - nextCall + 1 = k
    BY <1>1, <1>5, <2>1
  <2> QED
    BY <1>3, <2>2
<1> QED
  BY <1>3, <1>4, <1>5

-----------------------------------------------------------------------------
(* Rows do not go back. *)

\* The revision of the newest change of record k.
Age(k) == Newest(ChangesOf(k))

\* The records message a tells, and those the client holds: the rows and what
\* would be put back.
RecordsIn(a) ==
    IF IsReply(a, "find") THEN a.data.records
    ELSE IF a.cmd = "changes" \/ IsReply(a, "subscribe")
         THEN {ch.record : ch \in ChangesIn(a)} ELSE {}
Undoes(id, r) == id \in DOMAIN calls /\ calls[id].kind = "undo" /\ r = calls[id].record
Holds(r) == \/ \E k \in DOMAIN shown : r = shown[k]
            \/ \E id : Undoes(id, r)

\* Record x is no newer a state than record y.
Precedes(x, y) == x.key = y.key => x.latestRevision <= y.latestRevision

\* What is held and what is under way is no newer than the tables, and each
\* record is told in the order of its states, behind those that are held.
Aged == \A r : Holds(r) => r.latestRevision <= Age(r.key)
InOrder ==
    \A i \in DOMAIN ToClient : \A x \in RecordsIn(ToClient[i]) :
        /\ x.latestRevision <= Age(x.key)
        /\ \A r : Holds(r) => Precedes(r, x)
        /\ \A j \in DOMAIN ToClient : i < j =>
               \A y \in RecordsIn(ToClient[j]) : Precedes(x, y)
AgesInv == Aged /\ (InSession => InOrder)

\* A record is a key that is asked for and a revision.
LEMMA RecordsAreOfKeys ==
    ASSUME NEW r \in Record
    PROVE  r.key \in Asked /\ r.key \in Key /\ r.latestRevision \in Nat
BY BoundAssumption DEF Record, Asked

LEMMA HeldAreRecords ==
    ASSUME DataInv, NEW r, Holds(r)
    PROVE  r \in Record
BY DEF DataInv, Rows, Kept, Holds, Undoes

LEMMA ToldAreRecords ==
    ASSUME NEW a, Whole(a), NEW x \in RecordsIn(a)
    PROVE  x \in Record
BY DEF Whole, RecordsIn, WholeRecords, WholeChanges

\* Records of clients apart, whose changes the constructor of the engine
\* removes, a record's newest change is never older than it was.
LEMMA AgesGrow ==
    ASSUME EngineInv, TypeOK', ServerSide, Letters, [ModelNext]_modelVars,
           NEW k \in Key \ ClientKey
    PROVE  Age(k) \in Nat /\ Age(k)' \in Nat /\ Age(k) <= Age(k)'
<1>1. [Next]_vars
  BY ModelStepIsEngineStep
<1>2. ChangesOf(k) \subseteq ChangesOf(k)'
  <2>1. change \subseteq change' \/ PurgeClientChanges
    BY <1>1 DEF Next, vars, Create, Update, Delete, Stop, PurgeClients, InsertChange
  <2> QED
    BY <2>1 DEF PurgeClientChanges, ChangesOf
<1>3. PICK old, new : old = ChangesOf(k) /\ new = ChangesOf(k)'
  OBVIOUS
<1>4. old \subseteq Change /\ new \subseteq Change /\ old \subseteq new
  BY <1>2, <1>3 DEF EngineInv, IInv, TypeOK, ChangesOf
<1>5. Age(k) = Newest(old) /\ Age(k)' = Newest(new)
  BY <1>3 DEF Age, Newest
<1>6. /\ Newest(old) \in 0..MaxRevision /\ Newest(new) \in 0..MaxRevision
      /\ \A c \in new : c.revision <= Newest(new)
      /\ Newest(old) = 0 \/ \E c \in old : c.revision = Newest(old)
  BY <1>4, NewestIsMax
<1> QED
  BY <1>4, <1>5, <1>6, BoundAssumption

\* What a step of the server tells the client is as it is in the tables, or it
\* is the record that was written.
Dated ==
    \/ /\ Still
       /\ \A i : Fresh(peer, i) => \A x \in RecordsIn(outbox'[peer][i]) :
              x.latestRevision = Age(x.key)
    \/ \E ch : /\ Writes(ch)
               /\ \A i : Fresh(peer, i) => \A x \in RecordsIn(outbox'[peer][i]) :
                      x = ch.record

LEMMA ReadIsDated ==
    ASSUME NEW m, NEW a, Reads(m, a), a.cmd = "error" \/ IsReply(a, m.cmd),
           NEW x \in RecordsIn(a)
    PROVE  x.latestRevision = Age(x.key)
<1>1. CASE IsReply(a, "find")
  <2>1. x \in Find(m.query)
    BY <1>1 DEF RecordsIn, Reads
  <2> QED
    BY <2>1 DEF Find, Found, Age
<1>2. CASE IsReply(a, "subscribe")
  <2>1. PICK ch \in Changes(m.query, m.from) : x = ch.record
    BY <1>2 DEF RecordsIn, Reads, IsReply, ChangesIn
  <2>2. PICK k : ch.record = Found(k)
    BY <2>1, ChangesAreTold DEF AsTold
  <2> QED
    BY <2>1, <2>2 DEF Found, Age
<1> QED
  BY <1>1, <1>2 DEF RecordsIn, IsReply

LEMMA WrittenIsDated ==
    ASSUME NEW ch, Announces(peer, ch), NEW i, Fresh(peer, i), NEW x,
           x \in RecordsIn(outbox'[peer][i]),
           \/ ~Answer(outbox'[peer][i])
           \/ ~IsReply(outbox'[peer][i], "find") /\ ~IsReply(outbox'[peer][i], "subscribe")
    PROVE  x = ch.record
<1>1. PICK a : a = outbox'[peer][i]
  OBVIOUS
<1>2. ~Answer(a)
  BY <1>1 DEF RecordsIn, Answer
<1>3. PICK s : a = Push(s, ch)
  BY <1>1, <1>2 DEF Announces
<1> QED
  BY <1>1, <1>3 DEF RecordsIn, Push, IsReply, ChangesIn

LEMMA FreshIsDated ==
    ASSUME \/ Overhears
           \/ \E m, a, n : Serving(m, a, n) /\ Settles(peer, m, a)
    PROVE  Dated
<1>1. CASE Overhears
  <2>1. ASSUME NEW i, Fresh(peer, i) PROVE outbox'[peer][i].cmd = "changes"
    BY <1>1, <2>1 DEF Overhears, OnlyPushed, Fresh
  <2>2. CASE Still /\ OnlyAnswered(peer)
    <3>1. \A i : ~Fresh(peer, i)
      BY <2>1, <2>2 DEF OnlyAnswered, Answer
    <3> QED
      BY <2>2, <3>1 DEF Dated
  <2>3. ASSUME NEW ch, Writes(ch), Announces(peer, ch) PROVE Dated
    BY <2>1, <2>3, WrittenIsDated DEF Dated, Answer
  <2> QED
    BY <1>1, <2>2, <2>3 DEF Overhears, Informs
<1>2. ASSUME NEW m, NEW a, NEW n, Serving(m, a, n), Settles(peer, m, a) PROVE Dated
  <2>1. /\ Answered(peer, a, n) /\ outbox'[peer][n] = a
        /\ a.cmd = "error" \/ IsReply(a, m.cmd)
    BY <1>2 DEF Serving, Replies, Answered
  <2>2. ASSUME NEW i, Fresh(peer, i) PROVE i = n \/ outbox'[peer][i].cmd = "changes"
    BY <2>1, <2>2 DEF Answered, Fresh
  <2>3. CASE Reads(m, a) /\ OnlyAnswered(peer)
    <3>1. \A i : Fresh(peer, i) => i = n
      BY <2>2, <2>3 DEF OnlyAnswered, Answer
    <3>2. \A x \in RecordsIn(a) : x.latestRevision = Age(x.key)
      BY <2>1, <2>3, ReadIsDated
    <3> QED
      BY <2>1, <2>3, <3>1, <3>2 DEF Dated, Reads
  <2>4. ASSUME NEW ch, Performs(m, a, ch), Announces(peer, ch) PROVE Dated
    <3>1. ASSUME NEW i, Fresh(peer, i), NEW x \in RecordsIn(outbox'[peer][i])
          PROVE  x = ch.record
      <4>1. CASE i = n
        BY <2>1, <2>4, <3>1, <4>1, WrittenIsDated DEF Performs
      <4>2. CASE i # n
        BY <2>2, <2>4, <3>1, <4>2, WrittenIsDated DEF Answer
      <4> QED
        BY <4>1, <4>2
    <3> QED
      BY <2>4, <3>1 DEF Dated, Performs
  <2> QED
    BY <1>2, <2>3, <2>4 DEF Settles
<1> QED
  BY <1>1, <1>2

\* How old the told records are.
LEMMA DatedIsNew ==
    ASSUME Dated, EngineInv, TypeOK', Heard', peer' = peer
    PROVE  /\ \A i : Fresh(peer, i) => \A x \in RecordsIn(outbox'[peer][i]) :
                  /\ x \in Record
                  /\ Age(x.key) <= x.latestRevision /\ x.latestRevision <= Age(x.key)'
           /\ \A i, j : Fresh(peer, i) /\ Fresh(peer, j) =>
                  \A x \in RecordsIn(outbox'[peer][i]), y \in RecordsIn(outbox'[peer][j]) :
                      Precedes(x, y)
<1>1. ASSUME NEW i, Fresh(peer, i), NEW x \in RecordsIn(outbox'[peer][i]) PROVE x \in Record
  <2>1. PICK a : a = outbox'[peer][i]
    OBVIOUS
  <2>2. Whole(a)
    BY <1>1, <2>1 DEF Heard, Fresh, ToClient, Whole
  <2> QED
    BY <1>1, <2>1, <2>2, ToldAreRecords
<1>2. \A r \in Record : r.key \in Key /\ r.latestRevision \in Nat
  BY RecordsAreOfKeys
<1>3. CASE /\ Still
           /\ \A i : Fresh(peer, i) => \A x \in RecordsIn(outbox'[peer][i]) :
                  x.latestRevision = Age(x.key)
  <2>1. \A k : Age(k)' = Age(k)
    BY <1>3 DEF Still, Age, ChangesOf, Newest
  <2> QED
    BY <1>1, <1>2, <1>3, <2>1 DEF Precedes
<1>4. ASSUME NEW ch, Writes(ch),
             \A i : Fresh(peer, i) => \A x \in RecordsIn(outbox'[peer][i]) : x = ch.record
      PROVE  /\ \A i : Fresh(peer, i) => \A x \in RecordsIn(outbox'[peer][i]) :
                    Age(x.key) <= x.latestRevision /\ x.latestRevision <= Age(x.key)'
             /\ \A i, j : Fresh(peer, i) /\ Fresh(peer, j) =>
                    \A x \in RecordsIn(outbox'[peer][i]), y \in RecordsIn(outbox'[peer][j]) :
                        Precedes(x, y)
  <2> DEFINE k == ch.record.key
  <2>1. /\ Age(k) <= ch.record.latestRevision
        /\ ch.record.latestRevision <= lastRevision + 1
        /\ Newest(ChangesOf(k)') = lastRevision + 1
    BY <1>4 DEF Writes, WritesTo, Age
  <2>2. Age(k)' = Newest(ChangesOf(ch.record.key)')
    BY DEF Age, Newest
  <2>3. Age(ch.record.key)' = lastRevision + 1
    BY <2>1, <2>2
  <2>4. ASSUME NEW i, Fresh(peer, i), NEW x \in RecordsIn(outbox'[peer][i])
        PROVE  Age(x.key) <= x.latestRevision /\ x.latestRevision <= Age(x.key)'
    <3>1. x = ch.record
      BY <1>4, <2>4
    <3> QED
      BY <2>1, <2>3, <3>1
  <2>5. ASSUME NEW i, NEW j, Fresh(peer, i), Fresh(peer, j),
               NEW x \in RecordsIn(outbox'[peer][i]), NEW y \in RecordsIn(outbox'[peer][j])
        PROVE  Precedes(x, y)
    <3>1. x = y /\ x.latestRevision \in Nat
      BY <1>1, <1>2, <1>4, <2>5
    <3> QED
      BY <3>1 DEF Precedes
  <2> QED
    BY <2>4, <2>5
<1> QED
  BY <1>1, <1>3, <1>4 DEF Dated

\* No query is about the list of clients, whose changes the server forgets.
NoClients == \A q \in Queries : q.table # ClientTable

LEMMA AskedIsNoClient ==
    ASSUME NoClients, NEW k \in Asked
    PROVE  k \in Key \ ClientKey
BY DEF NoClients, Asked, ClientKey

LEMMA ServerKeepsAges ==
    ASSUME "rollback" \notin Faults, NoClients, SubscriptionInv, EngineInv, TypeOK',
           DataInv, DataInv', AgesInv, Idle, ServerHandles \/ ServerActs
    PROVE  AgesInv'
<1>1. /\ ServerSide /\ Letters /\ Heard /\ Heard' /\ IInv /\ [ModelNext]_modelVars
  BY DEF SubscriptionInv, DataInv, EngineInv, ModelNext
<1>2. UNCHANGED <<shown, calls, peer, socket>>
  BY DEF Idle, rowVars, dispatchVars, socketVars
<1>3. ASSUME NEW r PROVE Holds(r)' <=> Holds(r)
  BY <1>2 DEF Holds, Undoes
<1>4. \A r \in Record : r.key \in Key \ ClientKey /\ r.latestRevision \in Nat
  BY RecordsAreOfKeys, AskedIsNoClient
<1>5. \A k \in Key \ ClientKey : Age(k) \in Nat /\ Age(k)' \in Nat /\ Age(k) <= Age(k)'
  BY <1>1, AgesGrow
<1>6. ASSUME NEW r, Holds(r)'
      PROVE  r \in Record /\ r.latestRevision <= Age(r.key) /\ r.latestRevision <= Age(r.key)'
  <2>1. r \in Record /\ r.latestRevision <= Age(r.key)
    BY <1>3, <1>6, HeldAreRecords DEF AgesInv, Aged
  <2> QED
    BY <1>4, <1>5, <2>1
<1>7. Aged'
  BY <1>6 DEF Aged
<1>8. ASSUME InSession' PROVE InOrder'
  <2>1. link'[peer] = "open" /\ socket = "connected"
    BY <1>2, <1>8 DEF InSession
  <2>2. /\ link[peer] = "open"
        /\ Overhears \/ \E m, a, n : Serving(m, a, n) /\ Settles(peer, m, a)
    BY <1>1, <2>1, ServerMeans
  <2>3. InOrder /\ Dated
    BY <2>1, <2>2, FreshIsDated DEF AgesInv, InSession
  <2>4. /\ Keeps(outbox[peer], outbox'[peer])
        /\ \A i \in DOMAIN outbox'[peer] : i \in Nat
    BY <2>2 DEF Overhears, OnlyPushed, Serving, Answered, IsSeq
  <2>5. \A i \in DOMAIN outbox[peer] : \A x \in RecordsIn(outbox[peer][i]) :
            x \in Record /\ x.latestRevision <= Age(x.key) /\ x.latestRevision <= Age(x.key)'
    <3>1. \A i \in DOMAIN outbox[peer] : \A x \in RecordsIn(outbox[peer][i]) :
              x \in Record /\ x.latestRevision <= Age(x.key)
      BY <1>1, <2>3, ToldAreRecords DEF Heard, ToClient, InOrder
    <3> QED
      BY <1>4, <1>5, <3>1
  <2>6. /\ \A i : Fresh(peer, i) => \A x \in RecordsIn(outbox'[peer][i]) :
               /\ x \in Record
               /\ Age(x.key) <= x.latestRevision /\ x.latestRevision <= Age(x.key)'
        /\ \A i, j : Fresh(peer, i) /\ Fresh(peer, j) =>
               \A x \in RecordsIn(outbox'[peer][i]), y \in RecordsIn(outbox'[peer][j]) :
                   Precedes(x, y)
    BY <1>1, <1>2, <2>3, DatedIsNew
  <2>7. ASSUME NEW i \in DOMAIN outbox'[peer], NEW x \in RecordsIn(outbox'[peer][i])
        PROVE  /\ x.latestRevision <= Age(x.key)'
               /\ \A r : Holds(r)' => Precedes(r, x)
    <3>1. CASE i \in DOMAIN outbox[peer]
      BY <1>3, <2>3, <2>4, <2>5, <2>7, <3>1 DEF Keeps, InOrder, ToClient
    <3>2. CASE Fresh(peer, i)
      <4>1. /\ x \in Record /\ Age(x.key) <= x.latestRevision
            /\ x.latestRevision <= Age(x.key)'
        BY <2>6, <2>7, <3>2
      <4>2. ASSUME NEW r, Holds(r)', r.key = x.key PROVE r.latestRevision <= x.latestRevision
        BY <1>4, <1>5, <1>6, <4>1, <4>2
      <4> QED
        BY <4>1, <4>2 DEF Precedes
    <3> QED
      BY <3>1, <3>2 DEF Fresh
  <2>8. ASSUME NEW i \in DOMAIN outbox'[peer], NEW j \in DOMAIN outbox'[peer], i < j,
               NEW x \in RecordsIn(outbox'[peer][i]), NEW y \in RecordsIn(outbox'[peer][j])
        PROVE  Precedes(x, y)
    <3>1. CASE i \in DOMAIN outbox[peer] /\ j \in DOMAIN outbox[peer]
      BY <2>3, <2>4, <2>8, <3>1 DEF Keeps, InOrder, ToClient
    <3>2. CASE i \in DOMAIN outbox[peer] /\ Fresh(peer, j)
      <4>1. x \in Record /\ x.latestRevision <= Age(x.key)
        BY <2>4, <2>5, <2>8, <3>2 DEF Keeps
      <4>2. y \in Record /\ Age(y.key) <= y.latestRevision
        BY <2>6, <2>8, <3>2
      <4>3. ASSUME x.key = y.key PROVE x.latestRevision <= y.latestRevision
        <5>1. PICK age : age = Age(x.key)
          OBVIOUS
        <5>2. age \in Nat /\ x.latestRevision <= age /\ age <= y.latestRevision
          BY <1>4, <1>5, <4>1, <4>2, <4>3, <5>1
        <5> QED
          BY <1>4, <4>1, <4>2, <5>2
      <4> QED
        BY <4>3 DEF Precedes
    <3>3. CASE Fresh(peer, i) /\ Fresh(peer, j)
      BY <2>6, <2>8, <3>3
    <3>4. ~(Fresh(peer, i) /\ j \in DOMAIN outbox[peer])
      <4>1. PICK s, z : s = outbox[peer] /\ z = outbox'[peer]
        OBVIOUS
      <4>2. IsSeq(s) /\ IsSeq(z)
        BY <1>1, <2>2, <4>1 DEF SubscriptionInv, ClientSide, ServerSide, ServerEnd, Overhears,
                                OnlyPushed, Serving, Answered
      <4>3. DOMAIN s = 1..Len(s) /\ DOMAIN z = 1..Len(z) /\ Len(s) \in Nat /\ Len(z) \in Nat
        BY <4>2 DEF IsSeq
      <4> QED
        BY <2>8, <4>1, <4>3 DEF Fresh
    <3> QED
      BY <2>8, <3>1, <3>2, <3>3, <3>4 DEF Fresh
  <2> QED
    BY <1>2, <2>7, <2>8 DEF InOrder, ToClient
<1> QED
  BY <1>7, <1>8 DEF AgesInv

\* What a message leaves in the rows and among what would be put back: message m
\* has told it, it is what was there, or it is put back.
TakesOver(m) ==
    /\ \A k \in DOMAIN shown' :
           \/ shown'[k] \in RecordsIn(m)
           \/ k \in DOMAIN shown /\ shown'[k] = shown[k]
           \/ k \in rolledBack' /\ \E id : Undoes(id, shown'[k])
    /\ \A id : \A r : Undoes(id, r)' => Undoes(id, r)

LEMMA TriggeredShows ==
    ASSUME NEW changes, WholeChanges(changes), NEW rs,
           NEW k \in DOMAIN Triggered(rs, changes)
    PROVE  \/ \E ch \in changes : Triggered(rs, changes)[k] = ch.record
           \/ k \in DOMAIN rs /\ Triggered(rs, changes)[k] = rs[k]
<1> DEFINE last == Latest(About(changes, k))
<1>1. IF About(changes, k) = {}
      THEN k \in DOMAIN rs /\ Triggered(rs, changes)[k] = rs[k]
      ELSE last \in changes /\ Triggered(rs, changes)[k] = last.record
  BY TriggeredMeans
<1> HIDE DEF last
<1> QED
  BY <1>1

LEMMA PostForgets ==
    ASSUME SubscriptionInv, NEW msgs, IsSeq(msgs), NEW contexts, NEW r,
           Post(msgs, contexts, Without(r)),
           \A k \in DOMAIN msgs : contexts[k].kind # "undo"
    PROVE  \A id : \A x : Undoes(id, x)' => Undoes(id, x)
<1>1. ServerSide /\ ClientSide
  BY DEF SubscriptionInv
<1>2. ASSUME NEW id \in DOMAIN calls'
      PROVE  \/ id \in DOMAIN calls /\ calls'[id] = calls[id]
             \/ \E k \in DOMAIN msgs : calls'[id] = contexts[k]
  BY <1>1, PostRemembers
<1> QED
  BY <1>2 DEF Undoes

LEMMA NoPostForgets ==
    ASSUME SubscriptionInv, NEW r, Post(<<>>, <<>>, Without(r))
    PROVE  \A id : \A x : Undoes(id, x)' => Undoes(id, x)
<1> DEFINE none == <<>>
<1>1. IsSeq(none) /\ DOMAIN none = {} /\ Post(none, none, Without(r))
  BY ShortSequences
<1> HIDE DEF none
<1> QED
  BY <1>1, PostForgets

LEMMA ReceivedIsTakenOver ==
    ASSUME SubscriptionInv, DataInv, ClientReceives
    PROVE  \E m, r : Receiving(m, r) /\ peer' = peer /\ TakesOver(m)
<1>1. PICK m \in Received :
          /\ Taken /\ UNCHANGED <<vars, link, session>>
          /\ \/ OnConnected(m) \/ OnFound(m) \/ OnSubscribed(m) \/ OnWritten(m)
             \/ OnPush(m) \/ OnIgnored(m)
  BY DEF ClientReceives, Receive
<1>2. PICK r : Ends(m, r)
  BY DEF Ends
<1>3. Receiving(m, r)
  BY <1>1, <1>2 DEF Receiving, Received, ToClient
<1>4. m = ToClient[1] /\ Whole(m) /\ ClientSide /\ pendingReloads \in Nat
  BY <1>3, Understood, ReloadsAssumption DEF DataInv, Heard, SubscriptionInv
<1>5. CASE OnConnected(m)
  <2> DEFINE n == 1 + pendingReloads
             msgs == [i \in 1..n |-> FindMessage(target)]
             contexts == [i \in 1..n |-> [kind |-> "find"]]
  <2>1. OnAuthenticated(m, msgs, contexts) /\ shown' = shown
    BY <1>5 DEF OnConnected
  <2>2. n \in Nat
    BY <1>4
  <2>3. IsSeq(msgs) /\ DOMAIN msgs = 1..n
    <3>1. msgs \in [1..n -> {FindMessage(target)}]
      OBVIOUS
    <3> HIDE DEF msgs, n
    <3> QED
      BY <2>2, <3>1, ListsAre
  <2>4. \A i \in DOMAIN msgs : contexts[i].kind # "undo"
    BY <2>3
  <2> HIDE DEF msgs, contexts, n
  <2>5. /\ Post(msgs, contexts, Without(m.reply_to)) \/ Post(<<>>, <<>>, Without(m.reply_to))
        /\ UNCHANGED peer
    BY <2>1 DEF OnAuthenticated, Unconnect
  <2>6. \A id : \A x : Undoes(id, x)' => Undoes(id, x)
    <3>1. CASE Post(msgs, contexts, Without(m.reply_to))
      BY <2>3, <2>4, <3>1, PostForgets
    <3> QED
      BY <2>5, <3>1, NoPostForgets
  <2> QED
    BY <1>3, <2>1, <2>5, <2>6 DEF TakesOver
<1>6. CASE OnFound(m)
  <2> DEFINE from == LatestRevision(m.data.records)
  <2>1. /\ Answers(m, "find") /\ shown' = AsRows(m.data.records)
        /\ Resubscribe(subscription, <<>>, target, from, Without(m.reply_to))
        /\ UNCHANGED peer
    BY <1>6 DEF OnFound, socketVars
  <2> HIDE DEF from
  <2>2. PICK msgs, contexts, last :
            /\ Post(msgs, contexts, Without(m.reply_to))
            /\ AskAnew(msgs, contexts, last, target, from)
    BY <1>4, <2>1, ResubscribeMeans
  <2>3. /\ IsSeq(msgs) /\ last \in Nat /\ DOMAIN msgs = 1..last + 1
        /\ \A k \in 1..last : contexts[k] = NoCall
        /\ contexts[last + 1].kind = "subscribe"
    BY <2>2 DEF AskAnew
  <2>4. \A k \in DOMAIN msgs : k \in 1..last \/ k = last + 1
    BY <2>3
  <2>5. \A k \in DOMAIN msgs : contexts[k].kind # "undo"
    BY <2>3, <2>4 DEF NoCall
  <2>6. \A id : \A x : Undoes(id, x)' => Undoes(id, x)
    BY <2>2, <2>3, <2>5, PostForgets
  <2>7. IsReply(m, "find") /\ WholeRecords(m.data.records)
    BY <1>3, <1>4, <2>1, Understood DEF Whole
  <2>8. PICK records : records = m.data.records
    OBVIOUS
  <2>9. \A k \in DOMAIN AsRows(records) : AsRows(records)[k] \in records
    BY <2>7, <2>8, RowsAre
  <2>10. \A k \in DOMAIN shown' : shown'[k] \in RecordsIn(m)
    BY <2>1, <2>7, <2>8, <2>9 DEF RecordsIn
  <2> QED
    BY <1>3, <2>1, <2>6, <2>10 DEF TakesOver
<1>7. ASSUME NEW changes, WholeChanges(changes), Listen(m, changes),
             \A ch \in changes : ch.record \in RecordsIn(m),
             \A id : \A x : Undoes(id, x)' => Undoes(id, x)
      PROVE  peer' = peer /\ TakesOver(m)
  <2>1. peer' = peer /\ (shown' = shown \/ shown' = Triggered(shown, changes))
    BY <1>7 DEF Listen, socketVars
  <2>2. CASE shown' = shown
    BY <1>7, <2>1, <2>2 DEF TakesOver
  <2>3. CASE shown' = Triggered(shown, changes)
    BY <1>7, <2>1, <2>3, TriggeredShows DEF TakesOver
  <2> QED
    BY <2>1, <2>2, <2>3
<1>8. CASE OnSubscribed(m)
  <2>1. /\ Answers(m, "subscribe") /\ Listen(m, m.data.changes)
        /\ \/ Post(<<>>, <<>>, Without(m.reply_to))
           \/ Post(<<DropOf(m.data.subscription)>>, <<NoCall>>, Without(m.reply_to))
    BY <1>8 DEF OnSubscribed, Registered, DropOf
  <2>2. IsReply(m, "subscribe") /\ ChangesIn(m) = m.data.changes /\ ~IsReply(m, "find")
    BY <1>3, <2>1, Understood DEF ChangesIn, IsReply
  <2>3. /\ WholeChanges(m.data.changes)
        /\ \A ch \in m.data.changes : ch.record \in RecordsIn(m)
    BY <1>4, <2>2 DEF Whole, RecordsIn
  <2>4. \A id : \A x : Undoes(id, x)' => Undoes(id, x)
    <3>1. CASE Post(<<DropOf(m.data.subscription)>>, <<NoCall>>, Without(m.reply_to))
      <4> DEFINE msgs == <<DropOf(m.data.subscription)>>
                 contexts == <<NoCall>>
      <4>1. /\ IsSeq(msgs) /\ DOMAIN msgs = {1} /\ contexts[1] = NoCall
            /\ Post(msgs, contexts, Without(m.reply_to))
        BY <3>1, ShortSequences
      <4> HIDE DEF msgs, contexts
      <4>2. \A k \in DOMAIN msgs : contexts[k].kind # "undo"
        BY <4>1 DEF NoCall
      <4> QED
        BY <4>1, <4>2, PostForgets
    <3> QED
      BY <2>1, <3>1, NoPostForgets
  <2> QED
    BY <1>3, <1>7, <2>1, <2>3, <2>4
<1>9. CASE OnWritten(m)
  <2>1. PICK record : record = calls[m.reply_to].record
    OBVIOUS
  <2>2. /\ Undoes(m.reply_to, record) /\ UNCHANGED peer
        /\ \/ shown' = SetRow(shown, record) /\ record.key \in rolledBack'
           \/ shown' = shown
        /\ Post(<<>>, <<>>, Without(m.reply_to))
    BY <1>9, <2>1 DEF OnWritten, socketVars, Answers, Undoes
  <2>3. \A id : \A x : Undoes(id, x)' => Undoes(id, x)
    BY <2>2, NoPostForgets
  <2> QED
    BY <1>3, <2>2, <2>3 DEF TakesOver, SetRow, With
<1>10. CASE OnPush(m)
  <2>1. m.cmd = "changes" /\ Listen(m, m.changes) /\ UNCHANGED calls
    BY <1>10 DEF OnPush, dispatchVars
  <2>2. /\ WholeChanges(m.changes)
        /\ \A ch \in m.changes : ch.record \in RecordsIn(m)
    BY <1>4, <2>1 DEF Whole, RecordsIn, ChangesIn, IsReply
  <2>3. \A id : \A x : Undoes(id, x)' => Undoes(id, x)
    BY <2>1 DEF Undoes
  <2> QED
    BY <1>3, <1>7, <2>1, <2>2, <2>3
<1>11. CASE OnIgnored(m)
  <2>1. UNCHANGED <<calls, peer, shown>>
    BY <1>11 DEF OnIgnored, dispatchVars, socketVars, rowVars
  <2> QED
    BY <1>3, <2>1 DEF TakesOver, Undoes
<1> QED
  BY <1>1, <1>5, <1>6, <1>8, <1>9, <1>10, <1>11

\* Taking a message keeps the order.
LEMMA ReceivedKeepsAges ==
    ASSUME DataInv, AgesInv, NEW m, NEW r, Receiving(m, r), peer' = peer, TakesOver(m)
    PROVE  AgesInv'
<1>1. /\ InSession /\ InOrder /\ Takes(1, r) /\ UNCHANGED vars
      /\ 1 \in DOMAIN ToClient /\ m = ToClient[1]
  BY ReceivingMeans DEF AgesInv, Receiving
<1>2. ASSUME NEW x, Holds(x)' PROVE Holds(x) \/ x \in RecordsIn(m)
  BY <1>2 DEF Holds, TakesOver
<1>3. \A k : Age(k)' = Age(k)
  BY <1>1 DEF vars, Age, ChangesOf, Newest
<1>4. \A i \in DOMAIN ToClient' :
          i + 1 \in DOMAIN ToClient /\ ToClient'[i] = ToClient[i + 1] /\ i \in Nat \ {0}
  BY <1>1 DEF Takes
<1>5. Aged'
  <2>1. ASSUME NEW x, Holds(x)' PROVE x.latestRevision <= Age(x.key)
    BY <1>1, <1>2, <2>1 DEF AgesInv, Aged, InOrder
  <2> QED
    BY <1>3, <2>1 DEF Aged
<1>6. InOrder'
  <2>1. ASSUME NEW i \in DOMAIN ToClient', NEW x \in RecordsIn(ToClient'[i])
        PROVE  /\ x.latestRevision <= Age(x.key)
               /\ \A h : Holds(h)' => Precedes(h, x)
               /\ \A j \in DOMAIN ToClient' : i < j =>
                      \A y \in RecordsIn(ToClient'[j]) : Precedes(x, y)
    <3>1. i + 1 \in DOMAIN ToClient /\ x \in RecordsIn(ToClient[i + 1]) /\ 1 < i + 1
      BY <1>4, <2>1
    <3>2. \A h : Holds(h)' => Precedes(h, x)
      BY <1>1, <1>2, <3>1 DEF InOrder
    <3>3. ASSUME NEW j \in DOMAIN ToClient', i < j, NEW y \in RecordsIn(ToClient'[j])
          PROVE  Precedes(x, y)
      <4>1. j + 1 \in DOMAIN ToClient /\ y \in RecordsIn(ToClient[j + 1]) /\ i + 1 < j + 1
        BY <1>4, <3>3
      <4> QED
        BY <1>1, <3>1, <4>1 DEF InOrder
    <3> QED
      BY <1>1, <3>1, <3>2, <3>3 DEF InOrder
  <2> QED
    BY <1>3, <2>1 DEF InOrder
<1> QED
  BY <1>5, <1>6 DEF AgesInv

\* A user's entry makes no row newer or older, and would put back what is shown.
Edited ==
    /\ \A k \in DOMAIN shown' :
           /\ k \in DOMAIN shown /\ shown'[k].key = shown[k].key
           /\ shown'[k].latestRevision = shown[k].latestRevision
    /\ \A id : \A x : Undoes(id, x)' => Holds(x)

LEMMA OnePostRemembers ==
    ASSUME SubscriptionInv, NEW m, NEW context, Post(<<m>>, <<context>>, calls),
           context.kind = "undo" => \E k \in DOMAIN shown : context.record = shown[k]
    PROVE  \A id : \A x : Undoes(id, x)' => Holds(x)
<1> DEFINE msgs == <<m>>
           contexts == <<context>>
<1>1. /\ IsSeq(msgs) /\ DOMAIN msgs = {1} /\ contexts[1] = context
      /\ Post(msgs, contexts, calls) /\ ServerSide /\ ClientSide
  BY ShortSequences DEF SubscriptionInv
<1> HIDE DEF msgs, contexts
<1>2. PICK r : r = 0
  OBVIOUS
<1>3. ASSUME NEW id \in DOMAIN calls'
      PROVE  \/ id \in DOMAIN calls /\ calls'[id] = calls[id]
             \/ calls'[id] = context
  BY <1>1, <1>2, PostRemembers
<1> QED
  BY <1>3 DEF Undoes, Holds

LEMMA UserEdits ==
    ASSUME SubscriptionInv, DataInv, UserActs
    PROVE  Edited /\ UNCHANGED <<vars, peer, socket, link, outbox>>
<1>1. UNCHANGED <<vars, peer, socket, link, outbox>>
  BY DEF UserActs, socketVars
<1> SUFFICES Edited
  BY <1>1
<1>2. ASSUME NEW action, NEW q, ReloadFor(action, q), shown' = shown PROVE Edited
  <2>1. CASE Post(<<FindMessage(q)>>, <<[kind |-> "find"]>>, calls)
    <3>1. [kind |-> "find"].kind # "undo"
      OBVIOUS
    <3> QED
      BY <1>2, <2>1, <3>1, OnePostRemembers DEF Edited
  <2>2. CASE calls' = calls
    BY <1>2, <2>2 DEF Edited, Undoes, Holds
  <2> QED
    BY <1>2, <2>1, <2>2 DEF ReloadFor
<1>3. CASE Reload
  BY <1>2, <1>3 DEF Reload
<1>4. ASSUME NEW q \in Queries, SetTarget(q) PROVE Edited
  BY <1>2, <1>4 DEF SetTarget
<1>5. ASSUME NEW k \in DOMAIN shown, NEW f \in Field, NEW value \in Value,
             SetData(k, f, value)
      PROVE  Edited
  <2> DEFINE m == [cmd |-> "update", key |-> k, values |-> [g \in {f} |-> value]]
             context == [kind |-> "undo", record |-> shown[k]]
  <2>1. shown' = [shown EXCEPT ![k].values[f] = value] /\ Post(<<m>>, <<context>>, calls)
    BY <1>5 DEF SetData
  <2>2. context.record = shown[k]
    OBVIOUS
  <2> HIDE DEF m, context
  <2>3. \A id : \A x : Undoes(id, x)' => Holds(x)
    BY <2>1, <2>2, OnePostRemembers
  <2>4. /\ DOMAIN shown' = DOMAIN shown
        /\ \A j \in DOMAIN shown : j # k => shown'[j] = shown[j]
        /\ shown'[k] = [shown[k] EXCEPT !.values[f] = value] /\ shown[k] \in Record
    BY <2>1 DEF DataInv, Rows
  <2>5. shown'[k].key = shown[k].key /\ shown'[k].latestRevision = shown[k].latestRevision
    BY <2>4 DEF Record
  <2> QED
    BY <2>3, <2>4, <2>5 DEF Edited
<1>6. ASSUME NEW k \in DOMAIN shown, RemoveRow(k) PROVE Edited
  <2> DEFINE m == [cmd |-> "delete", key |-> k]
             context == [kind |-> "undo", record |-> shown[k]]
  <2>1. shown' = DropRow(shown, k) /\ Post(<<m>>, <<context>>, calls)
    BY <1>6 DEF RemoveRow
  <2>2. context.record = shown[k]
    OBVIOUS
  <2> HIDE DEF m, context
  <2>3. \A id : \A x : Undoes(id, x)' => Holds(x)
    BY <2>1, <2>2, OnePostRemembers
  <2> QED
    BY <2>1, <2>3 DEF Edited, DropRow, Restrict
<1>7. CASE Add
  <2> DEFINE m == [cmd |-> "create", table |-> target.table, values |-> Blank]
  <2>1. Post(<<m>>, <<NoCall>>, calls) /\ shown' = shown
    BY <1>7 DEF Add, rowVars
  <2>2. NoCall.kind # "undo"
    BY DEF NoCall
  <2> HIDE DEF m
  <2> QED
    BY <2>1, <2>2, OnePostRemembers DEF Edited
<1> QED
  BY <1>1, <1>3, <1>4, <1>5, <1>6, <1>7 DEF UserActs, User

LEMMA UserKeepsAges ==
    ASSUME AgesInv, Edited, UNCHANGED <<vars, peer, socket, link, outbox>>
    PROVE  AgesInv'
<1>1. \A k : Age(k)' = Age(k)
  BY DEF vars, Age, ChangesOf, Newest
<1>2. ASSUME NEW r, Holds(r)'
      PROVE  \E h : Holds(h) /\ h.key = r.key /\ h.latestRevision = r.latestRevision
  BY <1>2 DEF Edited, Holds
<1>3. ASSUME NEW r, Holds(r)' PROVE r.latestRevision <= Age(r.key)
  BY <1>2, <1>3 DEF AgesInv, Aged
<1>4. ASSUME NEW x, \A h : Holds(h) => Precedes(h, x), NEW r, Holds(r)'
      PROVE  Precedes(r, x)
  BY <1>2, <1>4 DEF Precedes
<1>5. Aged' /\ (InSession' <=> InSession) /\ ToClient' = ToClient
  BY <1>1, <1>3 DEF Aged, InSession, ToClient
<1>6. InOrder => InOrder'
  BY <1>1, <1>4, <1>5 DEF InOrder
<1> QED
  BY <1>5, <1>6 DEF AgesInv

\* A session begins with nothing under way.
LEMMA SocketKeepsAges ==
    ASSUME SubscriptionInv, AgesInv, SocketActs
    PROVE  AgesInv' /\ UNCHANGED <<shown, vars>>
<1>1. UNCHANGED <<shown, vars>>
  BY DEF SocketActs, rowVars, SocketStep, UserConnects, Established, NotEstablished, Lost,
         UserDisconnects, ReconnectNow, allServerVars, engineVars, vars
<1>2. \A k : Age(k)' = Age(k)
  BY <1>1 DEF vars, Age, ChangesOf, Newest
<1>3. ServerSide /\ DOMAIN calls \subseteq 1..nextCall - 1
  BY DEF SubscriptionInv, ClientSide
<1>4. ASSUME NEW id, NEW x, Undoes(id, x)' PROVE Undoes(id, x)
  <2>1. calls' = calls \/ calls' = With(calls, nextCall, [kind |-> "authenticate"])
    BY DEF SocketActs, SocketStep, UserConnects, Established, NotEstablished, Lost,
           UserDisconnects, ReconnectNow, dispatchVars
  <2> QED
    BY <1>4, <2>1 DEF Undoes, With
<1>5. \A x : Holds(x)' => Holds(x)
  BY <1>1, <1>4 DEF Holds
<1>6. Aged'
  BY <1>2, <1>5 DEF AgesInv, Aged
<1>7. CASE Established
  <2>1. PICK c : c = CHOOSE d \in Connection : link[d] = "new"
    OBVIOUS
  <2>2. c \in Connection /\ link[c] = "new" /\ peer' = c /\ outbox' = outbox
    BY <1>7, <2>1 DEF Established
  <2>3. outbox[c] = <<>>
    BY <1>3, <2>2 DEF ServerSide, ServerEnd
  <2>4. InOrder'
    BY <2>2, <2>3 DEF InOrder, ToClient
  <2> QED
    BY <1>1, <1>6, <2>4 DEF AgesInv
<1>8. CASE ~Established
  <2>1. socket' # "connected"
    BY <1>8 DEF SocketActs, SocketStep, UserConnects, NotEstablished, Lost,
                UserDisconnects, ReconnectNow, ConnectToHost, Unconnect
  <2> QED
    BY <1>1, <1>6, <2>1 DEF AgesInv, InSession
<1> QED
  BY <1>7, <1>8

\* A step never puts an older state of a record in the place of a newer one, but
\* to take an entry back.
NoneGoesBack ==
    \A k \in DOMAIN shown \cap DOMAIN shown' :
        \/ shown[k].latestRevision <= shown'[k].latestRevision
        \/ k \in rolledBack'

LEMMA AgesStep ==
    ASSUME "rollback" \notin Faults, NoClients, TypesInv, AgesInv, [ModelNext]_modelVars
    PROVE  AgesInv' /\ NoneGoesBack
<1>1. SubscriptionInv /\ EngineInv /\ DataInv /\ Rows
  BY DEF TypesInv, DataInv
<1>2. TypeOK' /\ DataInv' /\ Rows'
  BY TypesStep DEF TypesInv, DataInv
<1>3. \A k \in DOMAIN shown : shown[k].key = k /\ shown[k].latestRevision \in Nat
  BY <1>1, RecordsAreOfKeys DEF Rows
<1>4. CASE ServerHandles \/ ServerActs
  <2>1. Idle /\ shown' = shown
    BY <1>4 DEF ServerHandles, ServerActs, Idle, rowVars
  <2> QED
    BY <1>1, <1>2, <1>3, <1>4, <2>1, ServerKeepsAges DEF NoneGoesBack
<1>5. CASE ClientReceives
  <2>1. PICK m, r : Receiving(m, r) /\ peer' = peer /\ TakesOver(m)
    BY <1>1, <1>5, ReceivedIsTakenOver
  <2>2. AgesInv'
    BY <1>1, <2>1, ReceivedKeepsAges
  <2>3. InOrder /\ 1 \in DOMAIN ToClient /\ m = ToClient[1]
    BY <2>1, ReceivingMeans DEF AgesInv
  <2>4. ASSUME NEW k \in DOMAIN shown, k \in DOMAIN shown', k \notin rolledBack'
        PROVE  shown[k].latestRevision <= shown'[k].latestRevision
    <3>1. shown'[k].key = k
      BY <1>2, <2>4 DEF Rows
    <3>2. CASE shown'[k] = shown[k]
      BY <1>3, <3>2
    <3>3. CASE shown'[k] \in RecordsIn(m)
      <4>1. Precedes(shown[k], shown'[k])
        BY <2>3, <3>3 DEF InOrder, Holds
      <4> QED
        BY <1>3, <3>1, <4>1 DEF Precedes
    <3> QED
      BY <2>1, <2>4, <3>2, <3>3 DEF TakesOver
  <2> QED
    BY <2>2, <2>4 DEF NoneGoesBack
<1>6. CASE UserActs
  <2>1. Edited /\ UNCHANGED <<vars, peer, socket, link, outbox>>
    BY <1>1, <1>6, UserEdits
  <2>2. AgesInv'
    BY <2>1, UserKeepsAges
  <2> QED
    BY <1>3, <2>1, <2>2 DEF Edited, NoneGoesBack
<1>7. CASE SocketActs
  BY <1>1, <1>3, <1>7, SocketKeepsAges DEF NoneGoesBack
<1>8. CASE UNCHANGED modelVars
  <2>1. UNCHANGED <<vars, link, socket, peer, outbox, shown, calls>>
    BY <1>8 DEF modelVars, allServerVars, serverVars, socketVars, dispatchVars, rowVars
  <2>2. Edited
    BY <2>1 DEF Edited, Holds, Undoes
  <2>3. AgesInv'
    BY <2>1, <2>2, UserKeepsAges
  <2> QED
    BY <1>3, <2>1, <2>3 DEF NoneGoesBack
<1> QED
  BY <1>4, <1>5, <1>6, <1>7, <1>8 DEF ModelNext

LEMMA AgesStart == ModelInit => AgesInv
<1> SUFFICES ASSUME ModelInit PROVE AgesInv
  OBVIOUS
<1>1. /\ shown = <<>> /\ calls = <<[kind |-> "find"]>>
      /\ outbox = [d \in Connection |-> <<>>] /\ \E c \in Connection : peer = c
  BY DEF ModelInit, ServesFirst, Nothing, Connected
<1>2. DOMAIN shown = {} /\ DOMAIN calls = {1} /\ calls[1].kind = "find"
  BY <1>1, ShortSequences
<1>3. \A r : ~Holds(r)
  BY <1>2 DEF Holds, Undoes
<1>4. DOMAIN ToClient = {}
  BY <1>1, ShortSequences DEF ToClient
<1> QED
  BY <1>3, <1>4 DEF AgesInv, Aged, InOrder

\* Again as long as nothing is rolled back after a push of it, a row shown is
\* never replaced by an older state of the record, except by the error callback
\* that puts an entry back: pushes, the answers to find and to
\* subscribe and the rows overlap in any order (AbstractRecordModel.cpp:129-184).
THEOREM RowsAdvance ==
    ASSUME "rollback" \notin Faults, \A q \in Queries : q.table # ClientTable
    PROVE  ModelSpec => RowsNeverGoBack
<1>1. ModelInit => TypesInv /\ AgesInv
  BY TypesStart, AgesStart
<1>2. TypesInv /\ AgesInv /\ [ModelNext]_modelVars
          => TypesInv' /\ AgesInv' /\ [NoneGoesBack]_modelVars
  BY TypesStep, AgesStep DEF NoClients
<1>3. ModelSpec => [][NoneGoesBack]_modelVars
  BY <1>1, <1>2, PTL DEF ModelSpec
<1> QED
  BY <1>3 DEF RowsNeverGoBack, NoneGoesBack

-----------------------------------------------------------------------------
(* The copy. *)

\* Record k belongs to the target.  Its filters may be about more than the id.
Wanted(k) == Live(k) /\ Selects(target, k, row[k].values)
InScope(k) == k[1] = target.table /\ k[2] \in target.ids
PlainTarget == \A f \in Field : target.accepts[f] = Value

\* What is shown of record k, rec if it is there, is right: what is wanted is
\* there, as it is, and, if the target asks for ids only, nothing else.
Right(there, rec, k) ==
    /\ Wanted(k) => there /\ rec = Found(k)
    /\ PlainTarget /\ there => Wanted(k)
RowRight(rs, k) == \/ k \in DOMAIN rs /\ Right(TRUE, rs[k], k)
                   \/ k \notin DOMAIN rs /\ Right(FALSE, 0, k)
\* The last of the changes of k says what is right.
ToldRightly(changes, k) ==
    Right(Latest(About(changes, k)).type # "Delete", Latest(About(changes, k)).record, k)

\* Message i to the client tells subscription s of record k.
Mentions(i, s, k) == /\ i \in DOMAIN ToClient /\ Carries(ToClient[i], s)
                     /\ About(ChangesIn(ToClient[i]), k) # {}

\* The user has edited record k; that may be refused, and taken back.
Edits(m, k) == m.cmd \in {"update", "delete"} /\ m.key = k
Refuses(a, k) == /\ a.cmd = "error" /\ Waits(a.reply_to, "undo")
                 /\ calls[a.reply_to].record.key = k
Excused(k) ==
    \/ k \in rolledBack
    \/ InScope(k) /\ \E i \in DOMAIN ToServer : Edits(ToServer[i], k)
    \/ InScope(k) /\ \E i \in DOMAIN ToClient : Refuses(ToClient[i], k)

\* A subscription from `from' will be told of record k.
Later(k, from) == InScope(k) /\ Age(k) > from

\* Records that were found are right, but for what has changed since.
LoadsRightly(records) ==
    /\ LatestRevision(records) \in 0..lastRevision
    /\ \A k \in Key : Later(k, LatestRevision(records)) \/ RowRight(AsRows(records), k)
\* So are the rows, which wait for what has changed since `from'.
CatchesUp(from) ==
    /\ from \in 0..lastRevision
    /\ \A k \in Key : Later(k, from) \/ Excused(k) \/ RowRight(shown, k)
\* The rows are right, or subscription s is still to be told what is.
Follows(s) ==
    /\ subscriptions[peer][s].from \in 0..lastRevision
    /\ \A k \in Key :
           /\ \A i : Mentions(i, s, k) =>
                  \/ \E j : j > i /\ Mentions(j, s, k)
                  \/ ToldRightly(ChangesIn(ToClient[i]), k)
           /\ (\E i : Mentions(i, s, k)) \/ Excused(k) \/ RowRight(shown, k)

\* What becomes of the copy through a load: the last find is for the target, ...
FindsTarget ==
    \A i \in DOMAIN ToServer : ToServer[i].cmd = "find" =>
        \/ \E j \in DOMAIN ToServer : j > i /\ ToServer[j].cmd = "find"
        \/ ToServer[i].query = target
\* ... and once it is answered, the last answer is right, ...
FoundRightly ==
    \/ \E i \in DOMAIN ToServer : ToServer[i].cmd = "find"
    \/ \A i \in DOMAIN ToClient : IsReply(ToClient[i], "find") =>
           \/ \E j \in DOMAIN ToClient : j > i /\ IsReply(ToClient[j], "find")
           \/ LoadsRightly(ToClient[i].data.records)
\* ... the subscription that is asked for will tell what has changed since, ...
AsksRightly ==
    subscription \in pendingSubscriptions =>
        \A i \in DOMAIN ToServer : AskedFor(ToServer[i]) => CatchesUp(ToServer[i].from)
\* ... the one that is granted tells, ...
GrantsRightly ==
    subscription \in pendingSubscriptions =>
        \A i \in DOMAIN ToClient :
            GrantedBy(ToClient[i]) => Follows(ToClient[i].data.subscription)
\* ... and goes on to.
ListensRightly ==
    \A s \in DOMAIN clientSubscriptions : Listening(s) => Follows(s)
\* An edit would be taken back in its own row.
EditsOwn ==
    \A i \in DOMAIN ToServer : ToServer[i].cmd \in {"update", "delete"} =>
        calls[ToServer[i].msgId].record.key = ToServer[i].key
\* No message is for a subscription to come, and the first one is its answer.
KnownIds ==
    \A i \in DOMAIN ToClient : \A s :
        Carries(ToClient[i], s) => s \in Nat /\ s < nextSubscriptionId[peer]
GivenFirst ==
    \A i, j \in DOMAIN ToClient : \A s :
        Gives(ToClient[i], s) /\ Carries(ToClient[j], s) => i <= j
Copies ==
    /\ KnownIds /\ GivenFirst /\ EditsOwn /\ FindsTarget /\ FoundRightly
    /\ ~Finding => AsksRightly /\ GrantsRightly /\ ListensRightly
CopyInv == InSession /\ letIn => Copies

-----------------------------------------------------------------------------
(* What a write does to what is right. *)

\* What the server tells about other records, or when it writes nothing.
LEMMA ElsewhereRight ==
    ASSUME NEW k, row'[k] = row[k], ChangesOf(k)' = ChangesOf(k), target' = target
    PROVE  /\ \A there, rec : Right(there, rec, k)' <=> Right(there, rec, k)
           /\ \A from : Later(k, from)' <=> Later(k, from)
<1>1. /\ Wanted(k)' <=> Wanted(k)
      /\ Found(k)' = Found(k) /\ Age(k)' = Age(k)
      /\ InScope(k)' <=> InScope(k)
      /\ PlainTarget' <=> PlainTarget
  BY DEF Wanted, Live, Found, Age, InScope, PlainTarget
<1> QED
  BY <1>1 DEF Right, Later

\* A write of record k: who is told of it is told what is right, and where
\* nobody is told nothing has to change; in the scope of the target it comes
\* after all there was.
LEMMA WrittenRight ==
    ASSUME NEW ch, NEW k, WritesTo(k, ch), ch.record.key = k, target' = target,
           target \in Queries, TypeOK
    PROVE  /\ Selects(target, k, ch.record.values) =>
                  Right(ch.type # "Delete", ch.record, k)'
           /\ ~Selects(target, k, ch.record.values) =>
                  \A there, rec : Right(there, rec, k) \/ InScope(k) =>
                                      Right(there, rec, k)'
           /\ InScope(k) => \A from \in 0..lastRevision : Later(k, from)'
           /\ \A from \in Nat : Later(k, from) => Later(k, from)'
<1>1. /\ k \in Key /\ target.accepts \in [Field -> SUBSET Value]
      /\ row'[k].values \in [Field -> Value] /\ row[k].values \in [Field -> Value]
      /\ ch.record.values = row'[k].values
      /\ InScope(k)' <=> InScope(k)
      /\ PlainTarget' <=> PlainTarget
  BY QueriesAssumption DEF WritesTo, TableQuery, InScope, PlainTarget, TypeOK, Row
<1>2. PICK values : values = row'[k].values
  OBVIOUS
<1>3. Wanted(k)' <=> (row'[k].status = "live" /\ Selects(target, k, values))
  BY <1>1, <1>2 DEF Wanted, Live, Selects
<1>4. PlainTarget => (Selects(target, k, values) <=> InScope(k))
                     /\ (Wanted(k) => InScope(k))
  BY <1>1, <1>2 DEF PlainTarget, Selects, InScope, Wanted
<1>5. ASSUME Selects(target, k, ch.record.values)
      PROVE  Right(ch.type # "Delete", ch.record, k)'
  <2>1. CASE ch.type = "Delete"
    <3>1. ~Wanted(k)'
      BY <1>3, <2>1 DEF WritesTo
    <3> QED
      BY <2>1, <3>1 DEF Right
  <2>2. CASE ch.type # "Delete"
    <3>1. Wanted(k)' /\ ch.record = Found(k)'
      BY <1>1, <1>2, <1>3, <1>5, <2>2 DEF WritesTo
    <3> QED
      BY <2>2, <3>1 DEF Right
  <2> QED
    BY <2>1, <2>2
<1>6. ASSUME ~Selects(target, k, ch.record.values), NEW there, NEW rec,
             Right(there, rec, k) \/ InScope(k)
      PROVE  Right(there, rec, k)'
  <2>1. ~Wanted(k)'
    BY <1>1, <1>2, <1>3, <1>6
  <2>2. PlainTarget /\ there => FALSE
    BY <1>1, <1>2, <1>4, <1>6 DEF Right
  <2> QED
    BY <1>1, <2>1, <2>2 DEF Right
<1>7. Age(k) \in 0..lastRevision /\ Age(k)' = lastRevision + 1 /\ lastRevision \in Nat
  BY BoundAssumption DEF WritesTo, Age, TypeOK
<1>8. InScope(k) => \A from \in 0..lastRevision : Later(k, from)'
  BY <1>1, <1>7 DEF Later, TypeOK
<1>9. \A from \in Nat : Later(k, from) => Later(k, from)'
  BY <1>1, <1>7 DEF Later
<1> QED
  BY <1>5, <1>6, <1>8, <1>9

\* The client is told of a write of record k.
Written(k) == \E ch : Writes(ch) /\ Announces(peer, ch) /\ ch.record.key = k

LEMMA NotWritten ==
    ASSUME Informs(peer), NEW k \in Key, ~Written(k)
    PROVE  /\ row'[k] = row[k] /\ ChangesOf(k)' = ChangesOf(k)
           /\ \A i : Fresh(peer, i) /\ ~Answer(outbox'[peer][i]) =>
                  About(ChangesIn(outbox'[peer][i]), k) = {}
<1>1. CASE Still /\ OnlyAnswered(peer)
  BY <1>1 DEF Still, OnlyAnswered, ChangesOf
<1>2. ASSUME NEW ch, Writes(ch), Announces(peer, ch)
      PROVE  /\ row'[k] = row[k] /\ ChangesOf(k)' = ChangesOf(k)
             /\ \A i : Fresh(peer, i) /\ ~Answer(outbox'[peer][i]) =>
                    About(ChangesIn(outbox'[peer][i]), k) = {}
  <2>1. ch.record.key # k
    BY <1>2 DEF Written
  <2>2. row'[k] = row[k] /\ ChangesOf(k)' = ChangesOf(k)
    BY <1>2, <2>1 DEF Writes, WritesTo
  <2>3. ASSUME NEW i, Fresh(peer, i), ~Answer(outbox'[peer][i])
        PROVE  About(ChangesIn(outbox'[peer][i]), k) = {}
    <3>1. PICK s : outbox'[peer][i] = Push(s, ch)
      BY <1>2, <2>3 DEF Announces
    <3> QED
      BY <2>1, <3>1 DEF Push, ChangesIn, About
  <2> QED
    BY <2>2, <2>3
<1> QED
  BY <1>1, <1>2 DEF Informs

\* A subscription for the target is told of it if the record, as it is then,
\* matches.
LEMMA WrittenIsTold ==
    ASSUME NEW ch, NEW k, Writes(ch), Announces(peer, ch), ch.record.key = k, TypeOK,
           NEW s \in DOMAIN subscriptions[peer], subscriptions[peer][s].query = target,
           subscriptions[peer][s].from \in 0..lastRevision
    PROVE  /\ Selects(target, k, ch.record.values) =>
                  \E i : Fresh(peer, i) /\ Carries(outbox'[peer][i], s)
                         /\ About(ChangesIn(outbox'[peer][i]), k) # {}
           /\ ~Selects(target, k, ch.record.values) =>
                  \A i : Fresh(peer, i) /\ ~Answer(outbox'[peer][i]) =>
                             ~Carries(outbox'[peer][i], s)
           /\ \A i : Fresh(peer, i) /\ ~Answer(outbox'[peer][i]) =>
                  Latest(About(ChangesIn(outbox'[peer][i]), k)) = ch
<1>1. ch.revision = lastRevision + 1 /\ lastRevision \in Nat
  BY BoundAssumption DEF Writes, WritesTo, TypeOK
<1>2. Matches(subscriptions[peer][s], ch) <=> Selects(target, k, ch.record.values)
  BY <1>1 DEF Matches
<1>3. ChangesIn(Push(s, ch)) = {ch} /\ Carries(Push(s, ch), s)
  BY DEF Push, ChangesIn, Carries
<1>4. ASSUME Selects(target, k, ch.record.values)
      PROVE  \E i : Fresh(peer, i) /\ Carries(outbox'[peer][i], s)
                    /\ About(ChangesIn(outbox'[peer][i]), k) # {}
  <2>1. PICK i : Fresh(peer, i) /\ outbox'[peer][i] = Push(s, ch)
    BY <1>2, <1>4 DEF Announces
  <2>2. ch \in About(ChangesIn(outbox'[peer][i]), k)
    BY <1>3, <2>1 DEF About
  <2> QED
    BY <1>3, <2>1, <2>2
<1>5. ASSUME NEW i, Fresh(peer, i), ~Answer(outbox'[peer][i])
      PROVE  /\ Latest(About(ChangesIn(outbox'[peer][i]), k)) = ch
             /\ Carries(outbox'[peer][i], s) => Selects(target, k, ch.record.values)
  <2>1. PICK t \in DOMAIN subscriptions[peer] :
            Matches(subscriptions[peer][t], ch) /\ outbox'[peer][i] = Push(t, ch)
    BY <1>5 DEF Announces
  <2>2. ChangesIn(Push(t, ch)) = {ch} /\ (Carries(Push(t, ch), s) => s = t)
    BY DEF Push, ChangesIn, Carries
  <2>3. About({ch}, k) = {ch} /\ Latest({ch}) = ch
    BY <1>1 DEF About, Latest
  <2> QED
    BY <1>2, <2>1, <2>2, <2>3
<1> QED
  BY <1>4, <1>5

\* What is right of record k when the server has told what it has to tell.
Excuses(k) == Excused(k) => Excused(k)' \/ (InScope(k) /\ Written(k))

LEMMA FollowsServed ==
    ASSUME Informs(peer), TypeOK, target \in Queries, UNCHANGED <<target, peer, shown>>,
           Keeps(outbox[peer], outbox'[peer]),
           \A i \in DOMAIN outbox[peer] : \A j : Fresh(peer, j) => i < j,
           \A k \in Key : Excuses(k),
           NEW s \in DOMAIN subscriptions[peer], subscriptions[peer][s].query = target,
           subscriptions'[peer][s] = subscriptions[peer][s], lastRevision' \in Nat,
           lastRevision <= lastRevision',
           \A i : Fresh(peer, i) /\ Answer(outbox'[peer][i]) => ~Carries(outbox'[peer][i], s),
           Follows(s)
    PROVE  Follows(s)'
<1>1. ToClient = outbox[peer] /\ ToClient' = outbox'[peer]
  BY DEF ToClient
<1>2. /\ subscriptions[peer][s].from \in 0..lastRevision
      /\ subscriptions'[peer][s].from \in 0..lastRevision'
  <2>1. lastRevision \in Nat /\ subscriptions[peer][s].from \in 0..lastRevision
    BY BoundAssumption DEF Follows, TypeOK
  <2> QED
    BY <2>1
<1>3. \A i, k : i \in DOMAIN ToClient => /\ i \in DOMAIN ToClient' /\ ToClient'[i] = ToClient[i]
                                         /\ Mentions(i, s, k)' <=> Mentions(i, s, k)
  BY <1>1 DEF Keeps, Mentions
<1>4. \A i, k : Mentions(i, s, k)' => \/ Mentions(i, s, k)
                                      \/ Fresh(peer, i) /\ ~Answer(outbox'[peer][i])
  BY <1>1, <1>3 DEF Mentions, Fresh
<1>5. ASSUME NEW k \in Key
      PROVE  /\ \A i : Mentions(i, s, k)' =>
                    \/ \E j : j > i /\ Mentions(j, s, k)'
                    \/ ToldRightly(ChangesIn(ToClient[i]), k)'
             /\ (\E i : Mentions(i, s, k)') \/ Excused(k)' \/ RowRight(shown, k)'
  <2>1. /\ \A i : Mentions(i, s, k) =>
               \/ \E j : j > i /\ Mentions(j, s, k)
               \/ ToldRightly(ChangesIn(ToClient[i]), k)
        /\ (\E i : Mentions(i, s, k)) \/ Excused(k) \/ RowRight(shown, k)
    BY DEF Follows
  <2>2. \A i : Mentions(i, s, k) => i \in DOMAIN ToClient /\ Mentions(i, s, k)'
    BY <1>3 DEF Mentions
  <2>3. CASE ~Written(k)
    <3>1. /\ row'[k] = row[k] /\ ChangesOf(k)' = ChangesOf(k)
          /\ \A i : Fresh(peer, i) /\ ~Answer(outbox'[peer][i]) =>
                 About(ChangesIn(outbox'[peer][i]), k) = {}
      BY <2>3, NotWritten
    <3>2. \A there, rec : Right(there, rec, k)' <=> Right(there, rec, k)
      BY <3>1, ElsewhereRight
    <3>3. \A i : Mentions(i, s, k)' => Mentions(i, s, k)
      BY <1>1, <1>4, <3>1 DEF Mentions
    <3>4. ASSUME NEW i \in DOMAIN ToClient, ToldRightly(ChangesIn(ToClient[i]), k)
          PROVE  ToldRightly(ChangesIn(ToClient[i]), k)'
      <4>1. ToClient'[i] = ToClient[i]
        BY <1>3, <3>4
      <4> QED
        BY <3>2, <3>4, <4>1 DEF ToldRightly
    <3>5. RowRight(shown, k) => RowRight(shown, k)'
      BY <3>2 DEF RowRight
    <3>6. Excused(k) => Excused(k)'
      BY <2>3 DEF Excuses
    <3> QED
      BY <2>1, <2>2, <3>3, <3>4, <3>5, <3>6
  <2>4. ASSUME NEW ch, Writes(ch), Announces(peer, ch), ch.record.key = k
        PROVE  /\ \A i : Mentions(i, s, k)' =>
                      \/ \E j : j > i /\ Mentions(j, s, k)'
                      \/ ToldRightly(ChangesIn(ToClient[i]), k)'
               /\ (\E i : Mentions(i, s, k)') \/ Excused(k)' \/ RowRight(shown, k)'
    <3>1. /\ Selects(target, k, ch.record.values) =>
                 Right(ch.type # "Delete", ch.record, k)'
          /\ ~Selects(target, k, ch.record.values) =>
                 \A there, rec : Right(there, rec, k) \/ InScope(k) =>
                                     Right(there, rec, k)'
      BY <2>4, WrittenRight DEF Writes
    <3>2. /\ Selects(target, k, ch.record.values) =>
                 \E i : Fresh(peer, i) /\ Carries(outbox'[peer][i], s)
                        /\ About(ChangesIn(outbox'[peer][i]), k) # {}
          /\ ~Selects(target, k, ch.record.values) =>
                 \A i : Fresh(peer, i) /\ ~Answer(outbox'[peer][i]) =>
                            ~Carries(outbox'[peer][i], s)
          /\ \A i : Fresh(peer, i) /\ ~Answer(outbox'[peer][i]) =>
                 Latest(About(ChangesIn(outbox'[peer][i]), k)) = ch
      BY <1>2, <2>4, WrittenIsTold
    <3>3. CASE Selects(target, k, ch.record.values)
      <4>1. PICK n : Fresh(peer, n) /\ Mentions(n, s, k)'
        BY <1>1, <3>2, <3>3 DEF Mentions, Fresh
      <4>2. ASSUME NEW i, Fresh(peer, i), ~Answer(outbox'[peer][i])
            PROVE  ToldRightly(ChangesIn(ToClient[i]), k)'
        <5>1. Latest(About(ChangesIn(ToClient'[i]), k)) = ch
          BY <1>1, <3>2, <4>2
        <5> QED
          BY <3>1, <3>3, <5>1 DEF ToldRightly
      <4>3. \A i \in DOMAIN ToClient : i < n
        BY <1>1, <4>1
      <4>4. \A i : Mentions(i, s, k) => i \in DOMAIN ToClient /\ n > i
        BY <2>2, <4>3
      <4> QED
        BY <1>4, <4>1, <4>2, <4>4
    <3>4. CASE ~Selects(target, k, ch.record.values)
      <4>1. \A i : Mentions(i, s, k)' => Mentions(i, s, k)
        BY <1>1, <1>4, <3>2, <3>4 DEF Mentions
      <4>2. ASSUME NEW i \in DOMAIN ToClient, ToldRightly(ChangesIn(ToClient[i]), k)
            PROVE  ToldRightly(ChangesIn(ToClient[i]), k)'
        <5>1. ToClient'[i] = ToClient[i]
          BY <1>3, <4>2
        <5> QED
          BY <3>1, <3>4, <4>2, <5>1 DEF ToldRightly
      <4>3. RowRight(shown, k) \/ InScope(k) => RowRight(shown, k)'
        BY <3>1, <3>4 DEF RowRight
      <4> QED
        BY <2>1, <2>2, <4>1, <4>2, <4>3 DEF Excuses
    <3> QED
      BY <3>3, <3>4
  <2> QED
    BY <2>3, <2>4 DEF Written
<1> QED
  BY <1>2, <1>5 DEF Follows

-----------------------------------------------------------------------------
(* What a step of the server does to the copy: it takes the first e messages,  *)
(* of which there may be one or none, and answers message m with a.            *)
Shift(e, s, z) ==
    /\ e \in {0, 1}
    /\ \A i \in DOMAIN z : i \in Nat \ {0} /\ i + e \in DOMAIN s /\ z[i] = s[i + e]
    /\ \A i \in DOMAIN s : /\ i \in Nat \ {0}
                           /\ i <= e \/ (i - e \in DOMAIN z /\ z[i - e] = s[i])
Served(e, m, a) ==
    /\ UNCHANGED <<target, peer, shown, rolledBack, calls, subscription,
                   pendingSubscriptions, clientSubscriptions>>
    /\ Informs(peer) /\ Keeps(outbox[peer], outbox'[peer])
    /\ \A i \in DOMAIN outbox'[peer] : i \in Nat \ {0}
    /\ \A i \in DOMAIN outbox[peer] : \A j : Fresh(peer, j) => i < j
    /\ Shift(e, ToServer, ToServer')
    /\ \A i : Fresh(peer, i) /\ Answer(outbox'[peer][i]) =>
           e = 1 /\ outbox'[peer][i] = a /\ \A j \in DOMAIN outbox'[peer] : j <= i
    /\ e = 0 => Untouched(peer)
    /\ e = 1 => /\ m = ToServer[1] /\ 1 \in DOMAIN ToServer
                /\ \E n : Fresh(peer, n) /\ outbox'[peer][n] = a
                /\ Replies(peer, m, a) /\ Serves(peer, m) /\ Settles(peer, m, a)

LEMMA ServerServes ==
    ASSUME "rollback" \notin Faults, SubscriptionInv, IInv, TypeOK', Letters, Idle,
           ServerHandles \/ ServerActs, link'[peer] = "open"
    PROVE  \E e, m, a : Served(e, m, a)
<1>1. /\ link[peer] = "open"
      /\ Overhears \/ \E m, a, n : Serving(m, a, n) /\ Settles(peer, m, a)
  BY ServerMeans
<1>2. /\ ServerSide /\ peer \in Connection
      /\ UNCHANGED <<target, peer, shown, rolledBack, calls, subscription,
                     pendingSubscriptions, clientSubscriptions>>
  BY DEF SubscriptionInv, ClientSide, Idle, rowVars, dispatchVars, socketVars,
         subscriptionVars
<1>3. IsSeq(ToServer) /\ IsSeq(outbox[peer])
  BY <1>2 DEF ServerSide, ServerEnd, ToServer
<1>4. ASSUME IsSeq(outbox'[peer]), Keeps(outbox[peer], outbox'[peer])
      PROVE  /\ \A i \in DOMAIN outbox'[peer] : i \in Nat \ {0}
             /\ \A i \in DOMAIN outbox[peer] : \A j : Fresh(peer, j) => i < j
  <2>1. /\ Len(outbox'[peer]) \in Nat /\ DOMAIN outbox'[peer] = 1..Len(outbox'[peer])
        /\ Len(outbox[peer]) \in Nat /\ DOMAIN outbox[peer] = 1..Len(outbox[peer])
    BY <1>3, <1>4 DEF IsSeq
  <2> QED
    BY <2>1 DEF Fresh
<1>5. CASE Overhears
  <2>1. Shift(0, ToServer, ToServer')
    <3>1. ToServer' = ToServer
      BY <1>2, <1>5 DEF Overhears, ToServer
    <3>2. \A i \in DOMAIN ToServer : i \in Nat \ {0}
      BY <1>3 DEF IsSeq
    <3> QED
      BY <3>1, <3>2 DEF Shift
  <2>2. Served(0, 0, 0)
    BY <1>2, <1>4, <1>5, <2>1 DEF Served, Overhears, OnlyPushed, Fresh, Answer
  <2> QED
    BY <2>2
<1>6. ASSUME NEW m, NEW a, NEW n, Serving(m, a, n), Settles(peer, m, a)
      PROVE  Served(1, m, a)
  <2>1. /\ Rest(ToServer, ToServer') /\ ToServer[1] = m /\ Answered(peer, a, n)
        /\ Replies(peer, m, a) /\ Serves(peer, m)
    BY <1>2, <1>6 DEF Serving, ToServer
  <2>2. Shift(1, ToServer, ToServer') /\ 1 \in DOMAIN ToServer
    BY <2>1 DEF Shift, Rest
  <2>3. Informs(peer)
    BY <1>6 DEF Settles, Informs, Reads, Performs
  <2>4. /\ IsSeq(outbox'[peer]) /\ Keeps(outbox[peer], outbox'[peer])
        /\ Fresh(peer, n) /\ outbox'[peer][n] = a
        /\ \A i : Fresh(peer, i) /\ Answer(outbox'[peer][i]) => i = n
        /\ \A j \in DOMAIN outbox'[peer] : j <= n
    BY <2>1 DEF Answered, Fresh, Answer
  <2> QED
    BY <1>2, <1>4, <1>6, <2>1, <2>2, <2>3, <2>4 DEF Served
<1> QED
  BY <1>1, <1>5, <1>6

\* What is settled stays so: an edit is excused until it is told what came of it.
LEMMA ServedExcuses ==
    ASSUME NEW e, NEW m, NEW a, Served(e, m, a), EditsOwn, Requested,
           NEW k \in Key
    PROVE  Excuses(k)
<1> SUFFICES ASSUME Excused(k) PROVE Excused(k)' \/ (InScope(k) /\ Written(k))
  BY DEF Excuses
<1>1. InScope(k)' <=> InScope(k)
  BY DEF Served, InScope
<1>2. ToClient = outbox[peer] /\ ToClient' = outbox'[peer]
  BY DEF ToClient, Served
<1>3. CASE k \in rolledBack
  BY <1>3 DEF Excused, Served
<1>4. ASSUME InScope(k), NEW i \in DOMAIN ToClient, Refuses(ToClient[i], k)
      PROVE  Excused(k)'
  <2>1. PICK msg : msg = ToClient[i]
    OBVIOUS
  <2>2. i \in DOMAIN ToClient' /\ ToClient'[i] = msg
    BY <1>2, <1>4, <2>1 DEF Served, Keeps
  <2>3. Refuses(msg, k)'
    BY <1>4, <2>1 DEF Refuses, Waits, Served
  <2> QED
    BY <1>1, <1>4, <2>2, <2>3 DEF Excused
<1>5. ASSUME InScope(k), NEW i \in DOMAIN ToServer, Edits(ToServer[i], k)
      PROVE  Excused(k)' \/ Written(k)
  <2>1. CASE i - e \in DOMAIN ToServer' /\ ToServer'[i - e] = ToServer[i]
    <3>1. PICK msg : msg = ToServer[i]
      OBVIOUS
    <3>2. Edits(msg, k)'
      BY <1>5, <3>1 DEF Edits
    <3> QED
      BY <1>1, <1>5, <2>1, <3>1, <3>2 DEF Excused
  <2>2. CASE i <= e
    <3>1. e = 1 /\ i = 1 /\ m = ToServer[1]
      BY <2>2 DEF Served, Shift
    <3>2. /\ m.cmd \in {"update", "delete"} /\ m.key = k
          /\ Waits(m.msgId, "undo") /\ calls[m.msgId].record.key = k
      BY <1>5, <3>1 DEF Edits, EditsOwn, Requested, Requests
    <3>3. PICK n : Fresh(peer, n) /\ outbox'[peer][n] = a
      BY <3>1 DEF Served
    <3>4. CASE Reads(m, a) /\ OnlyAnswered(peer)
      <4>1. a.cmd = "error" /\ a.reply_to = m.msgId
        BY <3>1, <3>2, <3>4 DEF Reads, Served, Replies
      <4>2. Refuses(a, k)'
        BY <3>2, <4>1 DEF Refuses, Waits, Served
      <4> QED
        BY <1>1, <1>2, <1>5, <3>3, <4>2 DEF Excused, Fresh
    <3>5. ASSUME NEW ch, Performs(m, a, ch), Announces(peer, ch)
          PROVE  Written(k)
      BY <3>2, <3>5 DEF Performs, Written
    <3> QED
      BY <3>1, <3>4, <3>5 DEF Served, Settles
  <2> QED
    BY <2>1, <2>2 DEF Served, Shift
<1> QED
  BY <1>3, <1>4, <1>5 DEF Excused

\* What is right of a record stays right, or will be told.
LEMMA ServedRight ==
    ASSUME NEW e, NEW m, NEW a, Served(e, m, a), TypeOK, target \in Queries,
           NEW k \in Key, NEW from \in 0..lastRevision
    PROVE  /\ Later(k, from) => Later(k, from)'
           /\ \A there, rec : Right(there, rec, k) =>
                  Right(there, rec, k)' \/ Later(k, from)'
           /\ InScope(k) /\ Written(k) => Later(k, from)'
<1>1. target' = target /\ Informs(peer)
  BY DEF Served
<1>2. CASE ~Written(k)
  <2>1. row'[k] = row[k] /\ ChangesOf(k)' = ChangesOf(k)
    BY <1>1, <1>2, NotWritten
  <2>2. /\ \A there, rec : Right(there, rec, k)' <=> Right(there, rec, k)
        /\ \A f : Later(k, f)' <=> Later(k, f)
    BY <1>1, <2>1, ElsewhereRight
  <2> QED
    BY <1>2, <2>2
<1>3. ASSUME NEW ch, Writes(ch), Announces(peer, ch), ch.record.key = k
      PROVE  /\ Later(k, from) => Later(k, from)'
             /\ \A there, rec : Right(there, rec, k) =>
                    Right(there, rec, k)' \/ Later(k, from)'
             /\ InScope(k) => Later(k, from)'
  <2>1. /\ ~Selects(target, k, ch.record.values) =>
               \A there, rec : Right(there, rec, k) \/ InScope(k) =>
                                   Right(there, rec, k)'
        /\ InScope(k) => \A f \in 0..lastRevision : Later(k, f)'
        /\ \A f \in Nat : Later(k, f) => Later(k, f)'
    BY <1>1, <1>3, WrittenRight DEF Writes
  <2>2. Selects(target, k, ch.record.values) => InScope(k)
    BY DEF Selects, InScope
  <2>3. from \in Nat
    BY BoundAssumption DEF TypeOK
  <2> QED
    BY <2>1, <2>2, <2>3
<1> QED
  BY <1>2, <1>3 DEF Written

\* What has been found stays right, but for what is told later.
LEMMA ServedLoad ==
    ASSUME NEW e, NEW m, NEW a, Served(e, m, a), TypeOK, target \in Queries,
           lastRevision' \in Nat, lastRevision <= lastRevision',
           NEW records, LoadsRightly(records)
    PROVE  LoadsRightly(records)'
<1>1. PICK from : from = LatestRevision(records)
  OBVIOUS
<1>2. /\ from \in 0..lastRevision
      /\ \A k \in Key : Later(k, from) \/ RowRight(AsRows(records), k)
  BY <1>1 DEF LoadsRightly
<1>3. lastRevision \in Nat
  BY BoundAssumption DEF TypeOK
<1>4. from \in 0..lastRevision'
  BY <1>2, <1>3
<1>5. ASSUME NEW k \in Key PROVE Later(k, from)' \/ RowRight(AsRows(records), k)'
  BY <1>2, ServedRight DEF RowRight
<1> QED
  BY <1>1, <1>4, <1>5 DEF LoadsRightly

\* Neither does a wait for a subscription.
LEMMA ServedWait ==
    ASSUME NEW e, NEW m, NEW a, Served(e, m, a), TypeOK, target \in Queries,
           EditsOwn, Requested, lastRevision' \in Nat, lastRevision <= lastRevision',
           NEW from, CatchesUp(from)
    PROVE  CatchesUp(from)'
<1>1. lastRevision \in Nat /\ from \in 0..lastRevision
  BY BoundAssumption DEF TypeOK, CatchesUp
<1>2. from \in 0..lastRevision'
  BY <1>1
<1>3. ASSUME NEW k \in Key
      PROVE  Later(k, from)' \/ Excused(k)' \/ RowRight(shown, k)'
  <2>1. Later(k, from) \/ Excused(k) \/ RowRight(shown, k)
    BY DEF CatchesUp
  <2>2. shown' = shown
    BY DEF Served
  <2>3. RowRight(shown, k) => RowRight(shown, k)' \/ Later(k, from)'
    BY <1>1, <2>2, ServedRight DEF RowRight
  <2>4. Excused(k) => Excused(k)' \/ Later(k, from)'
    BY <1>1, ServedExcuses, ServedRight DEF Excuses
  <2> QED
    BY <1>1, <2>1, <2>3, <2>4, ServedRight
<1> QED
  BY <1>2, <1>3 DEF CatchesUp

-----------------------------------------------------------------------------
(* What is found, and what has changed since. *)

\* The records of the target are right, all of them.
LEMMA FoundIsRight ==
    ASSUME IInv, target \in Queries
    PROVE  LoadsRightly(Find(target))
<1>1. TypeOK /\ WholeRecords(Find(target))
  BY FindIsWhole DEF IInv
<1>2. PICK records : records = Find(target)
  OBVIOUS
<1>3. \A r \in records : \E k \in Key : r = Found(k) /\ Wanted(k)
  BY <1>2 DEF Find, Wanted, Live
<1>4. \A k \in Key : Wanted(k) => Found(k) \in records
  BY <1>2 DEF Find, Wanted, Live
<1>5. \A k : Found(k).key = k /\ Found(k).latestRevision = Age(k)
  BY DEF Found, Age
<1>6. \A k \in Key : Age(k) \in 0..lastRevision
  <2> SUFFICES ASSUME NEW k \in Key PROVE Age(k) \in 0..lastRevision
    OBVIOUS
  <2>1. ChangesOf(k) \subseteq Change
    BY <1>1 DEF TypeOK, ChangesOf
  <2>2. /\ Age(k) \in 0..MaxRevision
        /\ Age(k) = 0 \/ \E c \in ChangesOf(k) : c.revision = Age(k)
    BY <2>1, NewestIsMax DEF Age
  <2>3. \A c \in ChangesOf(k) : c.revision <= lastRevision
    BY DEF IInv, CountersAhead, ChangesOf
  <2> QED
    BY <1>1, <2>2, <2>3, BoundAssumption DEF TypeOK
<1>7. LatestRevision(records) \in 0..lastRevision
  <2>1. \/ LatestRevision(records) = 0
        \/ \E r \in records : LatestRevision(records) = r.latestRevision
    BY <1>1, <1>2, LatestRevisionIs
  <2> QED
    BY <1>1, <1>3, <1>5, <1>6, <2>1, BoundAssumption DEF TypeOK
<1>8. ASSUME NEW k \in Key PROVE RowRight(AsRows(records), k)
  <2>1. /\ DOMAIN AsRows(records) = {r.key : r \in records}
        /\ \A r \in records : AsRows(records)[r.key] = r
    BY <1>1, <1>2, RowsAre
  <2>2. CASE Wanted(k)
    <3>1. k \in DOMAIN AsRows(records) /\ AsRows(records)[k] = Found(k)
      BY <1>4, <1>5, <2>1, <2>2
    <3> QED
      BY <2>2, <3>1 DEF RowRight, Right
  <2>3. CASE ~Wanted(k)
    <3>1. k \notin DOMAIN AsRows(records)
      BY <1>3, <1>5, <2>1, <2>3
    <3> QED
      BY <2>3, <3>1 DEF RowRight, Right
  <2> QED
    BY <2>2, <2>3
<1> QED
  BY <1>2, <1>7, <1>8 DEF LoadsRightly

\* No answer to a subscription comes to the LIMIT.
NoFullAnswer ==
    \A i \in DOMAIN ToServer : ToServer[i].cmd = "subscribe" =>
        Cardinality(Changes(ToServer[i].query, ToServer[i].from)) < ChangesLimit

\* What an answer with all changes since says of a record is right, and it is
\* silent only about records that have not changed.
LEMMA AnswerIsRight ==
    ASSUME EngineInv, phase = "up", target \in Queries, NEW from \in Nat,
           Cardinality(Changes(target, from)) < ChangesLimit, NEW k \in Key
    PROVE  IF About(Changes(target, from), k) = {} THEN ~Later(k, from)
                                                   ELSE ToldRightly(Changes(target, from), k)
<1>1. TypeOK /\ OnePerRevision /\ Told(k) /\ ChangesOf(k) \subseteq Change
  BY DEF EngineInv, IInv, LogTellsRows, Settled, TypeOK, ChangesOf
<1>2. PICK changes : changes = Changes(target, from)
  OBVIOUS
<1>3. ChangesLimit \in Nat /\ Cardinality(changes) < ChangesLimit
  BY <1>2, BoundAssumption
<1>4. ASSUME NEW c \in LogSince(target, from), c.key = k
      PROVE  AsTold(c) \in About(changes, k)
  <2>1. c \in ChangesSince(target, from)
    <3>1. SUFFICES ASSUME c \notin ChangesSince(target, from)
                   PROVE  FALSE
      OBVIOUS
    <3>2. Cardinality(changes) >= ChangesLimit
      BY <1>1, <1>2, <1>4, <3>1, AnswerIsOldest
    <3>3. IsFiniteSet(changes)
      <4> DEFINE f == [ch \in changes |-> ch.revision]
      <4>1. WholeChanges(changes)
        BY <1>1, <1>2, ChangesAreWhole
      <4>2. f \in Injection(changes, 0..MaxRevision)
        BY <4>1 DEF WholeChanges, Injection, IsInjective
      <4>3. IsFiniteSet(0..MaxRevision)
        BY BoundAssumption, FS_Interval
      <4> QED
        BY <4>2, <4>3, FS_Injection
    <3>4. Cardinality(changes) \in Nat
      BY <3>3, FS_CardinalityType
    <3> QED
      BY <1>3, <3>2, <3>4
  <2>2. AsTold(c) \in changes /\ AsTold(c).record.key = k
    BY <1>2, <1>4, <2>1, ChangesAreTold DEF AsTold, Found
  <2> QED
    BY <2>2 DEF About
<1>5. \A ch \in About(changes, k) : \E c \in LogSince(target, from) : c.key = k /\ ch = AsTold(c)
  <2>1. \A ch \in changes : \E c \in LogSince(target, from) : ch = AsTold(c)
    BY <1>2, ChangesAreTold
  <2> QED
    BY <2>1 DEF About, AsTold, Found
<1>6. ASSUME About(changes, k) = {}, Later(k, from) PROVE FALSE
  <2>1. Age(k) \in 0..MaxRevision /\ Age(k) > from /\ InScope(k)
    BY <1>1, <1>6, NewestIsMax DEF Later, Age
  <2>2. Age(k) = 0 \/ \E c \in ChangesOf(k) : c.revision = Age(k)
    BY <1>1, NewestIsMax DEF Age
  <2>3. PICK c \in ChangesOf(k) : c.revision = Age(k)
    BY <2>1, <2>2
  <2>4. c \in LogSince(target, from) /\ c.key = k
    BY <2>1, <2>3 DEF LogSince, ChangesOf, InScope
  <2> QED
    BY <1>4, <1>6, <2>4
<1>7. ASSUME About(changes, k) # {} PROVE ToldRightly(changes, k)
  <2>1. WholeChanges(changes)
    BY <1>1, <1>2, ChangesAreWhole
  <2>2. PICK last : last = Latest(About(changes, k))
    OBVIOUS
  <2>3. /\ last \in About(changes, k)
        /\ \A ch \in About(changes, k) : ch.revision <= last.revision
    BY <1>7, <2>1, <2>2, LatestIsLast DEF WholeChanges, About
  <2>4. PICK c \in LogSince(target, from) : c.key = k /\ last = AsTold(c)
    BY <1>5, <2>3
  <2>5. /\ last.type = c.type /\ last.record = Found(k) /\ last.revision = c.revision
        /\ c \in change /\ c \in ChangesOf(k) /\ c.revision > from /\ InScope(k)
    BY <2>4 DEF AsTold, LogSince, ChangesOf, InScope
  <2>6. Wanted(k) => c.type # "Delete"
    BY <1>1, <2>5 DEF Wanted, Live, Told
  <2>7. ASSUME row[k].status = "deleted" PROVE c.type = "Delete"
    <3>1. PICK d \in ChangesOf(k) :
              d.type = "Delete" /\ \A x \in ChangesOf(k) : x.revision <= d.revision
      BY <1>1, <2>7 DEF Told
    <3>2. c.revision \in Nat /\ d.revision \in Nat /\ c.revision <= d.revision
      BY <1>1, <2>5, <3>1, BoundAssumption DEF Change, Revision
    <3>3. d \in LogSince(target, from) /\ d.key = k
      BY <2>5, <3>1, <3>2 DEF LogSince, ChangesOf, InScope
    <3>4. AsTold(d) \in About(changes, k) /\ AsTold(d).revision = d.revision
      BY <1>4, <3>3 DEF AsTold
    <3>5. d.revision <= c.revision
      BY <2>3, <2>5, <3>4
    <3>6. d = c
      BY <1>1, <2>5, <3>1, <3>2, <3>5 DEF OnePerRevision, ChangesOf
    <3> QED
      BY <3>1, <3>6
  <2>8. PlainTarget /\ c.type # "Delete" => Wanted(k)
    <3>1. /\ row[k].status \in {"absent", "live", "deleted"}
          /\ row[k].values \in [Field -> Value]
      BY <1>1 DEF TypeOK, Row
    <3>2. row[k].status # "absent"
      BY <1>1, <2>5 DEF Told
    <3> QED
      BY <2>5, <2>7, <3>1, <3>2 DEF PlainTarget, Wanted, Live, Selects, InScope
  <2> QED
    BY <2>2, <2>5, <2>6, <2>8 DEF ToldRightly, Right
<1> QED
  BY <1>2, <1>6, <1>7

-----------------------------------------------------------------------------
(* The copy when the server has taken a step. *)

Settling(e, m, a) ==
    /\ Served(e, m, a) /\ EngineInv /\ phase = "up" /\ target \in Queries
    /\ Linked /\ Copies /\ NoFullAnswer
    /\ nextSubscriptionId[peer] \in Nat \ {0}
    /\ DOMAIN subscriptions[peer] \subseteq 1..nextSubscriptionId[peer] - 1

\* The answer to m grants subscription s, and nothing else happens.
Grants(m, a, s) ==
    /\ m = ToServer[1] /\ 1 \in DOMAIN ToServer /\ m.cmd = "subscribe"
    /\ Gives(a, s) /\ s = nextSubscriptionId[peer] /\ a.reply_to = m.msgId
    /\ Still /\ OnlyAnswered(peer) /\ a.data.changes = Changes(m.query, m.from)
    /\ subscriptions'[peer] = With(subscriptions[peer], s,
                                   [query |-> m.query, from |-> m.from])

LEMMA RevisionsCount ==
    ASSUME TypeOK, Informs(peer)
    PROVE  lastRevision \in Nat /\ lastRevision' \in Nat /\ lastRevision <= lastRevision'
<1>1. lastRevision \in Nat
  BY BoundAssumption DEF TypeOK
<1>2. lastRevision' = lastRevision \/ lastRevision' = lastRevision + 1
  BY DEF Informs, Still, Writes, WritesTo
<1> QED
  BY <1>1, <1>2

\* Old subscriptions are as they were; a new one has been granted.
LEMMA ServedSubscriptions ==
    ASSUME NEW e, NEW m, NEW a, Settling(e, m, a)
    PROVE  /\ nextSubscriptionId'[peer] \in Nat
           /\ nextSubscriptionId[peer] <= nextSubscriptionId'[peer]
           /\ \A s \in DOMAIN subscriptions[peer] :
                  s \in DOMAIN subscriptions'[peer] =>
                      subscriptions'[peer][s] = subscriptions[peer][s]
           /\ (\A i \in DOMAIN ToServer : ToServer[i].cmd # "subscribe") =>
                  DOMAIN subscriptions'[peer] \subseteq DOMAIN subscriptions[peer]
           /\ e = 1 /\ m.cmd = "subscribe" =>
                  nextSubscriptionId'[peer] = nextSubscriptionId[peer] + 1
<1>1. CASE e = 0
  <2>1. Untouched(peer)
    BY <1>1 DEF Settling, Served
  <2> QED
    BY <1>1, <2>1 DEF Untouched, Settling
<1>2. CASE e = 1
  <2>1. /\ m = ToServer[1] /\ 1 \in DOMAIN ToServer /\ Serves(peer, m)
        /\ authenticated[peer] /\ Requests(m)
    BY <1>2 DEF Settling, Served, Linked, Requested
  <2>2. CASE m.cmd = "subscribe"
    <3>1. /\ nextSubscriptionId'[peer] = nextSubscriptionId[peer] + 1
          /\ subscriptions'[peer] = With(subscriptions[peer], nextSubscriptionId[peer],
                                         [query |-> m.query, from |-> m.from])
      BY <2>1, <2>2 DEF Serves
    <3>2. \A s \in DOMAIN subscriptions[peer] : s # nextSubscriptionId[peer]
      BY DEF Settling
    <3> QED
      BY <2>1, <2>2, <3>1, <3>2 DEF With, Settling
  <2>3. CASE m.cmd = "unsubscribe"
    BY <2>1, <2>3 DEF Serves, Settling
  <2>4. CASE m.cmd \notin {"subscribe", "unsubscribe"}
    <3>1. m.cmd # "unsubscribe_query"
      BY <2>1 DEF Requests
    <3>2. Untouched(peer)
      BY <2>1, <2>4, <3>1 DEF Serves
    <3> QED
      BY <2>4, <3>2 DEF Untouched, Settling
  <2> QED
    BY <2>2, <2>3, <2>4
<1> QED
  BY <1>1, <1>2 DEF Settling, Served, Shift

\* A message that comes up carries changes of a subscription that was there, or
\* grants one.
LEMMA FreshCarries ==
    ASSUME NEW e, NEW m, NEW a, Settling(e, m, a), NEW i, Fresh(peer, i),
           NEW s, Carries(outbox'[peer][i], s)
    PROVE  \/ ~Answer(outbox'[peer][i]) /\ s \in DOMAIN subscriptions[peer]
           \/ /\ e = 1 /\ outbox'[peer][i] = a /\ Grants(m, a, s)
              /\ \A j \in DOMAIN outbox'[peer] : j <= i
<1>1. CASE ~Answer(outbox'[peer][i])
  <2>1. Informs(peer)
    BY DEF Settling, Served
  <2>2. PICK ch : Announces(peer, ch)
    BY <1>1, <2>1 DEF Informs, OnlyAnswered
  <2>3. PICK t \in DOMAIN subscriptions[peer] : outbox'[peer][i] = Push(t, ch)
    BY <1>1, <2>2 DEF Announces
  <2>4. s = t
    BY <2>3 DEF Carries, Push
  <2> QED
    BY <1>1, <2>3, <2>4
<1>2. CASE Answer(outbox'[peer][i])
  <2>1. /\ e = 1 /\ outbox'[peer][i] = a /\ \A j \in DOMAIN outbox'[peer] : j <= i
        /\ m = ToServer[1] /\ 1 \in DOMAIN ToServer
        /\ Replies(peer, m, a) /\ Serves(peer, m) /\ Settles(peer, m, a)
    BY <1>2 DEF Settling, Served
  <2>2. Gives(a, s) /\ IsReply(a, "subscribe")
    BY <1>2, <2>1 DEF Carries, Answer, Gives, IsReply
  <2>3. m.cmd = "subscribe"
    BY <2>1, <2>2 DEF Replies, IsReply
  <2>4. authenticated[peer] /\ a.cmd = "reply"
    BY <2>2 DEF Settling, Linked, IsReply
  <2>5. s = nextSubscriptionId[peer] /\ a.reply_to = m.msgId
    BY <2>1, <2>2, <2>3, <2>4 DEF Replies, Gives
  <2>6. Reads(m, a) /\ OnlyAnswered(peer)
    BY <2>1, <2>2 DEF Settles, Performs
  <2>7. subscriptions'[peer] = With(subscriptions[peer], s,
                                    [query |-> m.query, from |-> m.from])
    BY <2>1, <2>3, <2>4, <2>5 DEF Serves
  <2> QED
    BY <2>1, <2>2, <2>3, <2>5, <2>6, <2>7 DEF Grants, Reads
<1> QED
  BY <1>1, <1>2

\* Ids come up in order, and first in the answer that grants them.
LEMMA ServedKnowsIds ==
    ASSUME NEW e, NEW m, NEW a, Settling(e, m, a)
    PROVE  KnownIds' /\ GivenFirst'
<1>1. /\ ToClient = outbox[peer] /\ ToClient' = outbox'[peer] /\ peer' = peer
      /\ \A i \in DOMAIN ToClient : i \in DOMAIN ToClient' /\ ToClient'[i] = ToClient[i]
      /\ \A i \in DOMAIN ToClient : \A j : Fresh(peer, j) => i < j
      /\ \A i \in DOMAIN ToClient' : i \in Nat \ {0}
      /\ \A i \in DOMAIN ToClient' : i \in DOMAIN ToClient \/ Fresh(peer, i)
  BY DEF ToClient, Settling, Served, Keeps, Fresh
<1>2. /\ nextSubscriptionId[peer] \in Nat /\ nextSubscriptionId'[peer] \in Nat
      /\ nextSubscriptionId[peer] <= nextSubscriptionId'[peer]
      /\ e = 1 /\ m.cmd = "subscribe" =>
             nextSubscriptionId'[peer] = nextSubscriptionId[peer] + 1
  BY ServedSubscriptions DEF Settling
<1>3. /\ KnownIds /\ GivenFirst
      /\ \A s \in DOMAIN subscriptions[peer] : s \in Nat /\ s < nextSubscriptionId[peer]
  BY DEF Settling, Copies
<1>4. ASSUME NEW i \in DOMAIN ToClient', NEW s, Carries(ToClient'[i], s)
      PROVE  s \in Nat /\ s < nextSubscriptionId'[peer]
  <2>1. CASE i \in DOMAIN ToClient
    BY <1>1, <1>2, <1>3, <1>4, <2>1 DEF KnownIds
  <2>2. CASE Fresh(peer, i)
    <3>1. \/ s \in DOMAIN subscriptions[peer]
          \/ e = 1 /\ Grants(m, a, s)
      BY <1>1, <1>4, <2>2, FreshCarries
    <3> QED
      BY <1>2, <1>3, <3>1 DEF Grants
  <2> QED
    BY <1>1, <2>1, <2>2
<1>5. ASSUME NEW i \in DOMAIN ToClient', NEW j \in DOMAIN ToClient', NEW s,
             Gives(ToClient'[i], s), Carries(ToClient'[j], s)
      PROVE  i <= j
  <2>1. CASE i \in DOMAIN ToClient /\ j \in DOMAIN ToClient
    BY <1>1, <1>3, <1>5, <2>1 DEF GivenFirst
  <2>2. CASE i \in DOMAIN ToClient /\ Fresh(peer, j)
    BY <1>1, <2>2
  <2>3. CASE Fresh(peer, i)
    <3>1. Answer(ToClient'[i]) /\ Carries(ToClient'[i], s)
      BY <1>5 DEF Gives, IsReply, Answer, Carries
    <3>2. Grants(m, a, s)
      BY <1>1, <2>3, <3>1, FreshCarries
    <3>3. CASE j \in DOMAIN ToClient
      BY <1>1, <1>2, <1>3, <1>5, <3>2, <3>3 DEF KnownIds, Grants
    <3>4. CASE Fresh(peer, j)
      <4>1. Answer(ToClient'[j])
        BY <1>1, <3>2, <3>4 DEF Grants, OnlyAnswered
      <4>2. \A l \in DOMAIN outbox'[peer] : l <= j
        BY <1>1, <3>4, <4>1 DEF Settling, Served
      <4> QED
        BY <1>1, <4>2
    <3> QED
      BY <1>1, <3>3, <3>4
  <2> QED
    BY <1>1, <2>1, <2>2, <2>3
<1>6. KnownIds'
  BY <1>1, <1>4 DEF KnownIds
<1>7. GivenFirst'
  BY <1>5 DEF GivenFirst
<1> QED
  BY <1>6, <1>7

\* A load that was asked for goes on, with the right target and the right rows.
LEMMA ServedFinds ==
    ASSUME NEW e, NEW m, NEW a, Settling(e, m, a)
    PROVE  FindsTarget' /\ FoundRightly' /\ (Finding => Finding')
<1>1. /\ ToClient = outbox[peer] /\ ToClient' = outbox'[peer] /\ target' = target
      /\ \A i \in DOMAIN ToClient : i \in DOMAIN ToClient' /\ ToClient'[i] = ToClient[i]
      /\ \A i \in DOMAIN ToClient : \A j : Fresh(peer, j) => i < j
      /\ \A i \in DOMAIN ToClient' : i \in Nat \ {0}
      /\ \A i \in DOMAIN ToClient' : i \in DOMAIN ToClient \/ Fresh(peer, i)
      /\ Shift(e, ToServer, ToServer')
  BY DEF ToClient, Settling, Served, Keeps, Fresh
<1>2. FindsTarget /\ FoundRightly /\ TypeOK /\ IInv /\ target \in Queries
  BY DEF Settling, Copies, EngineInv, IInv
<1>3. FindsTarget'
  <2> SUFFICES ASSUME NEW i \in DOMAIN ToServer', ToServer'[i].cmd = "find"
               PROVE  \/ \E j \in DOMAIN ToServer' : j > i /\ ToServer'[j].cmd = "find"
                      \/ ToServer'[i].query = target
    BY <1>1 DEF FindsTarget
  <2>1. i \in Nat /\ i + e \in DOMAIN ToServer /\ ToServer'[i] = ToServer[i + e]
    BY <1>1 DEF Shift
  <2>2. CASE ToServer[i + e].query = target
    BY <2>1, <2>2
  <2>3. ASSUME NEW j \in DOMAIN ToServer, j > i + e, ToServer[j].cmd = "find"
        PROVE  \E l \in DOMAIN ToServer' : l > i /\ ToServer'[l].cmd = "find"
    <3>1. j \in Nat /\ e \in {0, 1} /\ ~(j <= e) /\ j - e > i
      BY <1>1, <2>1, <2>3 DEF Shift
    <3> QED
      BY <1>1, <2>3, <3>1 DEF Shift
  <2> QED
    BY <1>2, <2>1, <2>2, <2>3 DEF FindsTarget
\* The find that is served, if it is the last one, is answered with the rows.
<1>4. ASSUME e = 1, m.cmd = "find"
      PROVE  \E n : /\ Fresh(peer, n) /\ outbox'[peer][n] = a /\ IsReply(a, "find")
                    /\ \A j \in DOMAIN outbox'[peer] : j <= n
                    /\ a.data.records = Find(m.query) /\ Still
  <2>1. /\ m = ToServer[1] /\ Replies(peer, m, a) /\ Settles(peer, m, a)
        /\ authenticated[peer] /\ change # {}
    BY <1>4 DEF Settling, Served, Linked
  <2>2. IsReply(a, "find")
    BY <1>4, <2>1 DEF Replies, IsReply
  <2>3. Reads(m, a)
    BY <2>1, <2>2 DEF Settles, Performs
  <2>4. PICK n : Fresh(peer, n) /\ outbox'[peer][n] = a
    BY <1>4 DEF Settling, Served
  <2>5. Answer(a)
    BY <2>2 DEF IsReply, Answer
  <2>6. \A j \in DOMAIN outbox'[peer] : j <= n
    BY <2>4, <2>5 DEF Settling, Served
  <2> QED
    BY <2>2, <2>3, <2>4, <2>6 DEF Reads
<1>5. ASSUME NEW i, Fresh(peer, i), IsReply(outbox'[peer][i], "find")
      PROVE  e = 1 /\ m.cmd = "find" /\ 1 \in DOMAIN ToServer /\ m = ToServer[1]
  <2>1. Answer(outbox'[peer][i])
    BY <1>5 DEF IsReply, Answer
  <2>2. e = 1 /\ outbox'[peer][i] = a
    BY <1>5, <2>1 DEF Settling, Served
  <2>3. Replies(peer, m, a) /\ 1 \in DOMAIN ToServer /\ m = ToServer[1]
    BY <2>2 DEF Settling, Served
  <2> QED
    BY <1>5, <2>2, <2>3 DEF Replies, IsReply
<1>6. ASSUME NEW i \in DOMAIN ToServer, ToServer[i].cmd = "find"
      PROVE  \/ \E l \in DOMAIN ToServer' : ToServer'[l].cmd = "find"
             \/ e = 1 /\ i = 1 /\ m.cmd = "find" /\ m = ToServer[1]
  <2>1. CASE i <= e
    BY <1>1, <1>6, <2>1 DEF Shift, Settling, Served
  <2>2. CASE ~(i <= e)
    BY <1>1, <1>6, <2>2 DEF Shift
  <2> QED
    BY <2>1, <2>2
<1>7. ASSUME Finding PROVE Finding'
  <2>1. ASSUME NEW i \in DOMAIN ToServer, ToServer[i].cmd = "find" PROVE Finding'
    BY <1>1, <1>4, <1>6, <2>1 DEF Finding, Fresh
  <2>2. ASSUME NEW i \in DOMAIN ToClient, IsReply(ToClient[i], "find") PROVE Finding'
    BY <1>1, <2>2 DEF Finding
  <2> QED
    BY <1>7, <2>1, <2>2 DEF Finding
<1>8. FoundRightly'
  <2> SUFFICES ASSUME ~\E l \in DOMAIN ToServer' : ToServer'[l].cmd = "find",
                      NEW i \in DOMAIN ToClient', IsReply(ToClient'[i], "find"),
                      ~\E j \in DOMAIN ToClient' : j > i /\ IsReply(ToClient'[j], "find")
               PROVE  LoadsRightly(ToClient[i].data.records)'
    BY DEF FoundRightly
  <2>1. PICK records : records = ToClient'[i].data.records
    OBVIOUS
  <2>2. lastRevision' \in Nat /\ lastRevision <= lastRevision' /\ Served(e, m, a)
    BY <1>2, RevisionsCount DEF Settling, Served
  <2>3. LoadsRightly(records) => LoadsRightly(records)'
    BY <1>2, <2>2, ServedLoad
  <2>4. LoadsRightly(records)
    <3>1. CASE \E l \in DOMAIN ToServer : ToServer[l].cmd = "find"
      <4>1. /\ e = 1 /\ m.cmd = "find" /\ m = ToServer[1] /\ 1 \in DOMAIN ToServer
            /\ \A l \in DOMAIN ToServer : ToServer[l].cmd = "find" => l = 1
        BY <1>6, <3>1
      <4>2. m.query = target
        BY <1>2, <4>1 DEF FindsTarget
      <4>3. PICK n : /\ Fresh(peer, n) /\ outbox'[peer][n] = a /\ IsReply(a, "find")
                     /\ \A j \in DOMAIN outbox'[peer] : j <= n
                     /\ a.data.records = Find(m.query)
        BY <1>4, <4>1
      <4>4. n \in DOMAIN ToClient' /\ i <= n
        BY <1>1, <4>3 DEF Fresh
      <4>5. i = n
        BY <1>1, <4>3, <4>4
      <4> QED
        BY <1>1, <1>2, <2>1, <4>2, <4>3, <4>5, FoundIsRight
    <3>2. CASE ~\E l \in DOMAIN ToServer : ToServer[l].cmd = "find"
      <4>1. i \in DOMAIN ToClient
        BY <1>1, <1>5, <3>2
      <4> QED
        BY <1>1, <1>2, <2>1, <3>2, <4>1 DEF FoundRightly
    <3> QED
      BY <3>1, <3>2
  <2> QED
    BY <2>1, <2>3, <2>4
<1> QED
  BY <1>3, <1>7, <1>8

\* The edits that are under way are still those of their calls.
LEMMA ServedEdits ==
    ASSUME NEW e, NEW m, NEW a, Settling(e, m, a)
    PROVE  EditsOwn'
<1> SUFFICES ASSUME NEW i \in DOMAIN ToServer', ToServer'[i].cmd \in {"update", "delete"}
             PROVE  calls'[ToServer'[i].msgId].record.key = ToServer'[i].key
  BY DEF EditsOwn
<1>1. i + e \in DOMAIN ToServer /\ ToServer'[i] = ToServer[i + e] /\ calls' = calls
  BY DEF Settling, Served, Shift
<1> QED
  BY <1>1 DEF EditsOwn, Settling, Copies

\* A subscription that has been asked for will still catch up.
LEMMA ServedAsks ==
    ASSUME NEW e, NEW m, NEW a, Settling(e, m, a), AsksRightly
    PROVE  AsksRightly'
<1> SUFFICES ASSUME subscription' \in pendingSubscriptions',
                    NEW i \in DOMAIN ToServer', AskedFor(ToServer[i])'
             PROVE  CatchesUp(ToServer[i].from)'
  BY DEF AsksRightly
<1>1. PICK msg : msg = ToServer'[i]
  OBVIOUS
<1>2. i + e \in DOMAIN ToServer /\ ToServer[i + e] = msg
  BY <1>1 DEF Settling, Served, Shift
<1>3. AskedFor(msg) /\ subscription \in pendingSubscriptions
  BY <1>1 DEF AskedFor, Settling, Served
<1>4. CatchesUp(msg.from)
  BY <1>2, <1>3 DEF AsksRightly
<1>5. /\ Served(e, m, a) /\ TypeOK /\ target \in Queries /\ EditsOwn /\ Requested
      /\ lastRevision' \in Nat /\ lastRevision <= lastRevision'
  BY RevisionsCount DEF Settling, Served, Copies, Linked, EngineInv, IInv
<1>6. CatchesUp(msg.from)'
  BY <1>4, <1>5, ServedWait
<1> QED
  BY <1>1, <1>6

\* A subscription that was there goes on to be told what is right.
LEMMA ServedFollows ==
    ASSUME NEW e, NEW m, NEW a, Settling(e, m, a), NEW s \in DOMAIN subscriptions[peer],
           Listening(s)', Follows(s)
    PROVE  Follows(s)'
<1>1. /\ Served(e, m, a) /\ TypeOK /\ target \in Queries /\ EditsOwn /\ Requested
      /\ Informs(peer) /\ UNCHANGED <<target, peer, shown>>
      /\ Keeps(outbox[peer], outbox'[peer])
      /\ \A i \in DOMAIN outbox[peer] : \A j : Fresh(peer, j) => i < j
      /\ lastRevision' \in Nat /\ lastRevision <= lastRevision'
  BY RevisionsCount DEF Settling, Served, Copies, Linked, EngineInv, IInv
<1>2. \A k \in Key : Excuses(k)
  BY <1>1, ServedExcuses
<1>3. s \in DOMAIN subscriptions'[peer] /\ subscriptions'[peer][s].query = target
  BY <1>1 DEF Listening
<1>4. subscriptions'[peer][s] = subscriptions[peer][s]
  BY <1>3, ServedSubscriptions
<1>5. \A i : Fresh(peer, i) /\ Answer(outbox'[peer][i]) => ~Carries(outbox'[peer][i], s)
  <2>1. s # nextSubscriptionId[peer]
    BY DEF Settling
  <2> SUFFICES ASSUME NEW i, Fresh(peer, i), Answer(outbox'[peer][i]),
                      Carries(outbox'[peer][i], s)
               PROVE  FALSE
    OBVIOUS
  <2>2. Grants(m, a, s)
    BY FreshCarries
  <2> QED
    BY <2>1, <2>2 DEF Grants
<1> QED
  BY <1>1, <1>2, <1>3, <1>4, <1>5, FollowsServed

\* With its answer a new subscription has told all there is.
LEMMA GrantedFollows ==
    ASSUME NEW e, NEW m, NEW a, Settling(e, m, a), e = 1, NEW s, Grants(m, a, s),
           m.query = target, CatchesUp(m.from)
    PROVE  Follows(s)'
<1>1. /\ Served(e, m, a) /\ EngineInv /\ phase = "up" /\ target \in Queries
      /\ EditsOwn /\ Requested /\ KnownIds
      /\ UNCHANGED <<target, peer, shown>>
      /\ ToClient = outbox[peer] /\ ToClient' = outbox'[peer]
  BY DEF Settling, Served, Copies, Linked, ToClient
<1>2. PICK from : from = m.from
  OBVIOUS
<1>3. lastRevision \in Nat /\ from \in 0..lastRevision /\ from \in Nat
  BY <1>1, <1>2, BoundAssumption DEF CatchesUp, EngineInv, IInv, TypeOK
<1>4. /\ Still /\ OnlyAnswered(peer) /\ a.data.changes = Changes(target, from)
      /\ subscriptions'[peer][s].from = from
  BY <1>2 DEF Grants, With
<1>5. PICK changes : changes = Changes(target, from)
  OBVIOUS
<1>6. Cardinality(Changes(target, from)) < ChangesLimit
  BY <1>2 DEF Settling, NoFullAnswer, Grants
<1>7. ASSUME NEW i, NEW k, Mentions(i, s, k)'
      PROVE  ToClient'[i] = a /\ About(changes, k) # {}
  <2>1. i \in DOMAIN ToClient' /\ Carries(ToClient'[i], s)
        /\ About(ChangesIn(ToClient'[i]), k) # {}
    BY <1>7 DEF Mentions
  <2>2. CASE i \in DOMAIN ToClient
    <3>1. ToClient'[i] = ToClient[i]
      BY <1>1, <2>2 DEF Served, Keeps
    <3>2. s < nextSubscriptionId[peer] /\ s = nextSubscriptionId[peer]
          /\ nextSubscriptionId[peer] \in Nat
      BY <1>1, <2>1, <2>2, <3>1 DEF KnownIds, Grants, Settling
    <3> QED
      BY <3>2
  <2>3. CASE Fresh(peer, i)
    <3>1. Answer(outbox'[peer][i])
      BY <1>4, <2>3 DEF OnlyAnswered
    <3>2. ToClient'[i] = a
      BY <1>1, <2>3, <3>1 DEF Served
    <3>3. ChangesIn(a) = changes
      BY <1>1, <1>4, <1>5, <2>3, <3>1, <3>2 DEF ChangesIn, Answer
    <3> QED
      BY <2>1, <3>2, <3>3
  <2> QED
    BY <1>1, <2>1, <2>2, <2>3 DEF Fresh
<1>8. PICK n : Fresh(peer, n) /\ outbox'[peer][n] = a
  BY DEF Settling, Served
<1>9. ASSUME NEW k \in Key
      PROVE  /\ About(changes, k) # {} => /\ Mentions(n, s, k)'
                                         /\ ToldRightly(ChangesIn(a), k)'
             /\ About(changes, k) = {} => Excused(k)' \/ RowRight(shown, k)'
  <2>1. IF About(changes, k) = {} THEN ~Later(k, from) ELSE ToldRightly(changes, k)
    BY <1>1, <1>3, <1>5, <1>6, AnswerIsRight
  <2>2. \A there, rec : Right(there, rec, k)' <=> Right(there, rec, k)
    <3>1. row'[k] = row[k] /\ ChangesOf(k)' = ChangesOf(k)
      BY <1>4 DEF Still, ChangesOf
    <3> QED
      BY <1>1, <3>1, ElsewhereRight
  <2>3. ChangesIn(a) = changes /\ Carries(a, s)
    <3>1. IsReply(a, "subscribe") /\ a.data.subscription = s
      BY DEF Grants, Gives
    <3> QED
      BY <1>4, <1>5, <3>1 DEF ChangesIn, IsReply, Carries
  <2>4. ASSUME About(changes, k) # {}
        PROVE  Mentions(n, s, k)' /\ ToldRightly(ChangesIn(a), k)'
    <3>1. Mentions(n, s, k)'
      BY <1>1, <1>8, <2>3, <2>4 DEF Mentions, Fresh
    <3>2. ToldRightly(ChangesIn(a), k)'
      BY <2>1, <2>2, <2>3, <2>4 DEF ToldRightly
    <3> QED
      BY <3>1, <3>2
  <2>5. ASSUME About(changes, k) = {} PROVE Excused(k)' \/ RowRight(shown, k)'
    <3>1. Excused(k) \/ RowRight(shown, k)
      BY <1>2, <2>1, <2>5 DEF CatchesUp
    <3>2. RowRight(shown, k) => RowRight(shown, k)'
      BY <1>1, <2>2 DEF RowRight
    <3>3. ~Written(k)
      BY <1>3, <1>4 DEF Written, Writes, WritesTo, Still
    <3>4. Excused(k) => Excused(k)'
      BY <1>1, <3>3, ServedExcuses DEF Excuses
    <3> QED
      BY <3>1, <3>2, <3>4
  <2> QED
    BY <2>4, <2>5
<1>10. subscriptions'[peer][s].from \in 0..lastRevision'
  BY <1>3, <1>4 DEF Still
<1>11. ASSUME NEW k \in Key
       PROVE  /\ \A i : Mentions(i, s, k)' =>
                     \/ \E j : j > i /\ Mentions(j, s, k)'
                     \/ ToldRightly(ChangesIn(ToClient[i]), k)'
              /\ (\E i : Mentions(i, s, k)') \/ Excused(k)' \/ RowRight(shown, k)'
  <2>1. ASSUME NEW i, Mentions(i, s, k)'
        PROVE  ToldRightly(ChangesIn(ToClient[i]), k)'
    <3>1. ToClient'[i] = a /\ About(changes, k) # {}
      BY <1>7, <2>1
    <3>2. ToldRightly(ChangesIn(a), k)'
      BY <1>9, <3>1
    <3> QED
      BY <3>1, <3>2
  <2> QED
    BY <1>9, <2>1
<1> QED
  BY <1>1, <1>10, <1>11 DEF Follows

\* The subscription that is granted tells what is right, ...
LEMMA ServedGrants ==
    ASSUME NEW e, NEW m, NEW a, Settling(e, m, a), AsksRightly, GrantsRightly
    PROVE  GrantsRightly'
<1> SUFFICES ASSUME subscription' \in pendingSubscriptions',
                    NEW i \in DOMAIN ToClient', GrantedBy(ToClient[i])'
             PROVE  Follows(ToClient[i].data.subscription)'
  BY DEF GrantsRightly
<1>1. PICK msg : msg = ToClient'[i]
  OBVIOUS
<1>2. PICK s : Gives(msg, s) /\ Listening(s)'
  BY <1>1 DEF GrantedBy
<1>3. /\ ToClient = outbox[peer] /\ ToClient' = outbox'[peer]
      /\ UNCHANGED <<calls, target, subscription, pendingSubscriptions>>
      /\ s = msg.data.subscription /\ peer' = peer
      /\ calls[msg.reply_to].object = subscription
      /\ subscription \in pendingSubscriptions
  BY <1>1, <1>2 DEF Settling, Served, ToClient, Gives, GrantedBy
<1>4. CASE i \in DOMAIN ToClient
  <2>1. ToClient[i] = msg
    BY <1>1, <1>3, <1>4 DEF Settling, Served, Keeps
  <2>2. s \in DOMAIN subscriptions[peer]
    BY <1>2, <1>4, <2>1 DEF Settling, Linked, Ids, Given
  <2>3. Listening(s)
    <3>1. subscriptions'[peer][s] = subscriptions[peer][s]
      BY <1>2, <1>3, <2>2, ServedSubscriptions DEF Listening
    <3> QED
      BY <1>2, <1>3, <2>2, <3>1 DEF Listening
  <2>4. GrantedBy(ToClient[i])
    BY <1>2, <1>3, <2>1, <2>3 DEF GrantedBy
  <2>5. Follows(s)
    BY <1>3, <1>4, <2>1, <2>4 DEF GrantsRightly
  <2>6. Follows(s)'
    BY <1>2, <2>2, <2>5, ServedFollows
  <2> QED
    BY <1>1, <1>3, <2>6
<1>5. CASE Fresh(peer, i)
  <2>1. Answer(msg) /\ Carries(msg, s)
    BY <1>2 DEF Gives, IsReply, Answer, Carries
  <2>2. e = 1 /\ msg = a /\ Grants(m, a, s)
    BY <1>1, <1>3, <1>5, <2>1, FreshCarries
  <2>3. m.query = target
    BY <1>2, <1>3, <2>2 DEF Grants, With, Listening
  <2>4. CatchesUp(m.from)
    BY <1>3, <2>2, <2>3 DEF Grants, AskedFor, AsksRightly
  <2>5. Follows(s)'
    BY <2>2, <2>3, <2>4, GrantedFollows
  <2> QED
    BY <1>1, <1>3, <2>5
<1> QED
  BY <1>3, <1>4, <1>5 DEF Fresh

\* ... and goes on to.
LEMMA ServedListens ==
    ASSUME NEW e, NEW m, NEW a, Settling(e, m, a), ListensRightly
    PROVE  ListensRightly'
<1> SUFFICES ASSUME NEW s \in DOMAIN clientSubscriptions', Listening(s)'
             PROVE  Follows(s)'
  BY DEF ListensRightly
<1>1. /\ s \in DOMAIN clientSubscriptions /\ Ids
      /\ UNCHANGED <<target, peer, clientSubscriptions>>
      /\ s \in DOMAIN subscriptions'[peer]
  BY DEF Settling, Served, Linked, Listening
<1>2. s \in DOMAIN subscriptions[peer]
  <2>1. CASE \E i \in DOMAIN ToServer : ToServer[i].cmd = "subscribe"
    BY <1>1, <2>1 DEF Ids, Begun
  <2>2. CASE \A i \in DOMAIN ToServer : ToServer[i].cmd # "subscribe"
    BY <1>1, <2>2, ServedSubscriptions
  <2> QED
    BY <2>1, <2>2
<1>3. Listening(s)
  <2>1. subscriptions'[peer][s] = subscriptions[peer][s]
    BY <1>1, <1>2, ServedSubscriptions
  <2> QED
    BY <1>1, <1>2, <2>1 DEF Listening
<1> QED
  BY <1>1, <1>2, <1>3, ServedFollows DEF ListensRightly

LEMMA ServedCopies ==
    ASSUME NEW e, NEW m, NEW a, Settling(e, m, a)
    PROVE  Copies'
<1>1. KnownIds' /\ GivenFirst' /\ EditsOwn' /\ FindsTarget' /\ FoundRightly'
  BY ServedKnowsIds, ServedEdits, ServedFinds
<1>2. ASSUME ~Finding' PROVE AsksRightly' /\ GrantsRightly' /\ ListensRightly'
  <2>1. AsksRightly /\ GrantsRightly /\ ListensRightly
    BY <1>2, ServedFinds DEF Settling, Copies
  <2> QED
    BY <2>1, ServedAsks, ServedGrants, ServedListens
<1> QED
  BY <1>1, <1>2 DEF Copies

\* What is right, as long as the tables and the target stay.
LEMMA SameRight ==
    ASSUME UNCHANGED <<row, change, target>>, NEW k
    PROVE  /\ \A there, rec : Right(there, rec, k)' <=> Right(there, rec, k)
           /\ \A from : Later(k, from)' <=> Later(k, from)
           /\ InScope(k)' <=> InScope(k)
<1>1. row'[k] = row[k] /\ ChangesOf(k)' = ChangesOf(k) /\ target' = target
  BY DEF ChangesOf
<1> QED
  BY <1>1, ElsewhereRight DEF InScope

\* Whatever the server does, the copy is right or on its way.
LEMMA ServerKeepsCopy ==
    ASSUME "rollback" \notin Faults, TypesInv, TypeOK', CopyInv, NoFullAnswer,
           Idle, ServerHandles \/ ServerActs
    PROVE  CopyInv'
<1> SUFFICES ASSUME InSession', letIn' PROVE Copies'
  BY DEF CopyInv
<1>1. UNCHANGED <<peer, socket, letIn>>
  BY DEF Idle, socketVars
<1>2. link'[peer] = "open" /\ socket = "connected" /\ letIn
  BY <1>1 DEF InSession
<1>3. /\ SubscriptionInv /\ EngineInv /\ IInv /\ Letters /\ target \in Queries
      /\ ServerSide /\ peer \in Connection
  BY DEF TypesInv, EngineInv, DataInv, SubscriptionInv, ClientSide
<1>4. /\ link[peer] = "open" /\ phase = "up"
      /\ \E e, m, a : Served(e, m, a)
  BY <1>2, <1>3, ServerMeans, ServerServes
<1>5. InSession /\ Copies /\ Linked
  BY <1>2, <1>3, <1>4 DEF InSession, CopyInv, SubscriptionInv, Protocol
<1>6. /\ nextSubscriptionId[peer] \in Nat \ {0}
      /\ DOMAIN subscriptions[peer] \subseteq 1..nextSubscriptionId[peer] - 1
  BY <1>3 DEF ServerSide, ServerEnd
<1>7. \E e, m, a : Settling(e, m, a)
  BY <1>3, <1>4, <1>5, <1>6 DEF Settling
<1> QED
  BY <1>7, ServedCopies

-----------------------------------------------------------------------------
(* The copy when the client acts. *)

\* The client takes the first d messages and sends `sent': it asks for the rows
\* of its target only, and does so when that changes.
Moving(d, r, sent) ==
    /\ Turn(d, r, sent) /\ UNCHANGED <<row, change, lastRevision>>
    /\ InTurn /\ Linked /\ Copies
    /\ \A k \in DOMAIN sent : sent[k].cmd = "find" => sent[k].query = target'
    /\ target' = target \/ \E k \in DOMAIN sent : sent[k].cmd = "find"
    /\ \A k \in DOMAIN sent : sent[k].cmd \in {"update", "delete"} =>
           calls'[sent[k].msgId].record.key = sent[k].key

\* What is sent comes behind what was.
LEMMA SentIsBehind ==
    ASSUME NEW d, NEW r, NEW sent, Turn(d, r, sent)
    PROVE  /\ Len(ToServer) \in Nat /\ DOMAIN ToServer = 1..Len(ToServer)
           /\ \A i \in DOMAIN ToServer : i \in DOMAIN ToServer' /\ ToServer'[i] = ToServer[i]
           /\ \A k \in DOMAIN sent : /\ k \in Nat \ {0}
                                     /\ Len(ToServer) + k \in DOMAIN ToServer'
                                     /\ ToServer'[Len(ToServer) + k] = sent[k]
           /\ \A i \in DOMAIN ToServer' :
                  i \in DOMAIN ToServer \/ \E k \in DOMAIN sent : i = Len(ToServer) + k
<1>1. Longer(ToServer, ToServer', sent)
  BY DEF Turn
<1> QED
  BY <1>1 DEF Longer, Keeps

LEMMA MovingCopies ==
    ASSUME NEW d, NEW r, NEW sent, Moving(d, r, sent),
           ~Finding' => AsksRightly' /\ GrantsRightly' /\ ListensRightly'
    PROVE  Copies'
<1>1. /\ Turn(d, r, sent) /\ Takes(d, r) /\ Forgets(r) /\ d \in {0, 1}
      /\ InTurn /\ Linked /\ Copies /\ peer' = peer
      /\ UNCHANGED <<row, change, lastRevision, nextSubscriptionId>>
      /\ nextSubscriptionId'[peer'] = nextSubscriptionId[peer]
  BY DEF Moving, Turn, Takes
<1>2. \A i \in DOMAIN ToClient' : i \in Nat /\ i + d \in DOMAIN ToClient /\ ToClient'[i] = ToClient[i + d]
  BY <1>1 DEF Takes
<1>3. KnownIds'
  <2>1. KnownIds
    BY <1>1 DEF Copies
  <2> QED
    BY <1>1, <1>2, <2>1 DEF KnownIds
<1>4. GivenFirst'
  <2> SUFFICES ASSUME NEW i \in DOMAIN ToClient', NEW j \in DOMAIN ToClient', NEW s,
                      Gives(ToClient'[i], s), Carries(ToClient'[j], s)
               PROVE  i <= j
    BY DEF GivenFirst
  <2>1. i + d <= j + d /\ i \in Nat /\ j \in Nat /\ d \in Nat
    BY <1>1, <1>2 DEF Copies, GivenFirst
  <2> QED
    BY <2>1
<1>5. EditsOwn'
  <2> SUFFICES ASSUME NEW i \in DOMAIN ToServer', ToServer'[i].cmd \in {"update", "delete"}
               PROVE  calls'[ToServer'[i].msgId].record.key = ToServer'[i].key
    BY DEF EditsOwn
  <2>1. CASE i \in DOMAIN ToServer
    <3>1. PICK msg : msg = ToServer[i]
      OBVIOUS
    <3>2. /\ ToServer'[i] = msg /\ msg.cmd \in {"update", "delete"}
          /\ calls[msg.msgId].record.key = msg.key /\ Waits(msg.msgId, "undo")
      BY <1>1, <2>1, <3>1, SentIsBehind DEF Copies, EditsOwn, Linked, Requested, Requests
    <3>3. msg.msgId \in 1..nextCall - 1 /\ msg.msgId # r /\ nextCall \in Nat
      BY <1>1, <2>1, <3>1 DEF InTurn, Takes, Turn
    <3> QED
      BY <1>1, <3>2, <3>3 DEF Forgets, Waits
  <2>2. ASSUME NEW k \in DOMAIN sent, i = Len(ToServer) + k
        PROVE  calls'[ToServer'[i].msgId].record.key = ToServer'[i].key
    BY <1>1, <2>2, SentIsBehind DEF Moving
  <2> QED
    BY <1>1, <2>1, <2>2, SentIsBehind
<1>6. FindsTarget'
  <2> SUFFICES ASSUME NEW i \in DOMAIN ToServer', ToServer'[i].cmd = "find"
               PROVE  \/ \E j \in DOMAIN ToServer' : j > i /\ ToServer'[j].cmd = "find"
                      \/ ToServer'[i].query = target'
    BY DEF FindsTarget
  <2>1. CASE i \in DOMAIN ToServer
    <3>1. CASE target' = target
      <4>1. ToServer'[i] = ToServer[i] /\ FindsTarget
        BY <1>1, <2>1, SentIsBehind DEF Copies
      <4> QED
        BY <1>1, <2>1, <3>1, <4>1, SentIsBehind DEF FindsTarget
    <3>2. ASSUME NEW k \in DOMAIN sent, sent[k].cmd = "find"
          PROVE  \E j \in DOMAIN ToServer' : j > i /\ ToServer'[j].cmd = "find"
      <4>1. Len(ToServer) + k > i
        BY <1>1, <2>1, SentIsBehind
      <4> QED
        BY <1>1, <3>2, <4>1, SentIsBehind
    <3> QED
      BY <3>1, <3>2 DEF Moving
  <2>2. ASSUME NEW k \in DOMAIN sent, i = Len(ToServer) + k
        PROVE  ToServer'[i].query = target'
    BY <1>1, <2>2, SentIsBehind DEF Moving
  <2> QED
    BY <1>1, <2>1, <2>2, SentIsBehind
<1>7. FoundRightly'
  <2> SUFFICES ASSUME ~\E l \in DOMAIN ToServer' : ToServer'[l].cmd = "find",
                      NEW i \in DOMAIN ToClient', IsReply(ToClient'[i], "find"),
                      ~\E j \in DOMAIN ToClient' : j > i /\ IsReply(ToClient'[j], "find")
               PROVE  LoadsRightly(ToClient[i].data.records)'
    BY DEF FoundRightly
  <2>1. PICK records : records = ToClient'[i].data.records
    OBVIOUS
  <2>2. /\ ~\E l \in DOMAIN ToServer : ToServer[l].cmd = "find"
        /\ target' = target
    BY <1>1, SentIsBehind DEF Moving
  <2>3. i + d \in DOMAIN ToClient /\ ToClient[i + d] = ToClient'[i]
    BY <1>2
  <2>4. ASSUME NEW j \in DOMAIN ToClient, j > i + d, IsReply(ToClient[j], "find")
        PROVE  FALSE
    <3>1. i \in Nat /\ j \in Nat /\ ~(j <= d)
      BY <1>1, <1>2, <2>4 DEF Takes
    <3>2. j - d \in DOMAIN ToClient' /\ ToClient'[j - d] = ToClient[j]
      BY <1>1, <2>4, <3>1 DEF Takes
    <3>3. j - d > i
      BY <1>1, <2>4, <3>1
    <3> QED
      BY <2>4, <3>2, <3>3
  <2>5. LoadsRightly(records)
    BY <1>1, <2>1, <2>2, <2>3, <2>4 DEF Copies, FoundRightly
  <2>6. /\ \A k : \A there, rec : Right(there, rec, k)' <=> Right(there, rec, k)
        /\ \A k : \A from : Later(k, from)' <=> Later(k, from)
    BY <1>1, <2>2, SameRight
  <2>7. PICK from : from = LatestRevision(records)
    OBVIOUS
  <2>8. LoadsRightly(records)'
    BY <1>1, <2>5, <2>6, <2>7 DEF LoadsRightly, RowRight
  <2> QED
    BY <2>1, <2>8
<1> QED
  BY <1>3, <1>4, <1>5, <1>6, <1>7 DEF Copies

\* A find that is sent begins a load.
LEMMA MovingFinds ==
    ASSUME NEW d, NEW r, NEW sent, Moving(d, r, sent),
           NEW k \in DOMAIN sent, sent[k].cmd = "find"
    PROVE  Copies'
<1>1. Finding'
  BY SentIsBehind DEF Moving, Finding
<1> QED
  BY <1>1, MovingCopies

\* Edits stay excused until a refusal takes them back.
LEMMA MovingExcuses ==
    ASSUME NEW d, NEW r, NEW sent, Moving(d, r, sent), target' = target,
           rolledBack \subseteq rolledBack', NEW k,
           d = 1 /\ Refuses(ToClient[1], k) => k \in rolledBack',
           Excused(k)
    PROVE  Excused(k)'
<1>1. /\ Turn(d, r, sent) /\ Takes(d, r) /\ Forgets(r) /\ InTurn /\ Linked
      /\ d \in {0, 1} /\ nextCall \in Nat
      /\ InScope(k)' <=> InScope(k)
  BY DEF Moving, Turn, Takes, InScope
<1>2. CASE k \in rolledBack
  BY <1>2 DEF Excused
<1>3. ASSUME InScope(k), NEW i \in DOMAIN ToServer, Edits(ToServer[i], k)
      PROVE  Excused(k)'
  <2>1. PICK msg : msg = ToServer[i]
    OBVIOUS
  <2>2. i \in DOMAIN ToServer' /\ ToServer'[i] = msg
    BY <1>1, <1>3, <2>1, SentIsBehind
  <2>3. Edits(msg, k)'
    BY <1>3, <2>1 DEF Edits
  <2> QED
    BY <1>1, <1>3, <2>2, <2>3 DEF Excused
<1>4. ASSUME InScope(k), NEW i \in DOMAIN ToClient, Refuses(ToClient[i], k)
      PROVE  Excused(k)'
  <2>1. PICK msg : msg = ToClient[i]
    OBVIOUS
  <2>2. CASE i <= d
    <3>1. i = 1 /\ d = 1
      BY <1>1, <2>2 DEF Takes
    <3> QED
      BY <1>4, <3>1 DEF Excused
  <2>3. CASE i - d \in DOMAIN ToClient' /\ ToClient'[i - d] = ToClient[i] /\ ~(i <= d)
    <3>1. /\ msg.cmd = "error" /\ Answer(msg) /\ Waits(msg.reply_to, "undo")
          /\ calls[msg.reply_to].record.key = k
      BY <1>4, <2>1 DEF Refuses, Answer
    <3>2. msg.reply_to \in 1..nextCall - 1
      BY <1>1, <1>4, <2>1, <3>1 DEF InTurn
    <3>3. msg.reply_to # r
      <4>1. CASE d = 1 /\ Answer(ToClient[1])
        <5>1. 1 \in DOMAIN ToClient /\ i \in Nat \ {0} /\ 1 < i
          BY <1>1, <1>4, <2>3, <4>1 DEF Takes
        <5>2. ToClient[1].reply_to < msg.reply_to /\ ToClient[1].reply_to \in Nat
          BY <1>1, <1>4, <2>1, <3>1, <4>1, <5>1 DEF InTurn
        <5> QED
          BY <1>1, <3>2, <4>1, <5>2 DEF Takes
      <4>2. CASE ~(d = 1 /\ Answer(ToClient[1]))
        BY <1>1, <3>2, <4>2 DEF Takes
      <4> QED
        BY <4>1, <4>2
    <3>4. Refuses(msg, k)'
      BY <1>1, <3>1, <3>2, <3>3 DEF Refuses, Waits, Forgets
    <3> QED
      BY <1>1, <1>4, <2>1, <2>3, <3>4 DEF Excused
  <2> QED
    BY <1>1, <2>2, <2>3 DEF Takes
<1> QED
  BY <1>2, <1>3, <1>4 DEF Excused

\* What was shown rightly is so still, or an edit stands against it.
RowStays(k) ==
    /\ Excused(k) => Excused(k)'
    /\ RowRight(shown, k) => RowRight(shown, k)' \/ Excused(k)'
\* The message that is taken, if it tells of record k, makes its row right.
RowFollows(d, s, k) ==
    /\ Excused(k) => Excused(k)'
    /\ d = 1 /\ Mentions(1, s, k) /\ ToldRightly(ChangesIn(ToClient[1]), k) =>
           RowRight(shown, k)'
    /\ RowRight(shown, k) /\ ~(d = 1 /\ Mentions(1, s, k)) =>
           RowRight(shown, k)' \/ Excused(k)'

LEMMA MovingFollows ==
    ASSUME NEW d, NEW r, NEW sent, Moving(d, r, sent), target' = target, NEW s,
           \A k \in Key : RowFollows(d, s, k), Follows(s)
    PROVE  Follows(s)'
<1>1. /\ Takes(d, r) /\ d \in {0, 1} /\ UNCHANGED <<peer, subscriptions, lastRevision, row, change>>
  BY DEF Moving, Turn, Takes
<1>2. \A i, k : Mentions(i, s, k)' =>
          i \in Nat /\ Mentions(i + d, s, k) /\ ToClient'[i] = ToClient[i + d]
  BY <1>1 DEF Mentions, Takes
<1>3. \A i, k : Mentions(i, s, k) =>
          i \in Nat \ {0} /\ (i <= d \/ (Mentions(i - d, s, k)' /\ ToClient'[i - d] = ToClient[i]))
  BY <1>1 DEF Mentions, Takes
<1>4. \A k : \A there, rec : Right(there, rec, k)' <=> Right(there, rec, k)
  BY <1>1, SameRight
<1>5. subscriptions'[peer'][s].from \in 0..lastRevision'
  BY <1>1 DEF Follows
<1>6. ASSUME NEW k \in Key
      PROVE  /\ \A i : Mentions(i, s, k)' =>
                    \/ \E j : j > i /\ Mentions(j, s, k)'
                    \/ ToldRightly(ChangesIn(ToClient[i]), k)'
             /\ (\E i : Mentions(i, s, k)') \/ Excused(k)' \/ RowRight(shown, k)'
  <2>1. /\ \A i : Mentions(i, s, k) =>
               \/ \E j : j > i /\ Mentions(j, s, k)
               \/ ToldRightly(ChangesIn(ToClient[i]), k)
        /\ (\E i : Mentions(i, s, k)) \/ Excused(k) \/ RowRight(shown, k)
        /\ RowFollows(d, s, k)
    BY DEF Follows
  <2>2. ASSUME NEW i, Mentions(i, s, k)'
        PROVE  \/ \E j : j > i /\ Mentions(j, s, k)'
               \/ ToldRightly(ChangesIn(ToClient[i]), k)'
    <3>1. i \in Nat /\ Mentions(i + d, s, k)
      BY <1>2, <2>2
    <3>2. CASE ToldRightly(ChangesIn(ToClient[i + d]), k)
      <4>1. PICK msg : msg = ToClient[i + d]
        OBVIOUS
      <4>2. ToClient'[i] = msg
        BY <1>2, <2>2, <4>1
      <4>3. ToldRightly(ChangesIn(msg), k)'
        BY <1>4, <3>2, <4>1 DEF ToldRightly
      <4> QED
        BY <4>2, <4>3
    <3>3. ASSUME NEW j, j > i + d, Mentions(j, s, k)
          PROVE  \E l : l > i /\ Mentions(l, s, k)'
      <4>1. j \in Nat /\ ~(j <= d) /\ j - d > i
        BY <1>1, <1>3, <3>1, <3>3
      <4> QED
        BY <1>3, <3>3, <4>1
    <3> QED
      BY <2>1, <3>1, <3>2, <3>3
  <2>3. (\E i : Mentions(i, s, k)') \/ Excused(k)' \/ RowRight(shown, k)'
    <3>1. CASE ~\E i : Mentions(i, s, k)
      BY <2>1, <3>1 DEF RowFollows
    <3>2. ASSUME NEW i, Mentions(i, s, k), ~(i <= d) PROVE Mentions(i - d, s, k)'
      BY <1>3, <3>2
    <3>3. ASSUME NEW i, Mentions(i, s, k), \A j : Mentions(j, s, k) => j <= d
          PROVE  RowRight(shown, k)'
      <4>1. i = 1 /\ d = 1 /\ \A j : Mentions(j, s, k) => j = 1
        BY <1>1, <1>3, <3>3
      <4>2. ToldRightly(ChangesIn(ToClient[1]), k)
        BY <2>1, <3>3, <4>1
      <4> QED
        BY <2>1, <3>3, <4>1, <4>2 DEF RowFollows
    <3> QED
      BY <3>1, <3>2, <3>3
  <2> QED
    BY <2>2, <2>3
<1> QED
  BY <1>5, <1>6 DEF Follows

\* Messages that carry nothing for the subscription do not change the rows.
LEMMA RowsRest ==
    ASSUME NEW d, NEW s, NEW k, RowStays(k), ~(d = 1 /\ Carries(ToClient[1], s))
    PROVE  RowFollows(d, s, k)
BY DEF RowStays, RowFollows, Mentions

\* The call of a message that is under way is not the one that has been answered.
LEMMA MovingCalls ==
    ASSUME NEW d, NEW r, NEW sent, Moving(d, r, sent)
    PROVE  /\ \A i \in DOMAIN ToServer : ToServer[i].cmd = "subscribe" =>
                  /\ Waits(ToServer[i].msgId, "subscribe")
                  /\ calls'[ToServer[i].msgId] = calls[ToServer[i].msgId]
           /\ \A i \in DOMAIN ToClient : IsReply(ToClient[i], "subscribe") =>
                  /\ Waits(ToClient[i].reply_to, "subscribe")
                  /\ i > d => calls'[ToClient[i].reply_to] = calls[ToClient[i].reply_to]
BY TurnStillWaits DEF Moving, Linked

LEMMA MovingAsks ==
    ASSUME NEW d, NEW r, NEW sent, Moving(d, r, sent),
           UNCHANGED <<target, subscription, pendingSubscriptions>>,
           \A k \in DOMAIN sent : sent[k].cmd # "subscribe",
           subscription \in pendingSubscriptions => \A k \in Key : RowStays(k),
           AsksRightly
    PROVE  AsksRightly'
<1> SUFFICES ASSUME subscription' \in pendingSubscriptions',
                    NEW i \in DOMAIN ToServer', AskedFor(ToServer[i])'
             PROVE  CatchesUp(ToServer[i].from)'
  BY DEF AsksRightly
<1>1. PICK msg : msg = ToServer'[i]
  OBVIOUS
<1>2. Turn(d, r, sent) /\ UNCHANGED <<row, change, lastRevision>>
  BY DEF Moving
<1>3. AskedFor(msg)' /\ msg.cmd = "subscribe"
  BY <1>1 DEF AskedFor
<1>4. i \in DOMAIN ToServer /\ ToServer[i] = msg
  BY <1>1, <1>2, <1>3, SentIsBehind
<1>5. AskedFor(msg)
  BY <1>3, <1>4, MovingCalls DEF AskedFor
<1>6. PICK from : from = msg.from
  OBVIOUS
<1>7. CatchesUp(from)
  BY <1>4, <1>5, <1>6 DEF AsksRightly
<1>8. \A k : \A f : Later(k, f)' <=> Later(k, f)
  BY <1>2, SameRight
<1>9. CatchesUp(from)'
  BY <1>2, <1>7, <1>8 DEF CatchesUp, RowStays
<1> QED
  BY <1>1, <1>6, <1>9

LEMMA MovingGrants ==
    ASSUME NEW d, NEW r, NEW sent, Moving(d, r, sent),
           UNCHANGED <<target, subscription, pendingSubscriptions>>,
           subscription \in pendingSubscriptions => \A k \in Key : RowStays(k),
           GrantsRightly
    PROVE  GrantsRightly'
<1> SUFFICES ASSUME subscription' \in pendingSubscriptions',
                    NEW i \in DOMAIN ToClient', GrantedBy(ToClient[i])'
             PROVE  Follows(ToClient[i].data.subscription)'
  BY DEF GrantsRightly
<1>1. PICK msg : msg = ToClient'[i]
  OBVIOUS
<1>2. /\ Takes(d, r) /\ d \in {0, 1} /\ UNCHANGED <<peer, subscriptions>> /\ GivenFirst
  BY DEF Moving, Turn, Takes, Copies
<1>3. PICK s : Gives(msg, s) /\ Listening(s)' /\ calls'[msg.reply_to].object = subscription'
  BY <1>1 DEF GrantedBy
<1>4. s = msg.data.subscription /\ IsReply(msg, "subscribe") /\ Listening(s)
  BY <1>2, <1>3 DEF Gives, Listening
<1>5. i \in Nat \ {0} /\ i + d \in DOMAIN ToClient /\ ToClient[i + d] = msg /\ i + d > d
  BY <1>1, <1>2 DEF Takes
<1>6. GrantedBy(msg)
  BY <1>3, <1>4, <1>5, MovingCalls DEF GrantedBy
<1>7. Follows(s)
  BY <1>4, <1>5, <1>6 DEF GrantsRightly
<1>8. ~(d = 1 /\ Carries(ToClient[1], s))
  <2>1. SUFFICES ASSUME d = 1, Carries(ToClient[1], s) PROVE FALSE
    OBVIOUS
  <2>2. 1 \in DOMAIN ToClient
    BY <1>2, <2>1 DEF Takes
  <2>3. i + d <= 1
    BY <1>2, <1>3, <1>5, <2>1, <2>2 DEF GivenFirst
  <2> QED
    BY <1>5, <2>1, <2>3
<1>9. \A k \in Key : RowFollows(d, s, k)
  BY <1>8, RowsRest
<1>10. Follows(s)'
  BY <1>7, <1>9, MovingFollows
<1> QED
  BY <1>1, <1>4, <1>10

LEMMA MovingListens ==
    ASSUME NEW d, NEW r, NEW sent, Moving(d, r, sent),
           UNCHANGED <<target, clientSubscriptions>>,
           \A s \in DOMAIN clientSubscriptions : \A k \in Key : RowFollows(d, s, k),
           ListensRightly
    PROVE  ListensRightly'
<1> SUFFICES ASSUME NEW s \in DOMAIN clientSubscriptions', Listening(s)'
             PROVE  Follows(s)'
  BY DEF ListensRightly
<1>1. s \in DOMAIN clientSubscriptions /\ Listening(s)
  BY DEF Moving, Turn, Listening
<1>2. Follows(s)
  BY <1>1 DEF ListensRightly
<1> QED
  BY <1>1, <1>2, MovingFollows

\* A load that has not begun was not under way, if no answer to it is taken.
LEMMA MovingNotFinding ==
    ASSUME NEW d, NEW r, NEW sent, Moving(d, r, sent), ~Finding',
           d = 1 => ~IsReply(ToClient[1], "find")
    PROVE  ~Finding
<1>1. Turn(d, r, sent) /\ Takes(d, r)
  BY DEF Moving, Turn
<1>2. ASSUME NEW i \in DOMAIN ToServer, ToServer[i].cmd = "find" PROVE FALSE
  BY <1>1, <1>2, SentIsBehind DEF Finding
<1>3. ASSUME NEW i \in DOMAIN ToClient, IsReply(ToClient[i], "find") PROVE FALSE
  <2>1. CASE i <= d
    <3>1. i = 1 /\ d = 1
      BY <1>1, <2>1 DEF Takes
    <3> QED
      BY <1>3, <3>1
  <2>2. CASE ~(i <= d)
    BY <1>1, <1>3, <2>2 DEF Takes, Finding
  <2> QED
    BY <2>1, <2>2
<1> QED
  BY <1>2, <1>3 DEF Finding

\* A step that is about no subscription, and leaves right rows right.
LEMMA MovingRests ==
    ASSUME NEW d, NEW r, NEW sent, Moving(d, r, sent),
           UNCHANGED <<target, subscription, pendingSubscriptions, clientSubscriptions>>,
           \A k \in DOMAIN sent : sent[k].cmd # "subscribe",
           \A k \in Key : RowStays(k),
           d = 1 => /\ ~IsReply(ToClient[1], "find")
                    /\ \A s \in DOMAIN clientSubscriptions : ~Carries(ToClient[1], s)
    PROVE  Copies'
<1>1. ASSUME ~Finding' PROVE AsksRightly' /\ GrantsRightly' /\ ListensRightly'
  <2>1. AsksRightly /\ GrantsRightly /\ ListensRightly
    BY <1>1, MovingNotFinding DEF Moving, Copies
  <2>2. \A s \in DOMAIN clientSubscriptions : \A k \in Key : RowFollows(d, s, k)
    BY RowsRest
  <2> QED
    BY <2>1, <2>2, MovingAsks, MovingGrants, MovingListens
<1> QED
  BY <1>1, MovingCopies

\* What is sent is a message with an id.
IsSent(sent, msgs) ==
    /\ DOMAIN sent = DOMAIN msgs
    /\ \A k \in DOMAIN msgs : sent[k] = With(msgs[k], "msgId", nextCall + k - 1)

\* What the client does in a session, to the letter.
LEMMA PostTurns ==
    ASSUME ServerSide, ClientSide, link[peer] = "open", NEW msgs, IsSeq(msgs),
           NEW contexts, NEW d, NEW r,
           \/ Post(msgs, contexts, calls) /\ r = 0
           \/ Post(msgs, contexts, Without(r)),
           Takes(d, r),
           UNCHANGED <<peer, change, authenticated, subscriptions, nextSubscriptionId>>
    PROVE  /\ Calls(msgs, contexts, r)
           /\ \E sent : Turn(d, r, sent) /\ IsSent(sent, msgs)
<1>1. Sends(msgs) /\ Calls(msgs, contexts, r)
  BY PostMeans
<1>2. Forgets(r)
  BY <1>1, CallsForget
<1>3. PICK sent : Turn(d, r, sent) /\ DOMAIN sent = DOMAIN msgs
  BY <1>1, <1>2, SendsTurn
<1>4. Posted(msgs)
  BY PostIsPosted DEF ClientSide
<1>5. PICK exact : /\ Longer(ToServer, ToServer', exact) /\ DOMAIN exact = DOMAIN msgs
                   /\ \A k \in DOMAIN msgs :
                          exact[k] = With(msgs[k], "msgId", nextCall + k - 1)
  BY <1>4 DEF Posted, ToServer
<1>6. \A k \in DOMAIN msgs : sent[k] = exact[k]
  BY <1>3, <1>5 DEF Turn, Longer
<1> QED
  BY <1>1, <1>3, <1>5, <1>6 DEF IsSent

\* What a message keeps of what it is made of.
LEMMA SentIs ==
    ASSUME NEW sent, NEW msgs, IsSent(sent, msgs), NEW k \in DOMAIN msgs
    PROVE  /\ \A f \in DOMAIN msgs[k] : f # "msgId" => sent[k][f] = msgs[k][f]
           /\ sent[k].msgId = nextCall + k - 1
<1>1. sent[k] = With(msgs[k], "msgId", nextCall + k - 1)
  BY DEF IsSent
<1>2. \A f \in DOMAIN msgs[k] : f # "msgId" => sent[k][f] = msgs[k][f]
  BY <1>1, WithKeeps
<1>3. sent[k].msgId = nextCall + k - 1
  BY <1>1 DEF With
<1> QED
  BY <1>2, <1>3

-----------------------------------------------------------------------------
(* The copy when the user acts. *)

\* The user sends message m.
LEMMA OneSent ==
    ASSUME TypesInv, CopyInv, InSession, letIn, NEW m, NEW context,
           Post(<<m>>, <<context>>, calls), "cmd" \in DOMAIN m, "msgId" \notin DOMAIN m,
           m.cmd = "find" => "query" \in DOMAIN m /\ m.query = target',
           target' = target \/ m.cmd = "find",
           m.cmd \in {"update", "delete"} =>
               /\ "key" \in DOMAIN m /\ context # NoCall /\ context.record.key = m.key,
           UNCHANGED <<vars, link, session, outbox, socketVars>>
    PROVE  \E sent : /\ Moving(0, 0, sent) /\ DOMAIN sent = {1}
                     /\ \A f \in DOMAIN m : sent[1][f] = m[f]
<1> DEFINE msgs == <<m>>
           contexts == <<context>>
<1>1. IsSeq(msgs) /\ DOMAIN msgs = {1} /\ msgs[1] = m /\ contexts[1] = context
  BY ShortSequences
<1> HIDE DEF msgs, contexts
<1>2. /\ ServerSide /\ ClientSide /\ SubscriptionInv /\ link[peer] = "open" /\ peer \in Connection
      /\ InTurn /\ Linked /\ Copies
  BY DEF TypesInv, SubscriptionInv, ClientSide, InSession, CopyInv, Protocol
<1>3. UNCHANGED <<peer, change, row, lastRevision, authenticated, subscriptions,
                  nextSubscriptionId, outbox>>
  BY DEF vars, engineVars, session, socketVars
<1>4. Takes(0, 0)
  BY <1>2, <1>3, NothingTaken
<1>5. Post(msgs, contexts, calls)
  BY DEF msgs, contexts
<1>6. /\ Calls(msgs, contexts, 0)
      /\ \E sent : Turn(0, 0, sent) /\ IsSent(sent, msgs)
  BY <1>1, <1>2, <1>3, <1>4, <1>5, PostTurns
<1>7. PICK sent : Turn(0, 0, sent) /\ IsSent(sent, msgs)
  BY <1>6
<1>8. /\ DOMAIN sent = {1} /\ \A f \in DOMAIN m : sent[1][f] = m[f]
      /\ sent[1].msgId = nextCall + 1 - 1
  BY <1>1, <1>7, SentIs DEF IsSent
<1>9. nextCall \in Nat
  BY <1>2 DEF ClientSide
<1>10. ASSUME m.cmd \in {"update", "delete"} PROVE calls'[sent[1].msgId].record.key = sent[1].key
  <2>1. nextCall \in DOMAIN calls'
    BY <1>1, <1>6, <1>9, <1>10 DEF Calls
  <2>2. calls'[nextCall] = context
    BY <1>1, <1>6, <1>9, <2>1 DEF Calls
  <2> QED
    BY <1>8, <1>9, <1>10, <2>2
<1>11. Moving(0, 0, sent)
  BY <1>2, <1>3, <1>7, <1>8, <1>10 DEF Moving
<1> QED
  BY <1>8, <1>11

\* The user has changed or removed the row of record j: the edit excuses it, if
\* the target asks for it.
LEMMA EditKeepsCopy ==
    ASSUME NEW sent, Moving(0, 0, sent), DOMAIN sent = {1}, NEW j \in DOMAIN shown,
           sent[1].cmd \in {"update", "delete"}, sent[1].key = j,
           UNCHANGED <<target, rolledBack, subscription, pendingSubscriptions,
                       clientSubscriptions>>,
           \A k : k # j => /\ k \in DOMAIN shown' <=> k \in DOMAIN shown
                           /\ k \in DOMAIN shown => shown'[k] = shown[k]
    PROVE  Copies'
<1>1. Turn(0, 0, sent) /\ UNCHANGED <<row, change>>
  BY DEF Moving, Turn
<1>2. \A k : /\ \A there, rec : Right(there, rec, k)' <=> Right(there, rec, k)
             /\ InScope(k)' <=> InScope(k)
  BY <1>1, SameRight
<1>3. InScope(j) => Excused(j)'
  <2>1. 1 \in DOMAIN sent
    OBVIOUS
  <2>2. Len(ToServer) + 1 \in DOMAIN ToServer' /\ ToServer'[Len(ToServer) + 1] = sent[1]
    BY <1>1, <2>1, SentIsBehind
  <2>3. Edits(sent[1], j)'
    BY DEF Edits
  <2> QED
    BY <1>2, <2>2, <2>3 DEF Excused
<1>4. ~InScope(j) => \A there, rec, other : Right(TRUE, rec, j) => Right(there, other, j)
  BY DEF Right, Wanted, Selects, InScope
<1>5. ASSUME NEW k \in Key PROVE RowStays(k)
  <2>1. Excused(k) => Excused(k)'
    BY MovingExcuses
  <2>2. CASE k # j
    BY <1>2, <2>1, <2>2 DEF RowStays, RowRight
  <2>3. CASE k = j
    BY <1>2, <1>3, <1>4, <2>1, <2>3 DEF RowStays, RowRight
  <2> QED
    BY <2>2, <2>3
<1> QED
  BY <1>5, MovingRests

\* Whatever the user does, the copy is right or on its way.
LEMMA UserKeepsCopy ==
    ASSUME TypesInv, CopyInv, UserActs
    PROVE  CopyInv'
<1> SUFFICES ASSUME InSession', letIn' PROVE Copies'
  BY DEF CopyInv
<1>1. /\ UNCHANGED <<vars, link, session, outbox, socketVars, subscriptionVars>>
      /\ UNCHANGED <<row, change, pendingSubscriptions, clientSubscriptions>>
  BY DEF UserActs, vars, subscriptionVars, engineVars
<1>2. InSession /\ letIn /\ isConnected
  <2>1. UNCHANGED <<socket, peer, letIn, link>>
    BY <1>1 DEF socketVars
  <2> QED
    BY <2>1 DEF InSession, TypesInv, SubscriptionInv, ClientSide
<1>3. Rows
  BY DEF TypesInv, DataInv
<1>4. ASSUME NEW action, NEW q, ReloadFor(action, q), target' = q PROVE Copies'
  <2>1. Post(<<FindMessage(q)>>, <<[kind |-> "find"]>>, calls)
    BY <1>2, <1>4 DEF ReloadFor
  <2>2. PICK m : m = FindMessage(q)
    OBVIOUS
  <2>3. /\ "cmd" \in DOMAIN m /\ "msgId" \notin DOMAIN m /\ m.cmd = "find"
        /\ "query" \in DOMAIN m /\ m.query = target'
        /\ Post(<<m>>, <<[kind |-> "find"]>>, calls)
    BY <1>4, <2>1, <2>2 DEF FindMessage
  <2>4. PICK sent : /\ Moving(0, 0, sent) /\ DOMAIN sent = {1}
                    /\ \A f \in DOMAIN m : sent[1][f] = m[f]
    BY <1>1, <1>2, <2>3, OneSent
  <2>5. 1 \in DOMAIN sent /\ sent[1].cmd = "find"
    BY <2>3, <2>4
  <2> QED
    BY <2>4, <2>5, MovingFinds
<1>5. CASE Reload
  BY <1>4, <1>5 DEF Reload
<1>6. ASSUME NEW q \in Queries, SetTarget(q) PROVE Copies'
  BY <1>4, <1>6 DEF SetTarget
<1>7. ASSUME NEW k \in DOMAIN shown, NEW m, m.cmd \in {"update", "delete"},
             "cmd" \in DOMAIN m, "msgId" \notin DOMAIN m, "key" \in DOMAIN m, m.key = k,
             Post(<<m>>, <<[kind |-> "undo", record |-> shown[k]]>>, calls),
             UNCHANGED <<target, subscription, rolledBack>>,
             \A j : j # k => /\ j \in DOMAIN shown' <=> j \in DOMAIN shown
                             /\ j \in DOMAIN shown => shown'[j] = shown[j]
      PROVE  Copies'
  <2>1. PICK context : context = [kind |-> "undo", record |-> shown[k]]
    OBVIOUS
  <2>2. context # NoCall /\ context.record.key = m.key /\ Post(<<m>>, <<context>>, calls)
    <3>1. context.kind = "undo" /\ NoCall.kind = "none" /\ context.record = shown[k]
      BY <2>1 DEF NoCall
    <3> QED
      BY <1>3, <1>7, <2>1, <3>1 DEF Rows
  <2>3. PICK sent : /\ Moving(0, 0, sent) /\ DOMAIN sent = {1}
                    /\ \A f \in DOMAIN m : sent[1][f] = m[f]
    BY <1>1, <1>2, <1>7, <2>2, OneSent
  <2>4. sent[1].cmd \in {"update", "delete"} /\ sent[1].key = k
    BY <1>7, <2>3
  <2> QED
    BY <1>1, <1>7, <2>3, <2>4, EditKeepsCopy
<1>8. ASSUME NEW k \in DOMAIN shown, NEW f \in Field, NEW value \in Value,
             SetData(k, f, value)
      PROVE  Copies'
  <2>1. PICK m : m = [cmd |-> "update", key |-> k, values |-> [g \in {f} |-> value]]
    OBVIOUS
  <2>2. /\ m.cmd = "update" /\ m.key = k
        /\ "cmd" \in DOMAIN m /\ "msgId" \notin DOMAIN m /\ "key" \in DOMAIN m
    BY <2>1
  <2>3. /\ Post(<<m>>, <<[kind |-> "undo", record |-> shown[k]]>>, calls)
        /\ UNCHANGED <<target, subscription, rolledBack>>
        /\ shown' = [shown EXCEPT ![k].values[f] = value]
    BY <1>8, <2>1 DEF SetData
  <2>4. \A j : j # k => /\ j \in DOMAIN shown' <=> j \in DOMAIN shown
                        /\ j \in DOMAIN shown => shown'[j] = shown[j]
    BY <2>3
  <2> QED
    BY <1>7, <2>2, <2>3, <2>4
<1>9. ASSUME NEW k \in DOMAIN shown, RemoveRow(k) PROVE Copies'
  <2>1. PICK m : m = [cmd |-> "delete", key |-> k]
    OBVIOUS
  <2>2. /\ m.cmd = "delete" /\ m.key = k
        /\ "cmd" \in DOMAIN m /\ "msgId" \notin DOMAIN m /\ "key" \in DOMAIN m
    BY <2>1
  <2>3. /\ Post(<<m>>, <<[kind |-> "undo", record |-> shown[k]]>>, calls)
        /\ UNCHANGED <<target, subscription, rolledBack>>
        /\ shown' = DropRow(shown, k)
    BY <1>9, <2>1 DEF RemoveRow
  <2>4. \A j : j # k => /\ j \in DOMAIN shown' <=> j \in DOMAIN shown
                        /\ j \in DOMAIN shown => shown'[j] = shown[j]
    BY <2>3 DEF DropRow, Restrict
  <2> QED
    BY <1>7, <2>2, <2>3, <2>4
<1>10. CASE Add
  <2>1. PICK m : m = [cmd |-> "create", table |-> target.table, values |-> Blank]
    OBVIOUS
  <2>2. m.cmd = "create" /\ "cmd" \in DOMAIN m /\ "msgId" \notin DOMAIN m
    BY <2>1
  <2>3. /\ Post(<<m>>, <<NoCall>>, calls)
        /\ UNCHANGED <<target, subscription, rolledBack, shown>>
    BY <1>10, <2>1 DEF Add, rowVars
  <2>4. PICK sent : /\ Moving(0, 0, sent) /\ DOMAIN sent = {1}
                    /\ \A f \in DOMAIN m : sent[1][f] = m[f]
    BY <1>1, <1>2, <2>2, <2>3, OneSent
  <2>5. \A k \in DOMAIN sent : sent[k].cmd # "subscribe"
    BY <2>2, <2>4
  <2>6. ASSUME NEW k \in Key PROVE RowStays(k)
    <3>1. Excused(k) => Excused(k)'
      BY <2>3, <2>4, MovingExcuses
    <3>2. RowRight(shown, k) => RowRight(shown, k)'
      BY <1>1, <2>3, SameRight DEF RowRight
    <3> QED
      BY <3>1, <3>2 DEF RowStays
  <2> QED
    BY <1>1, <2>3, <2>4, <2>5, <2>6, MovingRests
<1> QED
  BY <1>5, <1>6, <1>8, <1>9, <1>10 DEF UserActs, User

-----------------------------------------------------------------------------
(* The copy when the client reads message m. *)

Reading(m, r) ==
    /\ Receiving(m, r) /\ TypesInv /\ CopyInv /\ letIn
    /\ UNCHANGED <<peer, target>>

\* What is known when the client reads.
LEMMA ReadingMeans ==
    ASSUME NEW m, NEW r, Reading(m, r)
    PROVE  /\ ServerSide /\ ClientSide /\ Objects /\ InTurn /\ Linked /\ Copies
           /\ link[peer] = "open" /\ Takes(1, r) /\ Expected(m) /\ Whole(m)
           /\ 1 \in DOMAIN ToClient /\ m = ToClient[1] /\ 0 \notin DOMAIN calls
           /\ UNCHANGED <<peer, change, row, lastRevision, authenticated, subscriptions,
                          nextSubscriptionId>>
<1>1. /\ ServerSide /\ ClientSide /\ Objects /\ InSession /\ link[peer] = "open"
      /\ Takes(1, r) /\ 1 \in DOMAIN ToClient /\ m = ToClient[1] /\ 0 \notin DOMAIN calls
      /\ UNCHANGED <<peer, change, authenticated, subscriptions, nextSubscriptionId>>
  BY ReceivingMeans DEF Reading
<1>2. InTurn /\ Linked /\ Expected(m)
  BY GreetedFirst DEF Reading
<1>3. Copies
  BY <1>1 DEF Reading, CopyInv
<1>4. UNCHANGED <<row, lastRevision>>
  BY DEF Reading, Receiving, vars, engineVars
<1>5. Whole(m)
  BY <1>1 DEF Reading, TypesInv, DataInv, Heard
<1> QED
  BY <1>1, <1>2, <1>3, <1>4, <1>5

\* It asks for rows, or edits, only when the user does.
Dutiful(msgs) ==
    /\ IsSeq(msgs)
    /\ \A k \in DOMAIN msgs : /\ "cmd" \in DOMAIN msgs[k]
                              /\ msgs[k].cmd \in {"subscribe", "unsubscribe"}

\* The answer to a call is read.
LEMMA AnswerRead ==
    ASSUME NEW m, NEW r, Reading(m, r), NEW kind, Answers(m, kind),
           NEW msgs, Dutiful(msgs), NEW contexts, Post(msgs, contexts, Without(m.reply_to))
    PROVE  \E sent : Moving(1, r, sent) /\ IsSent(sent, msgs)
<1>1. r = m.reply_to
  BY CallEnds DEF Reading, Dutiful
<1>2. \E sent : Turn(1, r, sent) /\ IsSent(sent, msgs)
  BY <1>1, ReadingMeans, PostTurns DEF Dutiful
<1>3. PICK sent : Turn(1, r, sent) /\ IsSent(sent, msgs)
  BY <1>2
<1>4. \A k \in DOMAIN sent : sent[k].cmd \in {"subscribe", "unsubscribe"}
  BY <1>3, SentIs DEF IsSent, Dutiful
<1>5. Moving(1, r, sent)
  BY <1>3, <1>4, ReadingMeans DEF Moving, Reading
<1> QED
  BY <1>3, <1>5

\* A message is read that is no answer to a call.
LEMMA OtherRead ==
    ASSUME NEW m, NEW r, Reading(m, r), UNCHANGED <<inbox, nextCall, calls>>,
           r \notin DOMAIN calls
    PROVE  \E sent : Moving(1, r, sent) /\ DOMAIN sent = {}
<1> DEFINE none == <<>>
<1>1. IsSeq(none) /\ DOMAIN none = {}
  BY ShortSequences
<1>2. Sends(none) /\ Forgets(r)
  BY ReadingMeans, NothingSent
<1> HIDE DEF none
<1>3. PICK sent : Turn(1, r, sent) /\ DOMAIN sent = DOMAIN none
  BY <1>1, <1>2, ReadingMeans, SendsTurn
<1>4. Moving(1, r, sent)
  BY <1>1, <1>3, ReadingMeans DEF Moving, Reading
<1> QED
  BY <1>1, <1>3, <1>4

\* A message that is about no subscription leaves all rows, but those it puts
\* back.
LEMMA ReadRests ==
    ASSUME NEW m, NEW r, Reading(m, r), NEW sent, Moving(1, r, sent),
           \A k \in DOMAIN sent : sent[k].cmd # "subscribe",
           UNCHANGED <<subscription, pendingSubscriptions, clientSubscriptions>>,
           ~IsReply(m, "find"),
           \A s \in DOMAIN clientSubscriptions : ~Carries(m, s),
           rolledBack \subseteq rolledBack', \A k : Refuses(m, k) => k \in rolledBack',
           \A k : \/ k \in rolledBack'
                  \/ /\ k \in DOMAIN shown' <=> k \in DOMAIN shown
                     /\ k \in DOMAIN shown => shown'[k] = shown[k]
    PROVE  Copies'
<1>1. UNCHANGED <<row, change, target>> /\ m = ToClient[1]
  BY ReadingMeans DEF Reading
<1>2. ASSUME NEW k \in Key PROVE RowStays(k)
  <2>1. Excused(k) => Excused(k)'
    BY <1>1, MovingExcuses
  <2>2. CASE k \in rolledBack'
    BY <2>1, <2>2 DEF RowStays, Excused
  <2>3. CASE k \notin rolledBack'
    <3>1. RowRight(shown, k) => RowRight(shown, k)'
      BY <1>1, <2>3, SameRight DEF RowRight
    <3> QED
      BY <2>1, <3>1 DEF RowStays
  <2> QED
    BY <2>2, <2>3
<1> QED
  BY <1>1, <1>2, MovingRests

\* The changes of a message make the rows right which they are about.
LEMMA TriggeredFollows ==
    ASSUME NEW m, NEW r, Reading(m, r), NEW sent, Moving(1, r, sent),
           NEW s, Carries(m, s), shown' = Triggered(shown, ChangesIn(m)),
           rolledBack' = rolledBack, \A k : ~Refuses(m, k), NEW k \in Key
    PROVE  RowFollows(1, s, k)
<1>1. /\ UNCHANGED <<row, change, target>> /\ m = ToClient[1] /\ 1 \in DOMAIN ToClient
      /\ Whole(m)
  BY ReadingMeans DEF Reading
<1>2. Excused(k) => Excused(k)'
  BY <1>1, MovingExcuses
<1>3. WholeChanges(ChangesIn(m))
  BY <1>1 DEF Whole, Carries, IsReply
<1>4. \A there, rec : Right(there, rec, k)' <=> Right(there, rec, k)
  BY <1>1, SameRight
<1>5. PICK last : last = Latest(About(ChangesIn(m), k))
  OBVIOUS
<1>6. CASE About(ChangesIn(m), k) = {}
  <2>1. /\ k \in DOMAIN shown' <=> k \in DOMAIN shown
        /\ k \in DOMAIN shown => shown'[k] = shown[k]
    BY <1>3, <1>6, TriggeredMeans
  <2>2. RowRight(shown, k) => RowRight(shown, k)'
    BY <1>4, <2>1 DEF RowRight
  <2>3. ~Mentions(1, s, k)
    BY <1>1, <1>6 DEF Mentions
  <2> QED
    BY <1>2, <2>2, <2>3 DEF RowFollows
<1>7. CASE About(ChangesIn(m), k) # {}
  <2>1. /\ k \in DOMAIN shown' <=> last.type # "Delete"
        /\ k \in DOMAIN shown' => shown'[k] = last.record
    BY <1>3, <1>5, <1>7, TriggeredMeans
  <2>2. Mentions(1, s, k)
    BY <1>1, <1>7 DEF Mentions
  <2>3. ToldRightly(ChangesIn(m), k) => Right(last.type # "Delete", last.record, k)
    BY <1>5 DEF ToldRightly
  <2>4. \A rec : Right(FALSE, rec, k) => Right(FALSE, 0, k)
    BY DEF Right
  <2>5. Right(last.type # "Delete", last.record, k) => RowRight(shown, k)'
    <3>1. CASE last.type # "Delete"
      BY <1>4, <2>1, <3>1 DEF RowRight
    <3>2. CASE last.type = "Delete"
      BY <1>4, <2>1, <2>4, <3>2 DEF RowRight
    <3> QED
      BY <3>1, <3>2
  <2> QED
    BY <1>1, <1>2, <2>2, <2>3, <2>5 DEF RowFollows
<1> QED
  BY <1>6, <1>7

\* Answers nobody waits for.
LEMMA IgnoredCopies ==
    ASSUME NEW m, NEW r, Reading(m, r), OnIgnored(m)
    PROVE  Copies'
<1>1. /\ m.cmd # "changes" /\ m.reply_to \notin DOMAIN calls
      /\ UNCHANGED <<inbox, nextCall, calls, shown, target, subscription, rolledBack,
                     pendingSubscriptions, clientSubscriptions>>
  BY DEF OnIgnored, dispatchVars, rowVars, subscriptionVars
<1>2. r = m.reply_to /\ Expected(m)
  BY <1>1, ReadingMeans DEF Reading, Receiving, Ends, Answer
<1>3. PICK sent : Moving(1, r, sent) /\ DOMAIN sent = {}
  BY <1>1, <1>2, OtherRead
<1>4. ~IsReply(m, "find") /\ ~IsReply(m, "subscribe")
  BY <1>1, <1>2 DEF Expected, Answer, Waits
<1>5. (\A s : ~Carries(m, s)) /\ \A k : ~Refuses(m, k)
  BY <1>1, <1>4 DEF Carries, IsReply, Refuses, Waits
<1> QED
  BY <1>1, <1>3, <1>4, <1>5, ReadRests

\* The answer to an edit; an error excuses the row it puts back.
LEMMA WrittenCopies ==
    ASSUME NEW m, NEW r, Reading(m, r), OnWritten(m)
    PROVE  Copies'
<1> DEFINE none == <<>>
<1>1. PICK record : record = calls[m.reply_to].record
  OBVIOUS
<1>2. /\ Answers(m, "undo")
      /\ \/ /\ m.cmd = "error" /\ shown' = SetRow(shown, record)
            /\ rolledBack' = rolledBack \cup {record.key}
         \/ m.cmd = "reply" /\ UNCHANGED <<shown, rolledBack>>
      /\ Post(none, none, Without(m.reply_to))
      /\ UNCHANGED <<subscription, pendingSubscriptions, clientSubscriptions>>
  BY <1>1 DEF OnWritten, subscriptionVars
<1>3. Dutiful(none) /\ DOMAIN none = {}
  BY ShortSequences DEF Dutiful
<1> HIDE DEF none
<1>4. PICK sent : Moving(1, r, sent) /\ IsSent(sent, none)
  BY <1>2, <1>3, AnswerRead
<1>5. \A k \in DOMAIN sent : FALSE
  BY <1>3, <1>4 DEF IsSent
<1>6. /\ ~IsReply(m, "find") /\ ~IsReply(m, "subscribe") /\ m.cmd # "changes"
      /\ calls[m.reply_to].kind = "undo"
  BY <1>2, ReadingMeans DEF Expected, Answer, Answers, Waits
<1>7. \A s : ~Carries(m, s)
  BY <1>6 DEF Carries, IsReply
<1>8. \A k : Refuses(m, k) => k \in rolledBack'
  BY <1>1, <1>2 DEF Refuses
<1>9. \A k : \/ k \in rolledBack'
             \/ /\ k \in DOMAIN shown' <=> k \in DOMAIN shown
                /\ k \in DOMAIN shown => shown'[k] = shown[k]
  BY <1>2 DEF SetRow, With
<1>10. rolledBack \subseteq rolledBack'
  BY <1>2
<1> QED
  BY <1>2, <1>4, <1>5, <1>6, <1>7, <1>8, <1>9, <1>10, ReadRests

\* A push to a subscription the client knows, or does not know any more.
LEMMA PushCopies ==
    ASSUME NEW m, NEW r, Reading(m, r), OnPush(m)
    PROVE  Copies'
<1>1. /\ m.cmd = "changes" /\ ChangesIn(m) = m.changes
      /\ shown' = IF subscription \in Triggers(m) THEN Triggered(shown, ChangesIn(m))
                                                  ELSE shown
      /\ UNCHANGED <<inbox, nextCall, calls, target, subscription, rolledBack,
                     pendingSubscriptions, clientSubscriptions>>
  BY DEF OnPush, Listen, ChangesIn, dispatchVars, subscriptionVars
<1>2. r = 0
  BY <1>1 DEF Reading, Receiving, Ends, Answer
<1>3. PICK sent : Moving(1, r, sent) /\ DOMAIN sent = {}
  BY <1>1, <1>2, ReadingMeans, OtherRead
<1>4. ~IsReply(m, "find") /\ \A k : ~Refuses(m, k)
  BY <1>1 DEF IsReply, Refuses
<1>5. \A s : Carries(m, s) <=> s = m.reply_to
  BY <1>1 DEF Carries
<1>6. ClientSide /\ m = ToClient[1]
  BY ReadingMeans
<1>7. CASE subscription \in Triggers(m)
  <2>1. /\ m.reply_to \in DOMAIN clientSubscriptions
        /\ \A s \in DOMAIN clientSubscriptions : s = m.reply_to
        /\ pendingSubscriptions = {}
    BY <1>1, <1>6, <1>7 DEF Triggers, ClientSide
  <2>2. \A s \in DOMAIN clientSubscriptions : \A k \in Key : RowFollows(1, s, k)
    BY <1>1, <1>3, <1>4, <1>5, <1>7, <2>1, TriggeredFollows
  <2>3. ASSUME ~Finding' PROVE AsksRightly' /\ GrantsRightly' /\ ListensRightly'
    <3>1. ListensRightly
      BY <1>3, <1>4, <1>6, <2>3, MovingNotFinding, ReadingMeans DEF Copies
    <3>2. ListensRightly'
      BY <1>1, <1>3, <2>2, <3>1, MovingListens
    <3>3. AsksRightly' /\ GrantsRightly'
      BY <1>1, <2>1 DEF AsksRightly, GrantsRightly
    <3> QED
      BY <3>2, <3>3
  <2> QED
    BY <1>3, <2>3, MovingCopies
<1>8. CASE subscription \notin Triggers(m)
  <2>1. \A s \in DOMAIN clientSubscriptions : ~Carries(m, s)
    BY <1>1, <1>5, <1>6, <1>8 DEF Triggers, ClientSide
  <2> QED
    BY <1>1, <1>3, <1>4, <1>8, <2>1, ReadRests
<1> QED
  BY <1>7, <1>8

\* The answer to subscribe: the rows catch up, or the subscription is given back.
LEMMA SubscribedCopies ==
    ASSUME NEW m, NEW r, Reading(m, r), OnSubscribed(m)
    PROVE  Copies'
<1>1. PICK object, id : object = calls[m.reply_to].object /\ id = m.data.subscription
  OBVIOUS
<1>2. /\ Answers(m, "subscribe") /\ m.cmd # "changes"
      /\ UNCHANGED <<target, subscription, rolledBack>>
      /\ shown' = IF subscription \in Triggers(m) THEN Triggered(shown, m.data.changes)
                                                  ELSE shown
  BY DEF OnSubscribed, Registered, Listen, Answers
<1>3. /\ ServerSide /\ ClientSide /\ Objects /\ Linked /\ Copies /\ m = ToClient[1]
      /\ 1 \in DOMAIN ToClient /\ Expected(m) /\ UNCHANGED <<peer, subscriptions, target>>
  BY ReadingMeans DEF Reading
<1>4. IsReply(m, "subscribe") /\ ChangesIn(m) = m.data.changes /\ Gives(m, id)
  BY <1>1, <1>2, <1>3 DEF Expected, Answers, Answer, Waits, ChangesIn, IsReply, Gives
<1>5. ~IsReply(m, "find") /\ \A k : ~Refuses(m, k)
  BY <1>4 DEF IsReply, Refuses
<1>6. \A s : Carries(m, s) <=> s = id
  BY <1>1, <1>2, <1>4 DEF Carries, IsReply
<1>7. Triggers(m) = {object} \cap pendingSubscriptions
  BY <1>1, <1>2 DEF Triggers
<1>8. CASE object \in pendingSubscriptions
  <2> DEFINE none == <<>>
  <2>1. /\ clientSubscriptions' = With(clientSubscriptions, id, object)
        /\ pendingSubscriptions' = pendingSubscriptions \ {object}
        /\ Post(none, none, Without(m.reply_to))
    BY <1>1, <1>8 DEF OnSubscribed, Registered
  <2>2. Dutiful(none) /\ DOMAIN none = {}
    BY ShortSequences DEF Dutiful
  <2> HIDE DEF none
  <2>3. PICK sent : Moving(1, r, sent) /\ IsSent(sent, none)
    BY <1>2, <2>1, <2>2, AnswerRead
  <2>4. /\ object = subscription /\ pendingSubscriptions = {subscription}
        /\ DOMAIN clientSubscriptions = {}
    BY <1>3, <1>8 DEF ClientSide
  <2>5. DOMAIN clientSubscriptions' = {id} /\ pendingSubscriptions' = {}
    BY <2>1, <2>4 DEF With
  <2>6. shown' = Triggered(shown, ChangesIn(m))
    BY <1>2, <1>4, <1>7, <2>4
  <2>7. \A k \in Key : RowFollows(1, id, k)
    BY <1>2, <1>5, <1>6, <2>3, <2>6, TriggeredFollows
  <2>8. ASSUME ~Finding' PROVE AsksRightly' /\ GrantsRightly' /\ ListensRightly'
    <3>1. GrantsRightly
      BY <1>3, <1>5, <2>3, <2>8, MovingNotFinding DEF Copies
    <3>2. ASSUME Listening(id)' PROVE Follows(id)'
      <4>1. Listening(id)
        BY <1>3, <3>2 DEF Listening
      <4>2. GrantedBy(m)
        BY <1>1, <1>4, <2>4, <4>1 DEF GrantedBy
      <4>3. Follows(id)
        BY <1>1, <1>3, <2>4, <3>1, <4>2 DEF GrantsRightly
      <4> QED
        BY <1>3, <2>3, <2>7, <4>3, MovingFollows
    <3>3. ListensRightly'
      BY <2>5, <3>2 DEF ListensRightly
    <3>4. AsksRightly' /\ GrantsRightly'
      BY <2>5 DEF AsksRightly, GrantsRightly
    <3> QED
      BY <3>3, <3>4
  <2> QED
    BY <2>3, <2>8, MovingCopies
<1>9. CASE object \notin pendingSubscriptions
  <2> DEFINE msgs == <<DropOf(id)>>
             contexts == <<NoCall>>
  <2>1. /\ Post(msgs, contexts, Without(m.reply_to))
        /\ UNCHANGED <<clientSubscriptions, pendingSubscriptions>>
    BY <1>1, <1>9 DEF OnSubscribed, Registered, DropOf
  <2>2. IsSeq(msgs) /\ DOMAIN msgs = {1} /\ msgs[1] = DropOf(id)
    BY ShortSequences
  <2> HIDE DEF msgs, contexts
  <2>3. "cmd" \in DOMAIN DropOf(id) /\ DropOf(id).cmd = "unsubscribe"
    BY DEF DropOf
  <2>4. Dutiful(msgs)
    BY <2>2, <2>3 DEF Dutiful
  <2>5. PICK sent : Moving(1, r, sent) /\ IsSent(sent, msgs)
    BY <1>2, <2>1, <2>4, AnswerRead
  <2>6. \A k \in DOMAIN sent : sent[k].cmd # "subscribe"
    BY <2>2, <2>3, <2>5, SentIs DEF IsSent
  <2>7. id \notin DOMAIN clientSubscriptions
    BY <1>3, <1>4 DEF Linked, Ids, Given
  <2>8. shown' = shown
    BY <1>2, <1>7, <1>9
  <2>9. \A s \in DOMAIN clientSubscriptions : ~Carries(m, s)
    BY <1>6, <2>7
  <2> QED
    BY <1>2, <1>5, <2>1, <2>5, <2>6, <2>8, <2>9, ReadRests
<1> QED
  BY <1>8, <1>9

\* The answer to find: the rows are right but for what the new subscription will
\* be told, unless another load has begun.
LEMMA FoundCopies ==
    ASSUME NEW m, NEW r, Reading(m, r), OnFound(m)
    PROVE  Copies'
<1>1. PICK records, from : records = m.data.records /\ from = LatestRevision(records)
  OBVIOUS
<1>2. /\ Answers(m, "find") /\ shown' = AsRows(records) /\ subscription' = nextSubscription
      /\ Resubscribe(subscription, <<>>, target, from, Without(m.reply_to))
  BY <1>1 DEF OnFound
<1>3. /\ ServerSide /\ ClientSide /\ Objects /\ Linked /\ Copies /\ m = ToClient[1]
      /\ 1 \in DOMAIN ToClient /\ Expected(m) /\ Takes(1, r)
      /\ UNCHANGED <<peer, target, row, change, lastRevision>>
  BY ReadingMeans DEF Reading
<1>4. IsReply(m, "find")
  BY <1>2, <1>3 DEF Expected, Answers, Answer, Waits
<1>5. PICK msgs, contexts, last :
          /\ Post(msgs, contexts, Without(m.reply_to))
          /\ AskAnew(msgs, contexts, last, target, from)
  BY <1>2, <1>3, ResubscribeMeans
<1>6. /\ IsSeq(msgs) /\ last \in Nat /\ DOMAIN msgs = 1..last + 1
      /\ \A k \in 1..last : \E s : msgs[k] = DropOf(s)
      /\ msgs[last + 1] = AskFrom(target, from)
  BY <1>5 DEF AskAnew, DropAll, AskFrom
<1>7. /\ \A s : "cmd" \in DOMAIN DropOf(s) /\ DropOf(s).cmd = "unsubscribe"
      /\ "cmd" \in DOMAIN AskFrom(target, from) /\ AskFrom(target, from).cmd = "subscribe"
      /\ "from" \in DOMAIN AskFrom(target, from) /\ AskFrom(target, from).from = from
  BY DEF DropOf, AskFrom
<1>8. \A k \in DOMAIN msgs : k \in 1..last \/ k = last + 1
  BY <1>6
<1>9. Dutiful(msgs)
  BY <1>6, <1>7, <1>8 DEF Dutiful
<1>10. PICK sent : Moving(1, r, sent) /\ IsSent(sent, msgs)
  BY <1>2, <1>5, <1>9, AnswerRead
<1>11. \A k \in DOMAIN sent : sent[k].cmd = "subscribe" => sent[k].from = from
  <2> SUFFICES ASSUME NEW k \in DOMAIN msgs, sent[k].cmd = "subscribe"
               PROVE  sent[k].from = from
    BY <1>10 DEF IsSent
  <2>1. \A f \in DOMAIN msgs[k] : f # "msgId" => sent[k][f] = msgs[k][f]
    BY <1>10, SentIs
  <2>2. k = last + 1
    <3>1. k \in 1..last => sent[k].cmd = "unsubscribe"
      BY <1>6, <1>7, <2>1
    <3> QED
      BY <1>8, <3>1
  <2> QED
    BY <1>6, <1>7, <2>1, <2>2
<1>12. DOMAIN clientSubscriptions' = {}
  <2>1. IdsOf(subscription) = DOMAIN clientSubscriptions
    BY <1>3, AllUnsubscribed
  <2> QED
    BY <1>2, <2>1 DEF Resubscribe, Restrict
<1>13. Turn(1, r, sent)
  BY <1>10 DEF Moving
<1>14. \A i \in DOMAIN ToClient' :
           i \in Nat \ {0} /\ i + 1 \in DOMAIN ToClient /\ ToClient'[i] = ToClient[i + 1]
  BY <1>3 DEF Takes
<1>15. \A id : Waits(id, "subscribe") => calls[id].object # nextSubscription
  BY <1>3 DEF Waits, Objects, ClientSide
<1>16. ASSUME ~Finding' PROVE LoadsRightly(records)
  <2>1. \A i \in DOMAIN ToServer : ToServer[i].cmd # "find"
    BY <1>13, <1>16, SentIsBehind DEF Finding
  <2>2. ASSUME NEW j \in DOMAIN ToClient, j > 1, IsReply(ToClient[j], "find") PROVE FALSE
    <3>1. j \in Nat \ {0} /\ ~(j <= 1)
      BY <1>3, <2>2 DEF Takes
    <3>2. j - 1 \in DOMAIN ToClient' /\ ToClient'[j - 1] = ToClient[j]
      BY <1>3, <2>2, <3>1 DEF Takes
    <3> QED
      BY <1>16, <2>2, <3>2 DEF Finding
  <2> QED
    BY <1>1, <1>3, <1>4, <2>1, <2>2 DEF Copies, FoundRightly
<1>17. ASSUME LoadsRightly(records) PROVE CatchesUp(from)'
  <2>1. /\ \A k : \A there, rec : Right(there, rec, k)' <=> Right(there, rec, k)
        /\ \A k : Later(k, from)' <=> Later(k, from)
    BY <1>3, SameRight
  <2>2. \A k \in Key : Later(k, from) \/ RowRight(AsRows(records), k)
    BY <1>1, <1>17 DEF LoadsRightly
  <2>3. \A k : RowRight(AsRows(records), k) => RowRight(shown, k)'
    BY <1>2, <2>1 DEF RowRight
  <2>4. from \in 0..lastRevision'
    BY <1>1, <1>3, <1>17 DEF LoadsRightly
  <2> QED
    BY <2>1, <2>2, <2>3, <2>4 DEF CatchesUp
<1>18. ASSUME ~Finding' PROVE AsksRightly'
  <2> SUFFICES ASSUME NEW i \in DOMAIN ToServer', AskedFor(ToServer[i])'
               PROVE  CatchesUp(ToServer[i].from)'
    BY DEF AsksRightly
  <2>1. PICK msg : msg = ToServer'[i]
    OBVIOUS
  <2>2. msg.cmd = "subscribe" /\ calls'[msg.msgId].object = nextSubscription
    BY <1>2, <2>1 DEF AskedFor
  <2>3. i \notin DOMAIN ToServer
    <3>1. SUFFICES ASSUME i \in DOMAIN ToServer PROVE FALSE
      OBVIOUS
    <3>2. ToServer[i] = msg
      BY <1>13, <2>1, <3>1, SentIsBehind
    <3> QED
      BY <1>10, <1>15, <2>2, <3>1, <3>2, MovingCalls
  <2>4. PICK k \in DOMAIN sent : msg = sent[k]
    BY <1>13, <2>1, <2>3, SentIsBehind
  <2>5. msg.from = from
    BY <1>11, <2>2, <2>4
  <2>6. CatchesUp(from)'
    BY <1>16, <1>17, <1>18
  <2> QED
    BY <2>1, <2>5, <2>6
<1>19. GrantsRightly'
  <2> SUFFICES ASSUME NEW i \in DOMAIN ToClient', GrantedBy(ToClient[i])'
               PROVE  FALSE
    BY DEF GrantsRightly
  <2>1. PICK msg : msg = ToClient'[i]
    OBVIOUS
  <2>2. IsReply(msg, "subscribe") /\ calls'[msg.reply_to].object = nextSubscription
    BY <1>2, <2>1 DEF GrantedBy, Gives
  <2>3. i + 1 \in DOMAIN ToClient /\ ToClient[i + 1] = msg /\ i + 1 > 1
    BY <1>14, <2>1
  <2> QED
    BY <1>10, <1>15, <2>2, <2>3, MovingCalls
<1>20. ListensRightly'
  BY <1>12 DEF ListensRightly
<1> QED
  BY <1>10, <1>18, <1>19, <1>20, MovingCopies

\* Once it is let in, the client asks for the rows, and has not been told a thing.
LEMMA ConnectedCopies ==
    ASSUME TypesInv, NEW m, NEW r, Receiving(m, r), OnConnected(m), m.cmd = "reply"
    PROVE  Copies'
<1> DEFINE n == 1 + pendingReloads
           msgs == [i \in 1..n |-> FindMessage(target)]
           contexts == [i \in 1..n |-> [kind |-> "find"]]
<1>1. /\ Answers(m, "authenticate") /\ Post(msgs, contexts, Without(m.reply_to))
      /\ UNCHANGED <<target, peer>>
  BY DEF OnConnected, OnAuthenticated, Unconnect
<1>2. pendingReloads \in Nat
  BY ReloadsAssumption DEF TypesInv, DataInv
<1>3. /\ ServerSide /\ ClientSide /\ link[peer] = "open" /\ Takes(1, r)
      /\ UNCHANGED <<change, authenticated, subscriptions, nextSubscriptionId>>
  BY <1>1, ReceivingMeans
<1>4. ~letIn
  BY <1>1, GreetedFirst DEF Expected, Waits, Answer, Answers, IsReply
<1>5. ToServer = <<>> /\ DOMAIN ToClient = {1}
  BY <1>4, GreetedFirst
<1>6. IsSeq(msgs) /\ DOMAIN msgs = 1..n /\ 1 \in DOMAIN msgs
  <2>1. msgs \in [1..n -> {FindMessage(target)}] /\ n \in Nat /\ 1 \in 1..n
    BY <1>2
  <2> HIDE DEF msgs, n
  <2> QED
    BY <2>1, ListsAre
<1>7. \A k \in DOMAIN msgs :
          /\ "cmd" \in DOMAIN msgs[k] /\ msgs[k].cmd = "find"
          /\ "query" \in DOMAIN msgs[k] /\ msgs[k].query = target
  BY DEF FindMessage
<1> HIDE DEF msgs, contexts, n
<1>8. r = m.reply_to
  BY <1>1, <1>6, CallEnds
<1>9. \E sent : Turn(1, r, sent) /\ IsSent(sent, msgs)
  BY <1>1, <1>3, <1>6, <1>8, PostTurns
<1>10. PICK sent : Turn(1, r, sent) /\ IsSent(sent, msgs)
  BY <1>9
<1>11. \A k \in DOMAIN sent : sent[k].cmd = "find" /\ sent[k].query = target'
  BY <1>1, <1>7, <1>10, SentIs DEF IsSent
<1>12. \A i \in DOMAIN ToServer' : ToServer'[i].cmd = "find" /\ ToServer'[i].query = target'
  <2>1. \A i \in DOMAIN ToServer : FALSE
    BY <1>5, ShortSequences
  <2> QED
    BY <1>10, <1>11, <2>1, SentIsBehind
<1>13. \E i \in DOMAIN ToServer' : ToServer'[i].cmd = "find"
  <2>1. 1 \in DOMAIN sent
    BY <1>6, <1>10 DEF IsSent
  <2> QED
    BY <1>10, <1>12, <2>1, SentIsBehind
<1>14. \A i \in DOMAIN ToClient' : FALSE
  <2> SUFFICES ASSUME NEW i \in DOMAIN ToClient' PROVE FALSE
    OBVIOUS
  <2>1. i \in Nat \ {0} /\ i + 1 \in DOMAIN ToClient
    BY <1>3 DEF Takes
  <2> QED
    BY <1>5, <2>1
<1>15. KnownIds' /\ GivenFirst'
  BY <1>14 DEF KnownIds, GivenFirst
<1>16. EditsOwn' /\ FindsTarget' /\ FoundRightly'
  BY <1>12, <1>13 DEF EditsOwn, FindsTarget, FoundRightly
<1>17. Finding'
  BY <1>13 DEF Finding
<1> QED
  BY <1>15, <1>16, <1>17 DEF Copies

\* Whatever the client receives, the copy is right or on its way.
LEMMA ReceiveKeepsCopy ==
    ASSUME TypesInv, CopyInv, ClientReceives
    PROVE  CopyInv'
<1> SUFFICES ASSUME InSession', letIn' PROVE Copies'
  BY DEF CopyInv
<1>1. PICK m \in Received :
          /\ Taken /\ UNCHANGED <<vars, link, session>>
          /\ \/ OnConnected(m) \/ OnFound(m) \/ OnSubscribed(m) \/ OnWritten(m)
             \/ OnPush(m) \/ OnIgnored(m)
  BY DEF ClientReceives, Receive
<1>2. PICK r : Ends(m, r)
  BY DEF Ends
<1>3. Receiving(m, r)
  BY <1>1, <1>2 DEF Receiving, Received, ToClient, TypesInv
<1>4. CASE OnConnected(m)
  <2>1. m.cmd = "reply"
    BY <1>4 DEF OnConnected, OnAuthenticated, Unconnect, InSession
  <2> QED
    BY <1>3, <1>4, <2>1, ConnectedCopies
<1>5. ASSUME OnFound(m) \/ OnSubscribed(m) \/ OnWritten(m) \/ OnPush(m) \/ OnIgnored(m)
      PROVE  Reading(m, r)
  <2>1. UNCHANGED <<peer, target, letIn>>
    BY <1>5 DEF OnFound, OnSubscribed, OnWritten, OnPush, OnIgnored, Listen, socketVars,
                rowVars
  <2> QED
    BY <1>3, <2>1 DEF Reading
<1> QED
  BY <1>1, <1>4, <1>5, FoundCopies, SubscribedCopies, WrittenCopies, PushCopies,
     IgnoredCopies

\* A session begins before the client is let in.
LEMMA SocketKeepsCopy ==
    ASSUME CopyInv, SocketActs
    PROVE  CopyInv'
<1>1. ~InSession' \/ ~letIn'
  BY DEF SocketActs, SocketStep, UserConnects, Established, NotEstablished, Lost,
         UserDisconnects, ReconnectNow, ConnectToHost, Unconnect, InSession
<1> QED
  BY <1>1 DEF CopyInv

-----------------------------------------------------------------------------
(* The copy in every run. *)

LEMMA CopyStep ==
    ASSUME "rollback" \notin Faults, TypesInv, CopyInv, NoFullAnswer, [ModelNext]_modelVars
    PROVE  CopyInv'
<1>1. TypeOK'
  BY TypesStep
<1>2. CASE ServerHandles \/ ServerActs
  <2>1. Idle
    BY <1>2 DEF ServerHandles, ServerActs, Idle
  <2> QED
    BY <1>1, <1>2, <2>1, ServerKeepsCopy
<1>3. CASE ClientReceives
  BY <1>3, ReceiveKeepsCopy
<1>4. CASE UserActs
  BY <1>4, UserKeepsCopy
<1>5. CASE SocketActs
  BY <1>5, SocketKeepsCopy
<1>6. CASE UNCHANGED modelVars
  <2>1. UNCHANGED <<vars, session, link, inbox, outbox, socketVars, dispatchVars, rowVars>>
    BY <1>6 DEF modelVars, allServerVars, serverVars
  <2>2. UNCHANGED <<row, change, lastRevision, authenticated, subscriptions,
                    nextSubscriptionId, peer, socket, letIn, nextCall, calls, target,
                    shown, rolledBack, subscription, pendingSubscriptions,
                    clientSubscriptions>>
    BY <2>1 DEF vars, engineVars, session, socketVars, dispatchVars, subscriptionVars,
                rowVars
  <2> SUFFICES ASSUME InSession, letIn PROVE Copies'
    BY <2>1, <2>2 DEF CopyInv, InSession
  <2>3. /\ ServerSide /\ ClientSide /\ InTurn /\ Linked /\ Copies /\ link[peer] = "open"
        /\ peer \in Connection /\ 0 \notin DOMAIN calls
    BY DEF TypesInv, SubscriptionInv, ClientSide, InSession, CopyInv, Protocol
  <2> DEFINE none == <<>>
  <2>4. IsSeq(none) /\ DOMAIN none = {}
    BY ShortSequences
  <2>5. Sends(none) /\ Forgets(0) /\ Takes(0, 0)
    BY <2>1, <2>2, <2>3, NothingSent, NothingTaken
  <2> HIDE DEF none
  <2>6. PICK sent : Turn(0, 0, sent) /\ DOMAIN sent = DOMAIN none
    BY <2>2, <2>3, <2>4, <2>5, SendsTurn
  <2>7. Moving(0, 0, sent)
    BY <2>2, <2>3, <2>4, <2>6 DEF Moving
  <2>8. ASSUME NEW k \in Key PROVE RowStays(k)
    <3>1. Excused(k) => Excused(k)'
      BY <2>2, <2>7, MovingExcuses
    <3>2. RowRight(shown, k) => RowRight(shown, k)'
      BY <2>2, SameRight DEF RowRight
    <3> QED
      BY <3>1, <3>2 DEF RowStays
  <2> QED
    BY <2>2, <2>4, <2>6, <2>7, <2>8, MovingRests
<1> QED
  BY <1>2, <1>3, <1>4, <1>5, <1>6 DEF ModelNext

LEMMA CopyStart == ModelInit => CopyInv
<1> SUFFICES ASSUME ModelInit PROVE Copies
  BY DEF CopyInv
<1>1. PICK c \in Connection :
          /\ inbox = [Nothing EXCEPT ![c] = <<With(FindMessage(target), "msgId", 1)>>]
          /\ outbox = Nothing /\ peer = c
  BY DEF ModelInit, ServesFirst, Connected
<1>2. PICK m : m = With(FindMessage(target), "msgId", 1)
  OBVIOUS
<1>3. m.cmd = "find" /\ m.query = target
  <2>1. {"cmd", "query"} \subseteq DOMAIN FindMessage(target)
        /\ FindMessage(target).cmd = "find" /\ FindMessage(target).query = target
    BY DEF FindMessage
  <2> QED
    BY <1>2, <2>1, WithKeeps
<1>4. ToServer = <<m>> /\ ToClient = <<>>
  BY <1>1, <1>2 DEF ToServer, ToClient, Nothing
<1>5. DOMAIN ToServer = {1} /\ ToServer[1] = m /\ DOMAIN ToClient = {}
  BY <1>4, ShortSequences
<1>6. KnownIds /\ GivenFirst /\ EditsOwn /\ FindsTarget /\ FoundRightly /\ Finding
  BY <1>3, <1>5 DEF KnownIds, GivenFirst, EditsOwn, FindsTarget, FoundRightly, Finding
<1> QED
  BY <1>6 DEF Copies

\* Once no message is under way every row is right, but for those put back.
LEMMA SettledRows ==
    ASSUME TypesInv, CopyInv, Quiet, NEW k \in Key
    PROVE  k \in rolledBack \/ RowRight(shown, k)
<1>1. ToServer = <<>> /\ ToClient = <<>>
  BY DEF Quiet, ToServer, ToClient
<1>2. DOMAIN ToServer = {} /\ DOMAIN ToClient = {}
  BY <1>1, ShortSequences
<1>3. InSession /\ letIn /\ Linked /\ Copies
  BY DEF Quiet, TypesInv, SubscriptionInv, ClientSide, InSession, Protocol, CopyInv
<1>4. ~Finding /\ Loaded
  BY <1>2, <1>3 DEF Linked, Finding
<1>5. PICK s \in DOMAIN clientSubscriptions : Listening(s)
  BY <1>2, <1>4 DEF Loaded
<1>6. Follows(s)
  BY <1>3, <1>4, <1>5 DEF Copies, ListensRightly
<1>7. \A i : ~Mentions(i, s, k)
  BY <1>2 DEF Mentions
<1>8. Excused(k) => k \in rolledBack
  BY <1>2 DEF Excused
<1> QED
  BY <1>6, <1>7, <1>8 DEF Follows

LEMMA CompleteRows == TypesInv /\ CopyInv => NothingMissing
<1> SUFFICES ASSUME TypesInv, CopyInv, Quiet, NEW r \in Find(target)
             PROVE  r.key \in rolledBack \/ r \in Range(shown)
  BY DEF NothingMissing
<1>1. PICK k \in Key : r = Found(k) /\ Wanted(k)
  BY DEF Find, Wanted, Live
<1>2. r.key = k
  BY <1>1 DEF Found
<1>3. CASE RowRight(shown, k)
  <2>1. k \in DOMAIN shown /\ shown[k] = r
    BY <1>1, <1>3 DEF RowRight, Right
  <2> QED
    BY <2>1 DEF Range
<1> QED
  BY <1>2, <1>3, SettledRows

\* The queries ask for ids only.
PlainQueries == \A q \in Queries : \A f \in Field : q.accepts[f] = Value
LEMMA ExactRows == PlainQueries /\ TypesInv /\ CopyInv => NothingForeign
<1> SUFFICES ASSUME PlainQueries, TypesInv, CopyInv, Quiet, NEW k \in DOMAIN shown,
                    k \notin rolledBack
             PROVE  shown[k] \in Find(target)
  BY DEF NothingForeign
<1>1. target \in Queries /\ shown[k] \in Record /\ shown[k].key = k
  BY DEF TypesInv, DataInv, Rows
<1>2. k \in Key
  BY <1>1, RecordsAreOfKeys
<1>3. Right(TRUE, shown[k], k)
  BY <1>2, SettledRows DEF RowRight
<1>4. Wanted(k) /\ shown[k] = Found(k)
  BY <1>1, <1>3 DEF Right, PlainTarget, PlainQueries
<1> QED
  BY <1>2, <1>4 DEF Find, Wanted, Live

\* A log with fewer revisions than the LIMIT always fits into one answer.
LEMMA FewChanges ==
    ASSUME TypesInv, MaxRevision < ChangesLimit
    PROVE  NoFullAnswer
<1> SUFFICES ASSUME NEW i \in DOMAIN ToServer, ToServer[i].cmd = "subscribe"
             PROVE  Cardinality(Changes(ToServer[i].query, ToServer[i].from)) < ChangesLimit
  BY DEF NoFullAnswer
<1>1. TypeOK /\ OnePerRevision /\ Letters /\ peer \in Connection
  BY DEF TypesInv, EngineInv, IInv, DataInv, SubscriptionInv, ClientSide
<1>2. PICK q, from : q = ToServer[i].query /\ from = ToServer[i].from
  OBVIOUS
<1>3. q \in Queries /\ from \in 0..MaxRevision
  <2>1. Sound(ToServer[i])
    BY <1>1 DEF Letters, ToServer
  <2> QED
    BY <1>2, <2>1 DEF Sound
<1>4. PICK S : S = Changes(q, from)
  OBVIOUS
<1>5. WholeChanges(S)
  BY <1>1, <1>3, <1>4, ChangesAreWhole
<1>6. \A ch \in S : ch.revision \in 1..MaxRevision
  <2> SUFFICES ASSUME NEW ch \in S PROVE ch.revision \in 1..MaxRevision
    OBVIOUS
  <2>1. PICK c \in LogSince(q, from) : ch = AsTold(c)
    BY <1>4, ChangesAreTold
  <2>2. ch.revision = c.revision /\ c.revision > from
    BY <2>1 DEF AsTold, LogSince
  <2>3. ch.revision \in 0..MaxRevision
    BY <1>5 DEF WholeChanges
  <2> QED
    BY <1>3, <2>2, <2>3, BoundAssumption
<1>7. [ch \in S |-> ch.revision] \in Injection(S, 1..MaxRevision)
  <2>1. \A x, y \in S : x.revision = y.revision => x = y
    BY <1>5 DEF WholeChanges
  <2> QED
    BY <1>6, <2>1 DEF Injection, IsInjective
<1>8. IsFiniteSet(1..MaxRevision) /\ Cardinality(1..MaxRevision) = MaxRevision
  BY FS_Interval, BoundAssumption
<1>9. Cardinality(S) <= MaxRevision
  BY <1>7, <1>8, FS_Injection
<1>10. IsFiniteSet(S) /\ Cardinality(S) \in Nat
  BY <1>7, <1>8, FS_Injection, FS_CardinalityType
<1> QED
  BY <1>2, <1>4, <1>9, <1>10, BoundAssumption

\* As long as, moreover, no answer to a subscription comes to the LIMIT, which
\* the model does not see, nothing is lost of what the server tells between find and
\* subscribe, through reloads, changes of target and reconnections: once no
\* message is under way every record of the target is shown as it is, unless an
\* error callback put the row back (AbstractRecordModel.cpp:129-184).
THEOREM RowsComplete ==
    ASSUME "rollback" \notin Faults
    PROVE  ModelSpec /\ []NoFullAnswer => []NothingMissing
<1>1. ModelInit => TypesInv /\ CopyInv
  BY TypesStart, CopyStart
<1>2. TypesInv /\ CopyInv /\ NoFullAnswer /\ [ModelNext]_modelVars => TypesInv' /\ CopyInv'
  BY TypesStep, CopyStep
<1>3. TypesInv /\ CopyInv => NothingMissing
  BY CompleteRows
<1> QED
  BY <1>1, <1>2, <1>3, PTL DEF ModelSpec

\* With targets that ask for ids only, nothing else is shown either.
THEOREM RowsExact ==
    ASSUME "rollback" \notin Faults, \A q \in Queries : \A f \in Field : q.accepts[f] = Value
    PROVE  ModelSpec /\ []NoFullAnswer => []NothingForeign
<1>1. ModelInit => TypesInv /\ CopyInv
  BY TypesStart, CopyStart
<1>2. TypesInv /\ CopyInv /\ NoFullAnswer /\ [ModelNext]_modelVars => TypesInv' /\ CopyInv'
  BY TypesStep, CopyStep
<1>3. TypesInv /\ CopyInv => NothingForeign
  BY ExactRows DEF PlainQueries
<1> QED
  BY <1>1, <1>2, <1>3, PTL DEF ModelSpec

\* While there are fewer revisions than the LIMIT the copy is complete in every
\* run.
THEOREM RowsCompleteInShortRuns ==
    ASSUME "rollback" \notin Faults, MaxRevision < ChangesLimit
    PROVE  ModelSpec => []NothingMissing
<1>1. ModelInit => TypesInv
  BY TypesStart
<1>2. TypesInv /\ [ModelNext]_modelVars => TypesInv'
  BY TypesStep
<1>3. TypesInv => NoFullAnswer
  BY FewChanges
<1>4. ModelSpec => []NoFullAnswer
  BY <1>1, <1>2, <1>3, PTL DEF ModelSpec
<1> QED
  BY <1>4, RowsComplete, PTL
=============================================================================
