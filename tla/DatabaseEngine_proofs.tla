----------------------- MODULE DatabaseEngine_proofs -----------------------
(***************************************************************************)
(* Proofs about DatabaseEngine, for every set of tables, fields and values *)
(* and every bound: its variables keep their types, its change table tells *)
(* what became of every record, and both of its histories - the rows and   *)
(* the change table - only ever move forward.                              *)
(***************************************************************************)
EXTENDS DatabaseEngine, WellFoundedInduction, TLAPS

-----------------------------------------------------------------------------
(* The newest revision of a set of changes. *)

\* A non-empty set of naturals below a bound has a largest element.  The
\* naturals are well founded by <, so the distances to the bound have a least.
LEMMA BoundedSetHasMax ==
    ASSUME NEW N \in Nat, NEW S, S \subseteq 0..N, S # {}
    PROVE  \E x \in S : \A y \in S : x >= y
<1> DEFINE T == {N - x : x \in S}
<1>1. T \subseteq Nat /\ T # {}
  <2>1. T \subseteq Nat
    OBVIOUS
  <2>2. PICK x \in S : TRUE
    OBVIOUS
  <2>3. N - x \in T
    OBVIOUS
  <2> QED
    BY <2>1, <2>3
<1>2. PICK t \in T : \A u \in T : ~(<<u, t>> \in OpToRel(<, Nat))
  BY <1>1, NatLessThanWellFounded, WFMin
<1>3. PICK x \in S : t = N - x
  OBVIOUS
<1>4. ASSUME NEW y \in S PROVE x >= y
  <2>1. N - y \in T /\ N - y \in Nat /\ t \in Nat
    BY <1>1
  <2>2. ~(N - y < t)
    BY <1>2, <2>1 DEF OpToRel
  <2> QED
    BY <1>3, <2>2
<1> QED
  BY <1>4

\* Newest(log) is a bound of the revisions in the log, and it is one of them
\* or 0: what the client asks the server to continue from
\* (DatabaseEngine.cpp:255, the sub-select of _latest_revision_).
LEMMA NewestIsMax ==
    ASSUME NEW log, log \subseteq Change
    PROVE  /\ Newest(log) \in 0..MaxRevision
           /\ \A c \in log : c.revision <= Newest(log)
           /\ Newest(log) = 0 \/ \E c \in log : c.revision = Newest(log)
<1> DEFINE S == {0} \cup {c.revision : c \in log}
<1>1. S \subseteq 0..MaxRevision /\ S # {}
  BY BoundAssumption DEF Change, Revision
<1>2. \E x \in S : \A y \in S : x >= y
  BY <1>1, BoundedSetHasMax, BoundAssumption
<1>3. Newest(log) \in S /\ \A y \in S : Newest(log) >= y
  BY <1>2 DEF Newest, Max
<1>4. \A c \in log : c.revision \in S
  OBVIOUS
<1>5. \A c \in log : c.revision \in Int /\ Newest(log) \in Int
  BY <1>1, <1>3, <1>4
<1>6. \A c \in log : c.revision <= Newest(log)
  BY <1>3, <1>4, <1>5
<1> HIDE DEF S
<1>7. Newest(log) \in 0..MaxRevision
  BY <1>1, <1>3
<1>8. Newest(log) = 0 \/ \E c \in log : c.revision = Newest(log)
  BY <1>3 DEF S
<1> QED
  BY <1>6, <1>7, <1>8

-----------------------------------------------------------------------------
(* Types. *)

\* Every value a record may be updated with leaves a full record.
LEMMA MergedType ==
    ASSUME TypeOK, NEW k \in Key, NEW values \in Partial
    PROVE  Merged(k, values) \in [Field -> Value] /\ DOMAIN values \subseteq Field
<1>1. PICK F \in (SUBSET Field) \ {{}} : values \in [F -> Value]
  BY DEF Partial
<1>2. row[k].values \in [Field -> Value]
  BY DEF TypeOK, Row
<1> QED
  BY <1>1, <1>2 DEF Merged

\* One more change, well typed.
LEMMA InsertChangeType ==
    ASSUME TypeOK, NEW type \in ChangeType, NEW k \in Key, NEW F \in SUBSET Field,
           InsertChange(type, k, F)
    PROVE  change' \subseteq Change /\ lastRevision' \in 0..MaxRevision
<1>1. lastRevision + 1 \in Revision
  BY BoundAssumption DEF TypeOK, InsertChange, Revision
<1>2. [revision |-> lastRevision + 1, type |-> type, key |-> k, fields |-> F]
         \in Change
  BY <1>1 DEF Change
<1> QED
  BY <1>1, <1>2 DEF TypeOK, InsertChange, Revision

\* The type invariant is inductive.  The bounds in the guards are what keeps
\* the counters within their ranges.
LEMMA TypeStep == TypeOK /\ [Next]_vars => TypeOK'
<1> SUFFICES ASSUME TypeOK, [Next]_vars PROVE TypeOK'
  OBVIOUS
<1>1. ASSUME NEW t \in Table, NEW values \in [Field -> Value], Create(t, values)
      PROVE  TypeOK'
  <2>1. NewKey(t) \in Key /\ lastId' \in [Table -> 0..MaxId]
    BY <1>1, BoundAssumption DEF Create, TypeOK, NewKey, Key, Id
  <2>2. row' \in [Key -> Row]
    BY <1>1, <2>1 DEF Create, TypeOK, Row
  <2>3. change' \subseteq Change /\ lastRevision' \in 0..MaxRevision
    BY <1>1, <2>1, InsertChangeType DEF Create, ChangeType
  <2> QED
    BY <1>1, <2>1, <2>2, <2>3 DEF Create, TypeOK
<1>2. ASSUME NEW k \in Key, NEW values \in Partial, Update(k, values)
      PROVE  TypeOK'
  <2>1. row' \in [Key -> Row]
    BY <1>2, MergedType DEF Update, TypeOK, Row
  <2>2. change' \subseteq Change /\ lastRevision' \in 0..MaxRevision
    BY <1>2, MergedType, InsertChangeType DEF Update, ChangeType
  <2> QED
    BY <1>2, <2>1, <2>2 DEF Update, TypeOK
<1>3. ASSUME NEW k \in Key, Delete(k) PROVE TypeOK'
  <2>1. row' \in [Key -> Row]
    BY <1>3 DEF Delete, TypeOK, Row
  <2>2. change' \subseteq Change /\ lastRevision' \in 0..MaxRevision
    BY <1>3, InsertChangeType DEF Delete, ChangeType
  <2> QED
    BY <1>3, <2>1, <2>2 DEF Delete, TypeOK
<1>4. CASE Stop
  BY <1>4 DEF Stop, TypeOK
<1>5. CASE PurgeClients
  <2>1. Absent \in Row
    BY ValueAssumption DEF Absent, Row
  <2>2. row' \in [Key -> Row]
    BY <1>5, <2>1 DEF PurgeClients, TypeOK
  <2>3. lastId' \in [Table -> 0..MaxId]
    <3>1. CASE AutoIncrement
      BY <1>5, <3>1 DEF PurgeClients, TypeOK
    <3>2. CASE ~AutoIncrement
      <4>1. lastId' = [lastId EXCEPT ![ClientTable] = 0] /\ 0 \in 0..MaxId
        BY <1>5, <3>2, BoundAssumption DEF PurgeClients
      <4> QED
        BY <4>1 DEF TypeOK
    <3> QED
      BY <3>1, <3>2
  <2> QED
    BY <1>5, <2>2, <2>3 DEF PurgeClients, TypeOK
<1>6. CASE PurgeClientChanges
  <2>1. change' \subseteq Change
    BY <1>6 DEF PurgeClientChanges, TypeOK
  <2>2. lastRevision' \in 0..MaxRevision
    BY <1>6, <2>1, NewestIsMax DEF PurgeClientChanges, TypeOK
  <2> QED
    BY <1>6, <2>1, <2>2 DEF PurgeClientChanges, TypeOK
<1>7. CASE UNCHANGED vars
  BY <1>7 DEF vars, TypeOK
<1> QED
  BY <1>1, <1>2, <1>3, <1>4, <1>5, <1>6, <1>7 DEF Next

LEMMA TypeInit == Init => TypeOK
<1> SUFFICES ASSUME Init PROVE TypeOK
  OBVIOUS
<1>1. row \in [Key -> Row]
  BY ValueAssumption DEF Init, Row, Absent
<1>2. lastId \in [Table -> 0..MaxId]
  BY BoundAssumption DEF Init
<1> QED
  BY <1>1, <1>2, BoundAssumption DEF Init, TypeOK

\* Every row, change, counter and phase the engine reaches is of its type.
THEOREM TypeCorrect == Spec => []TypeOK
  BY TypeInit, TypeStep, PTL DEF Spec

-----------------------------------------------------------------------------
(* What the change table tells. *)

\* The counters are ahead of what they count: an INSERT never meets a row, nor
\* a revision, that is already there.
CountersAhead ==
    /\ \A k \in Key : row[k].status # "absent" => k[2] <= lastId[k[1]]
    /\ \A c \in change : c.revision <= lastRevision

\* Half-way through the constructor the client records are gone, whatever the
\* change table still says of them.
PurgedRows == phase = "purging" => \A k \in ClientKey : row[k] = Absent

\* LogTellsRows is not inductive by itself: without CountersAhead a Create could
\* fall on a row that is there and its revision behind those of other changes;
\* without PurgedRows the second DELETE could take away changes of live rows.
IInv == TypeOK /\ CountersAhead /\ PurgedRows /\ LogTellsRows

\* A record whose row and changes an action leaves alone is told as before.
LEMMA ToldUntouched ==
    ASSUME NEW k, Told(k), row'[k].status = row[k].status,
           ChangesOf(k)' = ChangesOf(k)
    PROVE  Told(k)'
BY DEF Told

\* What one more change in the log does to the changes of each record, and to
\* the counter of revisions.
LEMMA ChangesAfterInsert ==
    ASSUME IInv, NEW type, NEW k, NEW F, InsertChange(type, k, F)
    PROVE  \E new \in change' :
             /\ new.type = type /\ new.key = k
             /\ ChangesOf(k)' = ChangesOf(k) \cup {new}
             /\ \A j : j # k => ChangesOf(j)' = ChangesOf(j)
             /\ \A c \in change : c.revision < new.revision
             /\ change' = change \cup {new}
             /\ new.revision = lastRevision'
             /\ \A c \in change' : c.revision <= lastRevision'
<1> DEFINE new == [revision |-> lastRevision + 1, type |-> type, key |-> k,
                   fields |-> F]
<1>1. change' = change \cup {new} /\ lastRevision' = lastRevision + 1
  BY DEF InsertChange
<1>2. /\ lastRevision \in Int
      /\ \A c \in change : c.revision \in Int /\ c.revision <= lastRevision
  BY BoundAssumption DEF IInv, TypeOK, Change, Revision, CountersAhead
<1>3. \A c \in change : c.revision < new.revision
  BY <1>2
<1>4. \A c \in change' : c.revision <= lastRevision'
  BY <1>1, <1>2
<1>5. ChangesOf(k)' = ChangesOf(k) \cup {new}
  BY <1>1 DEF ChangesOf
<1>6. \A j : j # k => ChangesOf(j)' = ChangesOf(j)
  BY <1>1 DEF ChangesOf
<1>7. new \in change' /\ new.type = type /\ new.key = k
      /\ new.revision = lastRevision'
  BY <1>1
<1> HIDE DEF new
<1> QED
  BY <1>1, <1>3, <1>4, <1>5, <1>6, <1>7

\* An INSERT falls on a row that is not there.
LEMMA NewKeyIsAbsent ==
    ASSUME IInv, NEW t \in Table, lastId[t] < MaxId
    PROVE  /\ NewKey(t) \in Key
           /\ row[NewKey(t)].status = "absent"
           /\ NewKey(t)[1] = t /\ NewKey(t)[2] = lastId[t] + 1
<1>1. lastId[t] \in 0..MaxId /\ MaxId \in Nat
  BY BoundAssumption DEF IInv, TypeOK
<1>2. NewKey(t) \in Key /\ NewKey(t)[1] = t /\ NewKey(t)[2] = lastId[t] + 1
  BY <1>1 DEF NewKey, Key, Id
<1> QED
  BY <1>1, <1>2 DEF IInv, CountersAhead

LEMMA CreateStep ==
    ASSUME IInv, TypeOK', NEW t \in Table, NEW values \in [Field -> Value],
           Create(t, values)
    PROVE  IInv'
<1>1. PICK k \in Key : /\ k = NewKey(t)
                       /\ k[1] = t /\ k[2] = lastId[t] + 1
                       /\ row[k].status = "absent"
  BY NewKeyIsAbsent DEF Create
<1>2. InsertChange("Create", k, {}) /\ phase = "up" /\ phase' = "up"
  BY <1>1 DEF Create
<1>3. /\ row'[k].status = "live"
      /\ \A j \in Key : j # k => row'[j] = row[j]
  BY <1>1 DEF Create, IInv, TypeOK
<1>4. PICK new \in change' :
         /\ new.type = "Create" /\ new.key = k
         /\ ChangesOf(k)' = ChangesOf(k) \cup {new}
         /\ \A j : j # k => ChangesOf(j)' = ChangesOf(j)
         /\ \A c \in change : c.revision < new.revision
         /\ change' = change \cup {new}
         /\ new.revision = lastRevision'
         /\ \A c \in change' : c.revision <= lastRevision'
  BY <1>2, ChangesAfterInsert
<1>5. CountersAhead'
  <2>1. lastId' = [lastId EXCEPT ![t] = lastId[t] + 1]
    BY DEF Create
  <2>2. \A u \in Table :
           lastId[u] \in Int /\ lastId'[u] \in Int /\ lastId[u] <= lastId'[u]
    BY <2>1, BoundAssumption DEF IInv, TypeOK
  <2>3. ASSUME NEW j \in Key, row'[j].status # "absent"
        PROVE  j[2] <= lastId'[j[1]]
    <3>1. j[1] \in Table /\ j[2] \in Int
      BY DEF Key, Id
    <3>2. CASE j = k
      BY <1>1, <2>1, <2>2, <3>2 DEF IInv, TypeOK
    <3>3. CASE j # k
      BY <1>3, <2>2, <2>3, <3>1, <3>3 DEF IInv, CountersAhead
    <3> QED
      BY <3>2, <3>3
  <2> QED
    BY <1>4, <2>3 DEF CountersAhead
<1>6. LogTellsRows'
  <2>1. Settled = Key /\ Settled' = Key
    BY <1>2 DEF Settled
  <2>2. Told(k)'
    <3>1. ChangesOf(k) = {}
      BY <1>1, <2>1 DEF IInv, LogTellsRows, Told
    <3>2. ChangesOf(k)' = {new} /\ new.revision \in Int
      BY <1>4, <3>1 DEF TypeOK, Change, Revision
    <3>3. new.revision <= new.revision
      BY <3>2
    <3>4. \A d \in ChangesOf(k)' :
             new.revision <= d.revision /\ (d.type = "Create" <=> d = new)
      BY <1>4, <3>2, <3>3
    <3>5. new \in ChangesOf(k)' /\ \A c \in ChangesOf(k)' : c.type # "Delete"
      BY <1>4, <3>2
    <3> QED
      BY <1>3, <3>4, <3>5 DEF Told
  <2>3. ASSUME NEW j \in Key, j # k PROVE Told(j)'
    <3>1. Told(j)
      BY <2>1 DEF IInv, LogTellsRows
    <3>2. row'[j].status = row[j].status /\ ChangesOf(j)' = ChangesOf(j)
      BY <1>3, <1>4, <2>3
    <3> QED
      BY <3>1, <3>2, ToldUntouched
  <2> QED
    BY <1>1, <2>1, <2>2, <2>3 DEF LogTellsRows
<1>7. PurgedRows'
  BY <1>2 DEF PurgedRows
<1> QED
  BY <1>5, <1>6, <1>7 DEF IInv

\* Update and Delete: a live row stays or is marked, and the log grows by one
\* change of the matching kind.
LEMMA WriteStep ==
    ASSUME IInv, TypeOK', NEW k \in Key, NEW type \in {"Update", "Delete"}, NEW F,
           phase = "up", phase' = "up", lastId' = lastId,
           row[k].status = "live",
           row'[k].status = IF type = "Delete" THEN "deleted" ELSE "live",
           \A j \in Key : j # k => row'[j] = row[j],
           InsertChange(type, k, F)
    PROVE  IInv'
<1>1. PICK new \in change' :
         /\ new.type = type /\ new.key = k
         /\ ChangesOf(k)' = ChangesOf(k) \cup {new}
         /\ \A j : j # k => ChangesOf(j)' = ChangesOf(j)
         /\ \A c \in change : c.revision < new.revision
         /\ \A c \in change' : c.revision <= lastRevision'
  BY ChangesAfterInsert
<1>2. CountersAhead'
  BY <1>1 DEF IInv, CountersAhead
<1>3. LogTellsRows'
  <2>1. Settled = Key /\ Settled' = Key
    BY DEF Settled
  <2>2. Told(k)'
    <3>1. /\ new.revision \in Int
          /\ \A c \in ChangesOf(k) : /\ c.revision \in Int
                                     /\ c.revision < new.revision
                                     /\ c.type # "Delete"
      BY <1>1, <2>1 DEF IInv, LogTellsRows, Told, TypeOK, Change, Revision, ChangesOf
    <3>2. (row'[k].status = "live") => \A c \in ChangesOf(k)' : c.type # "Delete"
      BY <1>1, <3>1
    <3>3. (row'[k].status = "deleted") =>
              \E c \in ChangesOf(k)' :
                  /\ c.type = "Delete"
                  /\ \A d \in ChangesOf(k)' : d.revision <= c.revision
      BY <1>1, <3>1
    <3>4. ASSUME k \notin Seed
          PROVE  \E c \in ChangesOf(k)' : \A d \in ChangesOf(k)' :
                     c.revision <= d.revision /\ (d.type = "Create" <=> d = c)
      <4>1. PICK c \in ChangesOf(k) : \A d \in ChangesOf(k) :
                c.revision <= d.revision /\ (d.type = "Create" <=> d = c)
        <5>1. Told(k) /\ row[k].status # "absent"
          BY <2>1 DEF IInv, LogTellsRows
        <5> QED
          BY <3>4, <5>1 DEF Told
      <4>2. c.revision <= new.revision /\ new.type # "Create" /\ new # c
        BY <1>1, <3>1, <4>1
      <4> QED
        BY <1>1, <4>1, <4>2
    <3> QED
      BY <3>2, <3>3, <3>4 DEF Told
  <2>3. ASSUME NEW j \in Key, j # k PROVE Told(j)'
    BY <1>1, <2>1, <2>3, ToldUntouched DEF IInv, LogTellsRows
  <2> QED
    BY <2>1, <2>2, <2>3 DEF LogTellsRows
<1>4. PurgedRows'
  BY DEF PurgedRows
<1> QED
  BY <1>2, <1>3, <1>4 DEF IInv

LEMMA PurgeClientsStep == IInv /\ TypeOK' /\ PurgeClients => IInv'
<1> SUFFICES ASSUME IInv, TypeOK', PurgeClients PROVE IInv'
  OBVIOUS
<1>1. /\ \A k \in ClientKey : row'[k] = Absent
      /\ \A k \in Key \ ClientKey : row'[k] = row[k]
  BY DEF PurgeClients, ClientKey
<1>2. change' = change /\ lastRevision' = lastRevision /\ phase' = "purging"
  BY DEF PurgeClients
<1>3. \A k \in Key \ ClientKey : lastId'[k[1]] = lastId[k[1]]
  BY DEF PurgeClients, ClientKey, Key, IInv, TypeOK
<1>4. CountersAhead'
  BY <1>1, <1>2, <1>3 DEF IInv, CountersAhead, Absent
<1>5. LogTellsRows'
  <2>1. ASSUME NEW k \in Key \ ClientKey PROVE Told(k)'
    <3>1. Told(k)
      BY DEF IInv, LogTellsRows, Settled
    <3>2. ChangesOf(k)' = ChangesOf(k)
      BY <1>2 DEF ChangesOf
    <3> QED
      BY <1>1, <3>1, <3>2, ToldUntouched
  <2>2. Settled' = Key \ ClientKey
    BY <1>2 DEF Settled
  <2> QED
    BY <2>1, <2>2 DEF LogTellsRows
<1>6. PurgedRows'
  BY <1>1 DEF PurgedRows
<1> QED
  BY <1>4, <1>5, <1>6 DEF IInv

LEMMA PurgeClientChangesStep == IInv /\ TypeOK' /\ PurgeClientChanges => IInv'
<1> SUFFICES ASSUME IInv, TypeOK', PurgeClientChanges PROVE IInv'
  OBVIOUS
<1>1. /\ row' = row /\ lastId' = lastId /\ phase = "purging" /\ phase' = "up"
      /\ change' = {c \in change : c.key \notin ClientKey}
      /\ lastRevision' = IF AutoIncrement THEN lastRevision ELSE Newest(change')
  BY DEF PurgeClientChanges
<1>2. \A k \in Key \ ClientKey : ChangesOf(k)' = ChangesOf(k)
  BY <1>1 DEF ChangesOf
<1>3. \A k \in ClientKey : ChangesOf(k)' = {}
  BY <1>1 DEF ChangesOf
<1>4. CountersAhead'
  <2>1. \A c \in change' : c.revision <= Newest(change')
    BY NewestIsMax DEF TypeOK
  <2>2. \A c \in change' : c.revision <= lastRevision
    BY <1>1 DEF IInv, CountersAhead
  <2> QED
    BY <1>1, <2>1, <2>2 DEF IInv, CountersAhead
<1>5. LogTellsRows'
  <2>1. ASSUME NEW k \in Key \ ClientKey PROVE Told(k)'
    <3>1. Told(k)
      BY <1>1 DEF IInv, LogTellsRows, Settled
    <3> QED
      BY <1>1, <1>2, <3>1, ToldUntouched
  <2>2. ASSUME NEW k \in ClientKey PROVE Told(k)'
    <3>1. row'[k].status = "absent"
      BY <1>1 DEF IInv, PurgedRows, Absent
    <3> QED
      BY <1>3, <3>1 DEF Told
  <2>3. Settled' = Key
    BY <1>1 DEF Settled
  <2> QED
    BY <2>1, <2>2, <2>3 DEF LogTellsRows
<1>6. PurgedRows'
  BY <1>1 DEF PurgedRows
<1> QED
  BY <1>4, <1>5, <1>6 DEF IInv

\* An action that leaves the engine's tables alone and does not start it.
LEMMA StillStep ==
    ASSUME IInv, TypeOK', UNCHANGED <<row, change, lastId, lastRevision>>,
           phase' = phase \/ phase' = "down"
    PROVE  IInv'
<1>1. CountersAhead' /\ PurgedRows'
  BY DEF IInv, CountersAhead, PurgedRows
<1>2. ASSUME NEW k \in Settled' PROVE Told(k)'
  <2>1. k \in Settled
    BY <1>2 DEF Settled
  <2>2. Told(k)
    BY <2>1 DEF IInv, LogTellsRows
  <2> QED
    BY <2>2, ToldUntouched DEF ChangesOf
<1> QED
  BY <1>1, <1>2 DEF IInv, LogTellsRows

LEMMA IInvStep == IInv /\ [Next]_vars => IInv'
<1> SUFFICES ASSUME IInv, [Next]_vars PROVE IInv'
  OBVIOUS
<1>0. TypeOK'
  BY TypeStep DEF IInv
<1>1. ASSUME NEW t \in Table, NEW values \in [Field -> Value], Create(t, values)
      PROVE  IInv'
  BY <1>0, <1>1, CreateStep
<1>2. ASSUME NEW k \in Key, NEW values \in Partial, Update(k, values)
      PROVE  IInv'
  <2>1. /\ row'[k].status = "live"
        /\ \A j \in Key : j # k => row'[j] = row[j]
    BY <1>2 DEF Update, IInv, TypeOK, Row
  <2> QED
    BY <1>0, <1>2, <2>1, WriteStep DEF Update
<1>3. ASSUME NEW k \in Key, Delete(k) PROVE IInv'
  <2>1. /\ row'[k].status = "deleted"
        /\ \A j \in Key : j # k => row'[j] = row[j]
    BY <1>3 DEF Delete, IInv, TypeOK, Row
  <2> QED
    BY <1>0, <1>3, <2>1, WriteStep DEF Delete
<1>4. CASE Stop
  BY <1>0, <1>4, StillStep DEF Stop
<1>5. CASE PurgeClients
  BY <1>0, <1>5, PurgeClientsStep
<1>6. CASE PurgeClientChanges
  BY <1>0, <1>6, PurgeClientChangesStep
<1>7. CASE UNCHANGED vars
  BY <1>0, <1>7, StillStep DEF vars
<1> QED
  BY <1>1, <1>2, <1>3, <1>4, <1>5, <1>6, <1>7 DEF Next

LEMMA IInvInit == Init => IInv
<1> SUFFICES ASSUME Init PROVE IInv
  OBVIOUS
<1>1. \A k \in Key : row[k].status = IF k \in Seed THEN "live" ELSE "absent"
  BY DEF Init, Absent
<1>2. CountersAhead
  BY <1>1 DEF Init, CountersAhead, Seed, Key
<1>3. LogTellsRows
  BY <1>1 DEF Init, LogTellsRows, Told, ChangesOf, Settled
<1>4. PurgedRows
  BY DEF Init, PurgedRows
<1> QED
  BY <1>2, <1>3, <1>4, TypeInit DEF IInv

LEMMA IInvAlways == Spec => []IInv
  BY IInvInit, IInvStep, PTL DEF Spec

\* The changes a client can ask for agree with the rows, whatever was written,
\* deleted and restarted before (DatabaseEngine.cpp:69-72, 137-247, 304-338).
THEOREM LogTold == Spec => []LogTellsRows
<1>1. IInv => LogTellsRows
  BY DEF IInv
<1> QED
  BY <1>1, IInvAlways, PTL

-----------------------------------------------------------------------------
(* What a step may never do. *)

\* No update and no second delete reaches a record that is marked
\* (DatabaseEngine.cpp:210, 231, 329).
THEOREM TombstonesStay == Spec => TombstonesAreFinal
<1>1. ASSUME IInv, [Next]_vars, NEW k \in Key, row[k].status = "deleted"
      PROVE  row'[k] = row[k] \/ (k \in ClientKey /\ row'[k] = Absent)
  <2>1. ASSUME NEW t \in Table, NEW values \in [Field -> Value], Create(t, values)
        PROVE  row'[k] = row[k]
    <3>1. NewKey(t) # k
      BY <1>1, <2>1, NewKeyIsAbsent DEF Create
    <3> QED
      BY <1>1, <2>1, <3>1 DEF Create, IInv, TypeOK
  <2>2. ASSUME NEW j \in Key, NEW values \in Partial, Update(j, values)
        PROVE  row'[k] = row[k]
    BY <1>1, <2>2 DEF Update, IInv, TypeOK
  <2>3. ASSUME NEW j \in Key, Delete(j) PROVE row'[k] = row[k]
    BY <1>1, <2>3 DEF Delete, IInv, TypeOK
  <2>4. CASE PurgeClients
    BY <1>1, <2>4 DEF PurgeClients
  <2>5. CASE Stop \/ PurgeClientChanges \/ UNCHANGED vars
    BY <2>5 DEF Stop, PurgeClientChanges, vars
  <2> QED
    BY <1>1, <2>1, <2>2, <2>3, <2>4, <2>5 DEF Next
<1>2. IInv /\ [Next]_vars =>
        [\A k \in Key : row[k].status = "deleted" =>
             \/ row'[k] = row[k]
             \/ k \in ClientKey /\ row'[k] = Absent]_vars
  BY <1>1
<1> QED
  BY <1>2, IInvAlways, PTL DEF Spec, TombstonesAreFinal

\* A change gets a revision above all others and goes only with the client list
\* (DatabaseEngine.cpp:69-72, 314-328).
THEOREM LogGrows == Spec => LogGrowsAtTheEnd
<1> DEFINE Grows == /\ \A c \in change \ change' : c.key \in ClientKey /\ phase # "up"
                    /\ \A c \in change' \ change :
                           /\ \A d \in change : d.revision < c.revision
                           /\ change' = change \cup {c}
<1>1. ASSUME IInv, NEW type, NEW k, NEW F, InsertChange(type, k, F)
      PROVE  Grows
  BY <1>1, ChangesAfterInsert
<1>2. ASSUME IInv, [Next]_vars PROVE Grows
  <2>1. ASSUME NEW t \in Table, NEW values \in [Field -> Value], Create(t, values)
        PROVE  Grows
    <3>1. PICK k \in Key : k = NewKey(t)
      BY <1>2, <2>1, NewKeyIsAbsent DEF Create
    <3>2. InsertChange("Create", k, {})
      BY <2>1, <3>1 DEF Create
    <3> QED
      BY <1>1, <1>2, <3>2
  <2>2. ASSUME NEW k \in Key, NEW values \in Partial, Update(k, values)
        PROVE  Grows
    BY <1>1, <1>2, <2>2 DEF Update
  <2>3. ASSUME NEW k \in Key, Delete(k) PROVE Grows
    BY <1>1, <1>2, <2>3 DEF Delete
  <2>4. CASE PurgeClientChanges
    BY <2>4 DEF PurgeClientChanges
  <2>5. CASE Stop \/ PurgeClients \/ UNCHANGED vars
    BY <2>5 DEF Stop, PurgeClients, vars
  <2> QED
    BY <1>2, <2>1, <2>2, <2>3, <2>4, <2>5 DEF Next
<1>3. IInv /\ [Next]_vars => [Grows]_vars
  BY <1>2
<1> QED
  BY <1>3, IInvAlways, PTL DEF Spec, LogGrowsAtTheEnd

-----------------------------------------------------------------------------
(* The engine implements RecordLifecycle. *)

\* The row written with the schema is never physically removed.
SeedKept == \A k \in Seed : row[k].status # "absent"

LEMMA SeedAlways == Spec => []SeedKept
<1>1. Init => SeedKept
  BY DEF Init, SeedKept, Seed
<1>2. ASSUME IInv, SeedKept, [Next]_vars PROVE SeedKept'
  <2>1. Seed \subseteq Key \ ClientKey
    BY TableAssumption DEF Seed, ClientKey
  <2>2. ASSUME NEW t \in Table, NEW values \in [Field -> Value], Create(t, values)
        PROVE  SeedKept'
    <3>1. NewKey(t) \in Key /\ NewKey(t) \notin Seed
      BY <1>2, <2>2, NewKeyIsAbsent DEF Create, SeedKept
    <3> QED
      BY <1>2, <2>1, <2>2, <3>1 DEF Create, SeedKept, IInv, TypeOK
  <2>3. ASSUME NEW k \in Key, NEW values \in Partial, Update(k, values)
        PROVE  SeedKept'
    BY <1>2, <2>1, <2>3 DEF Update, SeedKept, IInv, TypeOK, Row
  <2>4. ASSUME NEW k \in Key, Delete(k) PROVE SeedKept'
    BY <1>2, <2>1, <2>4 DEF Delete, SeedKept, IInv, TypeOK, Row
  <2>5. CASE PurgeClients
    BY <1>2, <2>1, <2>5 DEF PurgeClients, SeedKept
  <2>6. CASE Stop \/ PurgeClientChanges \/ UNCHANGED vars
    BY <1>2, <2>6 DEF Stop, PurgeClientChanges, vars, SeedKept
  <2> QED
    BY <1>2, <2>2, <2>3, <2>4, <2>5, <2>6 DEF Next
<1> QED
  BY <1>1, <1>2, IInvAlways, PTL DEF Spec

\* While the server runs, the life read from the change table is the status of
\* the row.
LifeIsStatus == phase = "up" => \A k \in Key : LifeOf(k) = row[k].status

LEMMA LifeTold == IInv /\ SeedKept => LifeIsStatus
<1> SUFFICES ASSUME IInv, SeedKept, phase = "up", NEW k \in Key
             PROVE  LifeOf(k) = row[k].status
  BY DEF LifeIsStatus
<1>1. Told(k)
  BY DEF IInv, LogTellsRows, Settled
<1>2. row[k].status \in {"absent", "live", "deleted"}
  BY DEF IInv, TypeOK, Row
<1>3. CASE row[k].status = "absent"
  BY <1>1, <1>3 DEF Told, LifeOf, SeedKept
<1>4. CASE row[k].status = "live"
  BY <1>1, <1>4 DEF Told, LifeOf
<1>5. CASE row[k].status = "deleted"
  BY <1>1, <1>5 DEF Told, LifeOf
<1> QED
  BY <1>2, <1>3, <1>4, <1>5

\* A write gives its record, and no other, a version above all versions.
LEMMA VersionsAfterInsert ==
    ASSUME IInv, TypeOK', NEW type, NEW k \in Key, NEW F, InsertChange(type, k, F)
    PROVE  Lifecycle!Bump(k)
<1>1. PICK new \in change' :
         /\ ChangesOf(k)' = ChangesOf(k) \cup {new}
         /\ \A j : j # k => ChangesOf(j)' = ChangesOf(j)
         /\ \A c \in change : c.revision < new.revision
         /\ change' = change \cup {new}
  BY ChangesAfterInsert
<1>2. new.revision \in Int /\ 0 < new.revision
  BY BoundAssumption DEF TypeOK, Change, Revision
<1>3. \A j \in Key : /\ ChangesOf(j) \subseteq change
                    /\ ChangesOf(j)' \subseteq change'
                    /\ ChangesOf(j) \subseteq Change
                    /\ ChangesOf(j)' \subseteq Change
  BY DEF ChangesOf, IInv, TypeOK
<1>4. \A j \in Key : /\ Newest(ChangesOf(j)) \in Int
                    /\ Newest(ChangesOf(j)) < new.revision
  <2> SUFFICES ASSUME NEW j \in Key
               PROVE  /\ Newest(ChangesOf(j)) \in Int
                      /\ Newest(ChangesOf(j)) < new.revision
    OBVIOUS
  <2>1. /\ Newest(ChangesOf(j)) \in 0..MaxRevision
        /\ \/ Newest(ChangesOf(j)) = 0
           \/ \E c \in ChangesOf(j) : c.revision = Newest(ChangesOf(j))
    BY <1>3, NewestIsMax
  <2> QED
    BY <1>1, <1>2, <1>3, <2>1, BoundAssumption
<1>5. Newest(ChangesOf(k)') = new.revision
  <2>1. /\ Newest(ChangesOf(k)') \in 0..MaxRevision
        /\ \A c \in ChangesOf(k)' : c.revision <= Newest(ChangesOf(k)')
        /\ \/ Newest(ChangesOf(k)') = 0
           \/ \E c \in ChangesOf(k)' : c.revision = Newest(ChangesOf(k)')
    BY <1>3, NewestIsMax
  <2>2. \A c \in ChangesOf(k)' : c.revision <= new.revision
    BY <1>1, <1>2, <1>3 DEF IInv, TypeOK, Change, Revision
  <2>3. new.revision <= Newest(ChangesOf(k)')
    BY <1>1, <2>1
  <2>4. Newest(ChangesOf(k)') \in Int /\ Newest(ChangesOf(k)') <= new.revision
    BY <1>2, <2>1, <2>2, BoundAssumption
  <2> QED
    BY <1>2, <2>3, <2>4
<1> DEFINE version == [j \in Key |-> Newest(ChangesOf(j))]
<1>6. version' = [j \in Key |-> Newest(ChangesOf(j)')]
  BY DEF Newest
<1>7. version' = [version EXCEPT ![k] = version'[k]]
  BY <1>1, <1>6
<1>8. \A j \in Key : version[j] < version'[k]
  BY <1>4, <1>5, <1>6
<1> QED
  BY <1>7, <1>8 DEF Lifecycle!Bump

\* A Create, Update or Delete of record k is the step of the lifecycle that
\* takes k from the status of its row to the new one.
LEMMA LifecycleWrite ==
    ASSUME IInv, IInv', LifeIsStatus, LifeIsStatus', phase = "up", phase' = "up",
           NEW type, NEW k \in Key, NEW F, InsertChange(type, k, F),
           \A j \in Key : j # k => row'[j] = row[j]
    PROVE  Lifecycle!Move(k, row[k].status, row'[k].status)
<1> DEFINE life == [j \in Key |-> LifeOf(j)]
<1>1. \A j \in Key : LifeOf(j) = row[j].status /\ LifeOf(j)' = row'[j].status
  BY DEF LifeIsStatus
<1>2. life' = [life EXCEPT ![k] = row'[k].status] /\ life[k] = row[k].status
  BY <1>1
<1>3. Lifecycle!Bump(k)
  BY VersionsAfterInsert DEF IInv
<1> QED
  BY <1>2, <1>3 DEF Lifecycle!Move

\* The wipe of the change table forgets the volatile records.
LEMMA LifecycleForget ==
    ASSUME PurgeClientChanges
    PROVE  Lifecycle!Forget
<1> DEFINE life == [j \in Key |-> LifeOf(j)]
           version == [j \in Key |-> Newest(ChangesOf(j))]
<1>1. /\ \A k \in Key \ ClientKey : ChangesOf(k)' = ChangesOf(k)
      /\ \A k \in ClientKey : ChangesOf(k)' = {}
  BY DEF PurgeClientChanges, ChangesOf
<1>2. \A k \in Key : k \in ClientKey => k \notin Seed
  BY TableAssumption DEF ClientKey, Seed
<1>3. life' = [j \in Key |-> IF j \in ClientKey THEN "absent" ELSE life[j]]
  BY <1>1, <1>2 DEF LifeOf
<1>4. version' = [j \in Key |-> IF j \in ClientKey THEN 0 ELSE version[j]]
  <2>1. Newest({}) = 0
    BY NewestIsMax
  <2>2. version' = [j \in Key |-> Newest(ChangesOf(j)')]
    BY DEF Newest
  <2> QED
    BY <1>1, <2>1, <2>2
<1> QED
  BY <1>3, <1>4 DEF Lifecycle!Forget

\* What a client concludes from the changes alone is a proper life of every
\* record: born once, edited while it lives, dead for good, and each step newer
\* than everything before (DatabaseEngine.cpp:75-135, 304-338).
THEOREM ImplementsLifecycle == Spec => LifecycleSpec
<1> DEFINE life == [j \in Key |-> LifeOf(j)]
           version == [j \in Key |-> Newest(ChangesOf(j))]
<1>1. Init => Lifecycle!Init
  <2> SUFFICES ASSUME Init PROVE Lifecycle!Init
    OBVIOUS
  <2>1. \A k \in Key : ChangesOf(k) = {}
    BY DEF Init, ChangesOf
  <2>2. Newest({}) = 0
    BY NewestIsMax
  <2>3. life = [k \in Key |-> IF k \in Seed THEN "live" ELSE "absent"]
    BY <2>1 DEF LifeOf
  <2>4. version = [k \in Key |-> 0]
    BY <2>1, <2>2
  <2> QED
    BY <2>3, <2>4 DEF Lifecycle!Init
<1>2. ASSUME IInv, IInv', LifeIsStatus, LifeIsStatus', [Next]_vars
      PROVE  [Lifecycle!Next]_(Lifecycle!vars)
  <2>1. ASSUME NEW t \in Table, NEW values \in [Field -> Value], Create(t, values)
        PROVE  Lifecycle!Next
    <3>1. PICK k \in Key : k = NewKey(t) /\ row[k].status = "absent"
      BY <1>2, <2>1, NewKeyIsAbsent DEF Create
    <3>2. /\ InsertChange("Create", k, {}) /\ phase = "up" /\ phase' = "up"
          /\ row'[k].status = "live"
          /\ \A j \in Key : j # k => row'[j] = row[j]
      BY <1>2, <2>1, <3>1 DEF Create, IInv, TypeOK
    <3>3. Lifecycle!Move(k, "absent", "live")
      BY <1>2, <3>1, <3>2, LifecycleWrite
    <3> QED
      BY <3>3 DEF Lifecycle!Next, Lifecycle!Born
  <2>2. ASSUME NEW k \in Key, NEW values \in Partial, Update(k, values)
        PROVE  Lifecycle!Next
    <3>1. /\ InsertChange("Update", k, DOMAIN values)
          /\ phase = "up" /\ phase' = "up"
          /\ row[k].status = "live" /\ row'[k].status = "live"
          /\ \A j \in Key : j # k => row'[j] = row[j]
      BY <1>2, <2>2 DEF Update, IInv, TypeOK, Row
    <3>2. Lifecycle!Move(k, "live", "live")
      BY <1>2, <3>1, LifecycleWrite
    <3> QED
      BY <3>2 DEF Lifecycle!Next, Lifecycle!Edited
  <2>3. ASSUME NEW k \in Key, Delete(k) PROVE Lifecycle!Next
    <3>1. /\ InsertChange("Delete", k, {}) /\ phase = "up" /\ phase' = "up"
          /\ row[k].status = "live" /\ row'[k].status = "deleted"
          /\ \A j \in Key : j # k => row'[j] = row[j]
      BY <1>2, <2>3 DEF Delete, IInv, TypeOK, Row
    <3>2. Lifecycle!Move(k, "live", "deleted")
      BY <1>2, <3>1, LifecycleWrite
    <3> QED
      BY <3>2 DEF Lifecycle!Next, Lifecycle!Dies
  <2>4. CASE PurgeClientChanges
    BY <1>2, <2>4, LifecycleForget DEF Lifecycle!Next
  <2>5. CASE Stop \/ PurgeClients \/ UNCHANGED vars
    <3>1. change' = change
      BY <2>5 DEF Stop, PurgeClients, vars
    <3>2. life' = life /\ version' = version
      BY <3>1 DEF LifeOf, ChangesOf, Newest
    <3> QED
      BY <3>2 DEF Lifecycle!vars
  <2> QED
    BY <1>2, <2>1, <2>2, <2>3, <2>4, <2>5 DEF Next
<1> QED
  BY <1>1, <1>2, IInvAlways, SeedAlways, LifeTold, PTL
     DEF Spec, LifecycleSpec, Lifecycle!Spec
=============================================================================
