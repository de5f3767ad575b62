------------------------ MODULE DatabaseServer_proofs ------------------------
(***************************************************************************)
(* Proofs about DatabaseServer, for any number of connections and clients, *)
(* any commands and queries and every bound.                               *)
(***************************************************************************)
EXTENDS DatabaseServer, DatabaseEngine_proofs, FiniteSetTheorems

-----------------------------------------------------------------------------
(* Types, and that the server is an engine. *)

\* The messages a connection may receive.
Incoming == Message(Nat, 0..MaxRevision)

\* What ServerTypeOK leaves out and its proof needs.
ServerShape ==
    /\ inbox \in [Connection -> Seq(Incoming)]
    /\ nextMsgId \in [Connection -> Nat]
    /\ nextSubscriptionId \in [Connection -> Nat \ {0}]
    /\ subscriptions = [c \in Connection |-> subscriptions[c]]

ServerTypes == ServerTypeOK /\ ServerShape

LEMMA ServerTypesInit == ServerInit => ServerTypes
<1> SUFFICES ASSUME ServerInit PROVE ServerTypes
  OBVIOUS
<1>1. /\ nextSubscriptionId = [c \in Connection |-> 1]
      /\ subscriptions = [c \in Connection |-> <<>>]
      /\ clientRecordId = [c \in Connection |-> 0]
      /\ inbox = [c \in Connection |-> <<>>]
  BY DEF ServerInit, Nothing
<1>2. <<>> \in Seq(Incoming)
  OBVIOUS
<1>3. ServerShape
  BY <1>1, <1>2 DEF ServerInit, ServerShape
<1>4. ServerTypeOK
  BY <1>1, BoundAssumption DEF ServerInit, ServerTypeOK
<1> QED
  BY <1>3, <1>4 DEF ServerTypes

\* The message a connection is handled with.
LEMMA HandledMessage ==
    ASSUME ServerTypes, NEW c \in Connection, Handle(c)
    PROVE  \E m \in Incoming :
               /\ m = Head(inbox[c]) /\ Command(c, m)
               /\ inbox' = [inbox EXCEPT ![c] = Tail(inbox[c])]
               /\ Tail(inbox[c]) \in Seq(Incoming)
<1>1. inbox[c] \in Seq(Incoming) /\ inbox[c] # <<>>
  BY DEF Handle, ServerTypes, ServerShape
<1>2. Head(inbox[c]) \in Incoming /\ Tail(inbox[c]) \in Seq(Incoming)
  BY <1>1
<1> QED
  BY <1>2 DEF Handle

\* What the fields of a message may be.
LEMMA MessageFields ==
    ASSUME NEW m \in Incoming
    PROVE  /\ m.cmd = "create" => /\ m.table \in Table \ {ClientTable}
                                  /\ m.values \in [Field -> Value]
           /\ m.cmd = "update" => m.key \in Key \ ClientKey /\ m.values \in Partial
           /\ m.cmd = "delete" => m.key \in Key \ ClientKey
           /\ m.cmd = "subscribe" => m.query \in Queries /\ m.from \in 0..MaxRevision
BY DEF Incoming, Message

LEMMA SentMessage ==
    ASSUME TypeOK, NEW c \in Connection, nextMsgId[c] \in Nat,
           NEW m \in Message({nextMsgId[c]}, {0, lastRevision})
    PROVE  m \in Incoming
<1>1. {nextMsgId[c]} \subseteq Nat /\ {0, lastRevision} \subseteq 0..MaxRevision
  BY BoundAssumption DEF TypeOK
<1> QED
  BY <1>1 DEF Incoming, Message

\* A create whose record cannot be read back is a create all the same.
LEMMA UnreadCreates ==
    ASSUME NEW c, NEW m, CreateUnread(c, m),
           m.cmd = "create" => m.table \in Table /\ m.values \in [Field -> Value]
    PROVE  /\ \E t \in Table : \E values \in [Field -> Value] :
                  /\ Create(t, values)
                  /\ Send(Broadcast(CreateChange(t, values)), c, Error(m))
           /\ m.cmd = "authenticate" \/ (m.cmd = "create" /\ authenticated[c])
           /\ "db" \in Faults
           /\ authenticated' = [authenticated EXCEPT ![c] = TRUE]
           /\ UNCHANGED <<clientRecordId, subscriptions, nextSubscriptionId, phase>>
<1>1. PICK ch \in WouldAnnounce(c, m) :
          /\ "db" \in Faults /\ ch.type = "Create"
          /\ Create(ch.record.key[1], ch.record.values)
          /\ authenticated' = [authenticated EXCEPT ![c] = TRUE]
          /\ UNCHANGED <<clientRecordId, subscriptions, nextSubscriptionId>>
          /\ Send(Broadcast(ch), c, Error(m))
  BY DEF CreateUnread
<1>2. \A k, values : UpdateChange(k, values).type = "Update"
                     /\ DeleteChange(k).type = "Delete"
  BY DEF UpdateChange, DeleteChange, Announced
<1>3. PICK t \in Table, values \in [Field -> Value] :
          /\ ch = CreateChange(t, values)
          /\ m.cmd = "authenticate" \/ (m.cmd = "create" /\ authenticated[c])
  BY <1>1, <1>2, TableAssumption, ValueAssumption DEF WouldAnnounce
<1>4. ch.record.key[1] = t /\ ch.record.values = values
  BY <1>3 DEF CreateChange, Announced, NewKey
<1>5. UNCHANGED phase
  BY <1>1 DEF Create
<1> QED
  BY <1>1, <1>3, <1>4, <1>5

\* One command is one operation of the engine, or leaves it as it is.
LEMMA CommandIsEngineStep ==
    ASSUME NEW c \in Connection, NEW m, Command(c, m), UNCHANGED phase,
           m.cmd = "create" => m.table \in Table /\ m.values \in [Field -> Value],
           m.cmd = "update" => m.values \in Partial
    PROVE  [Next]_vars
<1> USE DEF engineVars, vars
<1>1. CASE Authenticate(c, m)
  <2>1. Refuse(c, m) \/ Create(ClientTable, Blank)
    BY <1>1 DEF Authenticate
  <2> QED
    BY <2>1, TableAssumption, ValueAssumption DEF Refuse, Next
<1>2. CASE NotAuthorized(c, m) \/ Query(c, m) \/ Subscribe(c, m)
           \/ UnsubscribeQuery(c, m) \/ WriteFails(c, m)
  BY <1>2 DEF NotAuthorized, Refuse, Query, Subscribe, UnsubscribeQuery, WriteFails
<1>3. CASE Unsubscribe(c, m)
  BY <1>3 DEF Unsubscribe, Refuse
<1>4. CASE CreateRecord(c, m)
  BY <1>4 DEF CreateRecord, Next
<1>5. CASE UpdateRecord(c, m)
  BY <1>5 DEF UpdateRecord, Refuse, Live, Next
<1>6. CASE DeleteRecord(c, m)
  BY <1>6 DEF DeleteRecord, Refuse, Live, Next
<1>7. CASE CreateUnread(c, m)
  BY <1>7, UnreadCreates DEF Next
<1> QED
  BY <1>1, <1>2, <1>3, <1>4, <1>5, <1>6, <1>7 DEF Command

LEMMA ServerStepIsEngineStep ==
    ServerTypes /\ [ServerNext]_<<vars, serverVars>> => [Next]_vars
<1> SUFFICES ASSUME ServerTypes, [ServerNext]_<<vars, serverVars>>
             PROVE  [Next]_vars
  OBVIOUS
<1>1. ASSUME NEW c \in Connection, Accept(c) PROVE [Next]_vars
  BY <1>1 DEF Accept, engineVars, vars
<1>2. ASSUME NEW c \in Connection, Handle(c) PROVE [Next]_vars
  <2>1. PICK m \in Incoming : Command(c, m)
    BY <1>2, HandledMessage
  <2> QED
    BY <1>2, <2>1, CommandIsEngineStep, MessageFields DEF Handle
<1>3. ASSUME NEW c \in Connection, Disconnect(c) PROVE [Next]_vars
  <2>1. \/ /\ clientRecordId[c] \in Id
           /\ Delete(<<ClientTable, clientRecordId[c]>>)
        \/ UNCHANGED vars
    BY <1>3 DEF Disconnect, engineVars, vars
  <2> QED
    BY <2>1, TableAssumption DEF Next, Key
<1>4. CASE ServerStop \/ ServerStart
  BY <1>4 DEF ServerStop, ServerStart, Next
<1>5. ASSUME NEW c \in Connection, NEW m, ClientSends(c, m) PROVE [Next]_vars
  BY <1>5 DEF ClientSends, engineVars, vars
<1>6. CASE UNCHANGED <<vars, serverVars>>
  BY <1>6
<1> QED
  BY <1>1, <1>2, <1>3, <1>4, <1>5, <1>6 DEF ServerNext

\* What a command does to its own connection, and only to it.
LEMMA CommandKeepsTypes ==
    ASSUME TypeOK, TypeOK', ServerTypes, NEW c \in Connection, NEW m \in Incoming,
           Command(c, m)
    PROVE  /\ authenticated' \in [Connection -> BOOLEAN]
           /\ clientRecordId' \in [Connection -> 0..MaxId]
           /\ nextSubscriptionId' \in [Connection -> Nat \ {0}]
           /\ subscriptions' = [d \in Connection |-> subscriptions'[d]]
           /\ \A d \in Connection :
                  /\ DOMAIN subscriptions'[d] \subseteq 1..nextSubscriptionId'[d] - 1
                  /\ \A s \in DOMAIN subscriptions'[d] :
                         subscriptions'[d][s] \in ChangeQuery
<1> DEFINE P == /\ authenticated' \in [Connection -> BOOLEAN]
                /\ clientRecordId' \in [Connection -> 0..MaxId]
                /\ nextSubscriptionId' \in [Connection -> Nat \ {0}]
                /\ subscriptions' = [d \in Connection |-> subscriptions'[d]]
                /\ \A d \in Connection :
                       /\ DOMAIN subscriptions'[d] \subseteq 1..nextSubscriptionId'[d] - 1
                       /\ \A s \in DOMAIN subscriptions'[d] :
                              subscriptions'[d][s] \in ChangeQuery
<1> SUFFICES P
  OBVIOUS
<1>1. ASSUME UNCHANGED session PROVE P
  BY <1>1 DEF session, ServerTypes, ServerTypeOK, ServerShape
<1>2. CASE NotAuthorized(c, m) \/ Query(c, m) \/ CreateRecord(c, m)
           \/ UpdateRecord(c, m) \/ DeleteRecord(c, m)
  <2>1. UNCHANGED session
    BY <1>2 DEF NotAuthorized, Query, CreateRecord, UpdateRecord, DeleteRecord, Refuse
  <2> QED
    BY <1>1, <2>1
<1>3. CASE Authenticate(c, m)
  <2>1. CASE Refuse(c, m)
    BY <1>1, <2>1 DEF Refuse
  <2>2. CASE Create(ClientTable, Blank)
             /\ authenticated' = [authenticated EXCEPT ![c] = TRUE]
             /\ clientRecordId' = [clientRecordId EXCEPT ![c] = NewKey(ClientTable)[2]]
             /\ UNCHANGED <<subscriptions, nextSubscriptionId>>
    <3>1. NewKey(ClientTable)[2] \in 0..MaxId
      BY <2>2, TableAssumption, BoundAssumption DEF Create, NewKey, TypeOK
    <3> QED
      BY <2>2, <3>1 DEF ServerTypes, ServerTypeOK, ServerShape
  <2> QED
    BY <1>3, <2>1, <2>2 DEF Authenticate
<1>4. CASE Subscribe(c, m)
  <2> DEFINE id == nextSubscriptionId[c]
             q == [query |-> m.query, from |-> m.from]
  <2>1. /\ subscriptions' = [subscriptions EXCEPT ![c] = With(subscriptions[c], id, q)]
        /\ nextSubscriptionId' = [nextSubscriptionId EXCEPT ![c] = id + 1]
        /\ UNCHANGED <<authenticated, clientRecordId>>
    BY <1>4 DEF Subscribe
  <2>2. q \in ChangeQuery
    BY <1>4, MessageFields, QueriesAssumption DEF Subscribe, ChangeQuery
  <2>3. id \in Nat \ {0}
    BY DEF ServerTypes, ServerShape
  <2>4. /\ subscriptions'[c] = With(subscriptions[c], id, q)
        /\ nextSubscriptionId'[c] = id + 1
        /\ \A d \in Connection \ {c} :
               /\ subscriptions'[d] = subscriptions[d]
               /\ nextSubscriptionId'[d] = nextSubscriptionId[d]
    BY <2>1 DEF ServerTypes, ServerShape
  <2>5. /\ DOMAIN With(subscriptions[c], id, q) \subseteq 1..id
        /\ \A s \in DOMAIN With(subscriptions[c], id, q) :
               With(subscriptions[c], id, q)[s] \in ChangeQuery
    <3>1. DOMAIN subscriptions[c] \subseteq 1..id - 1
      BY DEF ServerTypes, ServerTypeOK
    <3>2. \A s \in DOMAIN subscriptions[c] : subscriptions[c][s] \in ChangeQuery
      BY DEF ServerTypes, ServerTypeOK
    <3> HIDE DEF q, id
    <3> QED
      BY <2>2, <2>3, <3>1, <3>2 DEF With
  <2> HIDE DEF q
  <2>6. \A d \in Connection :
            /\ DOMAIN subscriptions'[d] \subseteq 1..nextSubscriptionId'[d] - 1
            /\ \A s \in DOMAIN subscriptions'[d] : subscriptions'[d][s] \in ChangeQuery
    <3> SUFFICES ASSUME NEW d \in Connection
                 PROVE  /\ DOMAIN subscriptions'[d] \subseteq 1..nextSubscriptionId'[d] - 1
                        /\ \A s \in DOMAIN subscriptions'[d] :
                               subscriptions'[d][s] \in ChangeQuery
      OBVIOUS
    <3>1. CASE d = c
      BY <2>3, <2>4, <2>5, <3>1
    <3>2. CASE d # c
      BY <2>4, <3>2 DEF ServerTypes, ServerTypeOK
    <3> QED
      BY <3>1, <3>2
  <2>7. /\ authenticated' \in [Connection -> BOOLEAN]
        /\ clientRecordId' \in [Connection -> 0..MaxId]
    BY <2>1 DEF ServerTypes, ServerTypeOK
  <2>8. nextSubscriptionId' \in [Connection -> Nat \ {0}]
    BY <2>1, <2>3 DEF ServerTypes, ServerShape
  <2> HIDE DEF id
  <2>9. subscriptions' = [d \in Connection |-> subscriptions'[d]]
    BY <2>1 DEF ServerTypes, ServerShape
  <2> QED
    BY <2>6, <2>7, <2>8, <2>9
<1>5. CASE Unsubscribe(c, m) \/ UnsubscribeQuery(c, m)
  <2>1. CASE Refuse(c, m)
    BY <1>1, <2>1 DEF Refuse
  <2>2. ASSUME NEW ids,
               subscriptions' = [subscriptions EXCEPT ![c] =
                   Restrict(subscriptions[c], DOMAIN subscriptions[c] \ ids)],
               UNCHANGED <<authenticated, clientRecordId, nextSubscriptionId>>
        PROVE  P
    <3>1. /\ subscriptions'[c] = Restrict(subscriptions[c], DOMAIN subscriptions[c] \ ids)
          /\ \A d \in Connection \ {c} : subscriptions'[d] = subscriptions[d]
          /\ subscriptions' = [d \in Connection |-> subscriptions'[d]]
      BY <2>2 DEF ServerTypes, ServerShape
    <3>2. /\ DOMAIN subscriptions'[c] \subseteq DOMAIN subscriptions[c]
          /\ \A s \in DOMAIN subscriptions'[c] :
                 subscriptions'[c][s] = subscriptions[c][s]
      BY <3>1 DEF Restrict
    <3>3. \A d \in Connection :
              /\ DOMAIN subscriptions'[d] \subseteq DOMAIN subscriptions[d]
              /\ \A s \in DOMAIN subscriptions'[d] :
                     subscriptions'[d][s] = subscriptions[d][s]
      BY <3>1, <3>2
    <3>4. \A d \in Connection :
              /\ DOMAIN subscriptions[d] \subseteq 1..nextSubscriptionId'[d] - 1
              /\ \A s \in DOMAIN subscriptions[d] : subscriptions[d][s] \in ChangeQuery
      BY <2>2 DEF ServerTypes, ServerTypeOK
    <3> QED
      BY <2>2, <3>1, <3>3, <3>4 DEF ServerTypes, ServerTypeOK, ServerShape
  <2>3. CASE Unsubscribe(c, m) /\ ~Refuse(c, m)
    <3>1. /\ subscriptions' = [subscriptions EXCEPT ![c] = Restrict(subscriptions[c],
                                 DOMAIN subscriptions[c] \ {m.subscription})]
          /\ UNCHANGED <<authenticated, clientRecordId, nextSubscriptionId>>
      BY <2>3 DEF Unsubscribe
    <3> HIDE DEF P
    <3> QED
      BY <2>2, <3>1
  <2>4. CASE UnsubscribeQuery(c, m)
    <3>1. PICK ids :
              /\ subscriptions' = [subscriptions EXCEPT ![c] = Restrict(subscriptions[c],
                                     DOMAIN subscriptions[c] \ ids)]
              /\ UNCHANGED <<authenticated, clientRecordId, nextSubscriptionId>>
      BY <2>4 DEF UnsubscribeQuery
    <3> HIDE DEF P
    <3> QED
      BY <2>2, <3>1
  <2> QED
    BY <1>5, <2>1, <2>3, <2>4
<1>6. CASE WriteFails(c, m)
  BY <1>6 DEF WriteFails, ServerTypes, ServerTypeOK, ServerShape
<1>7. CASE CreateUnread(c, m)
  <2>1. /\ authenticated' = [authenticated EXCEPT ![c] = TRUE]
        /\ UNCHANGED <<clientRecordId, subscriptions, nextSubscriptionId>>
    BY <1>7 DEF CreateUnread
  <2> QED
    BY <2>1 DEF ServerTypes, ServerTypeOK, ServerShape
<1> QED
  BY <1>2, <1>3, <1>4, <1>5, <1>6, <1>7 DEF Command

\* A connection that is gone leaves nothing.
LEMMA ForgottenKeepsTypes ==
    ASSUME ServerTypes, NEW C, Forgotten(C)
    PROVE  ServerTypes'
<1>1. <<>> \in Seq(Incoming)
  OBVIOUS
<1>2. ServerShape'
  BY <1>1 DEF Forgotten, ServerTypes, ServerShape
<1>3. ServerTypeOK'
  BY BoundAssumption DEF Forgotten, ServerTypes, ServerTypeOK, ServerShape
<1> QED
  BY <1>2, <1>3 DEF ServerTypes

LEMMA ServerTypesStep ==
    TypeOK /\ TypeOK' /\ ServerTypes /\ [ServerNext]_<<vars, serverVars>>
        => ServerTypes'
<1> SUFFICES ASSUME TypeOK, TypeOK', ServerTypes, [ServerNext]_<<vars, serverVars>>
             PROVE  ServerTypes'
  OBVIOUS
<1>1. ASSUME NEW c \in Connection, Accept(c) PROVE ServerTypes'
  BY <1>1 DEF Accept, Accepted, ServerTypes, ServerTypeOK, ServerShape
<1>2. ASSUME NEW c \in Connection, Handle(c) PROVE ServerTypes'
  <2>1. PICK m \in Incoming :
            /\ Command(c, m)
            /\ inbox' = [inbox EXCEPT ![c] = Tail(inbox[c])]
            /\ Tail(inbox[c]) \in Seq(Incoming)
    BY <1>2, HandledMessage
  <2>2. ServerTypeOK'
    BY <1>2, <2>1, CommandKeepsTypes DEF Handle, ServerTypes, ServerTypeOK
  <2>3. ServerShape'
    BY <1>2, <2>1, CommandKeepsTypes DEF Handle, ServerTypes, ServerShape
  <2> QED
    BY <2>2, <2>3 DEF ServerTypes
<1>3. ASSUME NEW c \in Connection, Disconnect(c) PROVE ServerTypes'
  BY <1>3, ForgottenKeepsTypes DEF Disconnect
<1>4. CASE ServerStop
  BY <1>4, ForgottenKeepsTypes DEF ServerStop
<1>5. CASE ServerStart
  BY <1>5 DEF ServerStart, serverVars, session, ServerTypes, ServerTypeOK, ServerShape
<1>6. ASSUME NEW c \in Connection,
             NEW m \in Message({nextMsgId[c]}, {0, lastRevision}), ClientSends(c, m)
      PROVE  ServerTypes'
  <2>1. m \in Incoming
    BY SentMessage DEF ServerTypes, ServerShape
  <2>2. Append(inbox[c], m) \in Seq(Incoming)
    BY <2>1 DEF ServerTypes, ServerShape
  <2> QED
    BY <1>6, <2>2 DEF ClientSends, session, ServerTypes, ServerTypeOK, ServerShape
<1>7. CASE UNCHANGED <<vars, serverVars>>
  BY <1>7 DEF serverVars, session, ServerTypes, ServerTypeOK, ServerShape
<1> QED
  BY <1>1, <1>2, <1>3, <1>4, <1>5, <1>6, <1>7 DEF ServerNext

LEMMA ServerTypesHold == ServerSpec => [](TypeOK /\ ServerTypes)
<1>1. ServerInit => TypeOK /\ ServerTypes
  BY ServerTypesInit, TypeInit DEF ServerInit
<1>2. TypeOK /\ ServerTypes /\ [ServerNext]_<<vars, serverVars>>
          => (TypeOK /\ ServerTypes)'
  BY ServerStepIsEngineStep, ServerTypesStep, TypeStep
<1> QED
  BY <1>1, <1>2, PTL DEF ServerSpec

\* Subscriptions have ids of their connection's past and listen to queries,
\* whatever clients send and whatever fails (DatabaseServer.cpp:169-199).
THEOREM ServerTypeCorrect == ServerSpec => []ServerTypeOK
<1>1. ServerTypes => ServerTypeOK
  BY DEF ServerTypes
<1> QED
  BY <1>1, ServerTypesHold, PTL

\* Behind any number of connections, with writes, pushes and commits that fail, the
\* engine is still the one of DatabaseEngine: its theorems hold of the server.
THEOREM ServerImplementsEngine == ServerSpec => Spec
<1>1. ServerInit => Init
  BY DEF ServerInit
<1> QED
  BY <1>1, ServerStepIsEngineStep, ServerTypesHold, PTL DEF ServerSpec, Spec

-----------------------------------------------------------------------------
(* The client list, as long as nothing fails.                                *)

NoFaults == Faults \cap {"db", "rollback"} = {}

\* A client authenticates first and once: an authentication that is still to
\* be handled is the first message of a connection that is not authenticated.
FirstAndOnce ==
    \A c \in Connection :
        /\ nextMsgId[c] = 0 => inbox[c] = <<>> /\ ~authenticated[c]
        /\ \A i \in DOMAIN inbox[c] :
               inbox[c][i].cmd = "authenticate" => i = 1 /\ ~authenticated[c]

\* Only open connections of a running server are authenticated.
OnlyOpen ==
    \A c \in Connection :
        /\ authenticated[c] => link[c] = "open"
        /\ link[c] = "open" => phase = "up"

\* Each authenticated connection has an id of its own.
OwnIds ==
    \A c \in Connection :
        authenticated[c] =>
            /\ change # {}
            /\ clientRecordId[c] \in 1..lastId[ClientTable]
            /\ \A d \in Connection \ {c} :
                   authenticated[d] => clientRecordId[d] # clientRecordId[c]

\* And each live client record is that of an authenticated connection.
Owned ==
    phase = "up" =>
        \A k \in ClientKey : row[k].status = "live" =>
            \E c \in Connection : authenticated[c] /\ clientRecordId[c] = k[2]

ClientList == FirstAndOnce /\ OnlyOpen /\ OwnIds /\ Owned

\* Whatever is neither an authentication nor an end of the server leaves the
\* client list alone.
SameClients ==
    /\ UNCHANGED <<authenticated, clientRecordId>>
    /\ \A k \in ClientKey : row'[k] = row[k]
    /\ lastId'[ClientTable] = lastId[ClientTable]
    /\ change \subseteq change'

Enrols(c) ==
    /\ Create(ClientTable, Blank)
    /\ authenticated' = [authenticated EXCEPT ![c] = TRUE]
    /\ clientRecordId' = [clientRecordId EXCEPT ![c] = NewKey(ClientTable)[2]]

LEMMA CommandAndClients ==
    ASSUME NoFaults, TypeOK, ServerTypes, NEW c \in Connection, NEW m \in Incoming,
           Command(c, m)
    PROVE  SameClients \/ (m.cmd = "authenticate" /\ Enrols(c))
<1>1. CASE UNCHANGED <<engineVars, authenticated, clientRecordId>>
  BY <1>1 DEF engineVars, SameClients
<1>2. CASE Authenticate(c, m)
  <2>1. Refuse(c, m) => UNCHANGED <<engineVars, authenticated, clientRecordId>>
    BY DEF Refuse, session
  <2> QED
    BY <1>1, <1>2, <2>1 DEF Authenticate, Enrols
<1>3. CASE NotAuthorized(c, m) \/ Query(c, m) \/ Subscribe(c, m)
           \/ Unsubscribe(c, m) \/ UnsubscribeQuery(c, m)
  <2>1. UNCHANGED <<engineVars, authenticated, clientRecordId>>
    BY <1>3 DEF NotAuthorized, Refuse, Query, Subscribe, Unsubscribe,
                UnsubscribeQuery, session
  <2> QED
    BY <1>1, <2>1
<1>4. CASE CreateRecord(c, m)
  <2>1. m.table \in Table \ {ClientTable} /\ Create(m.table, m.values)
    BY <1>4, MessageFields DEF CreateRecord
  <2>2. \A k \in ClientKey : row'[k] = row[k]
    BY <2>1 DEF Create, NewKey, ClientKey, TypeOK
  <2>3. lastId'[ClientTable] = lastId[ClientTable] /\ change \subseteq change'
    BY <2>1, TableAssumption DEF Create, InsertChange, TypeOK
  <2> QED
    BY <1>4, <2>2, <2>3 DEF CreateRecord, session, SameClients
<1>5. CASE UpdateRecord(c, m) \/ DeleteRecord(c, m)
  <2>1. CASE Refuse(c, m)
    BY <1>1, <2>1 DEF Refuse, session
  <2>2. ASSUME NEW k \in Key \ ClientKey, UNCHANGED session,
               (\E values \in Partial : Update(k, values)) \/ Delete(k)
        PROVE  SameClients
    <3>1. \A j \in ClientKey : row'[j] = row[j]
      BY <2>2 DEF Update, Delete, ClientKey, TypeOK
    <3>2. UNCHANGED lastId /\ change \subseteq change'
      BY <2>2 DEF Update, Delete, InsertChange
    <3> QED
      BY <2>2, <3>1, <3>2 DEF session, SameClients
  <2> QED
    BY <1>5, <2>1, <2>2, MessageFields DEF UpdateRecord, DeleteRecord
<1>6. ~WriteFails(c, m) /\ ~CreateUnread(c, m)
  BY DEF WriteFails, CreateUnread, NoFaults
<1> QED
  BY <1>2, <1>3, <1>4, <1>5, <1>6 DEF Command

\* A step that leaves the clients alone keeps the client list.
LEMMA SameClientsStep ==
    ASSUME SameClients, UNCHANGED phase
    PROVE  (OwnIds => OwnIds') /\ (Owned => Owned')
<1>1. OwnIds => OwnIds'
  BY DEF SameClients, OwnIds
<1>2. Owned => Owned'
  BY DEF SameClients, Owned
<1> QED
  BY <1>1, <1>2

LEMMA EnrolStep ==
    ASSUME TypeOK, ServerTypes, ClientList, NEW c \in Connection,
           ~authenticated[c], Enrols(c)
    PROVE  OwnIds' /\ Owned'
<1> DEFINE new == lastId[ClientTable] + 1
<1>1. new \in Nat \ {0} /\ new - 1 = lastId[ClientTable] /\ lastId'[ClientTable] = new
  BY TableAssumption, BoundAssumption DEF Enrols, Create, TypeOK
<1>2. change' # {} /\ phase = "up" /\ phase' = "up"
  BY DEF Enrols, Create, InsertChange
<1>3. \A k \in ClientKey : k[2] # new => row'[k] = row[k]
  BY DEF Enrols, Create, NewKey, TypeOK, ClientKey
<1>4. \A d \in Connection :
          /\ authenticated'[d] <=> d = c \/ authenticated[d]
          /\ clientRecordId'[d] = IF d = c THEN new ELSE clientRecordId[d]
  BY DEF Enrols, NewKey, ServerTypes, ServerTypeOK
<1>5. \A d \in Connection :
          authenticated[d] => clientRecordId[d] \in 1..new - 1
  BY <1>1 DEF ClientList, OwnIds
<1> HIDE DEF new
<1>6. OwnIds'
  <2> SUFFICES ASSUME NEW d \in Connection, authenticated'[d]
               PROVE  /\ clientRecordId'[d] \in 1..new
                      /\ \A e \in Connection \ {d} :
                             authenticated'[e] => clientRecordId'[e] # clientRecordId'[d]
    BY <1>1, <1>2 DEF OwnIds
  <2>1. CASE d = c
    BY <1>1, <1>4, <1>5, <2>1
  <2>2. CASE d # c
    <3>1. authenticated[d] /\ clientRecordId'[d] = clientRecordId[d]
      BY <1>4, <2>2
    <3>2. \A e \in Connection \ {d} :
              authenticated[e] => clientRecordId[e] # clientRecordId[d]
      BY <3>1 DEF ClientList, OwnIds
    <3> QED
      BY <1>1, <1>4, <1>5, <3>1, <3>2
  <2> QED
    BY <2>1, <2>2
<1>7. Owned'
  BY <1>2, <1>3, <1>4 DEF ClientList, Owned
<1> QED
  BY <1>6, <1>7

LEMMA HandleKeepsClients ==
    ASSUME NoFaults, TypeOK, ServerTypes, ClientList, NEW c \in Connection, Handle(c)
    PROVE  ClientList'
<1>1. PICK m \in Incoming :
          /\ m = Head(inbox[c]) /\ Command(c, m)
          /\ inbox' = [inbox EXCEPT ![c] = Tail(inbox[c])]
  BY HandledMessage
<1>2. /\ inbox[c] \in Seq(Incoming) /\ inbox[c] # <<>> /\ link[c] = "open"
      /\ UNCHANGED <<phase, link, nextMsgId>>
  BY DEF Handle, ServerTypes, ServerShape
<1>3. m.cmd = "authenticate" => ~authenticated[c]
  BY <1>1, <1>2 DEF ClientList, FirstAndOnce
<1>4. \/ SameClients
      \/ Enrols(c) /\ ~authenticated[c]
  BY <1>1, <1>3, CommandAndClients
<1>5. OwnIds' /\ Owned'
  BY <1>2, <1>4, SameClientsStep, EnrolStep DEF ClientList
<1>6. \A d \in Connection : authenticated'[d] <=> authenticated[d] \/ (d = c /\ Enrols(c))
  BY <1>4 DEF SameClients, Enrols, ServerTypes, ServerTypeOK
<1>7. OnlyOpen'
  BY <1>2, <1>6 DEF ClientList, OnlyOpen
<1>8. \A d \in Connection :
          /\ d # c => inbox'[d] = inbox[d] /\ (authenticated'[d] <=> authenticated[d])
          /\ nextMsgId'[d] = nextMsgId[d]
  BY <1>1, <1>2, <1>6 DEF ServerTypes, ServerShape
<1>9. /\ nextMsgId[c] # 0
      /\ \A i \in DOMAIN inbox'[c] : inbox'[c][i].cmd # "authenticate"
  <2>1. nextMsgId[c] # 0
    BY <1>2 DEF ClientList, FirstAndOnce
  <2>2. inbox'[c] = Tail(inbox[c])
    BY <1>1 DEF ServerTypes, ServerShape
  <2>3. \A i \in DOMAIN Tail(inbox[c]) :
            /\ i + 1 \in DOMAIN inbox[c] /\ i + 1 # 1
            /\ Tail(inbox[c])[i] = inbox[c][i + 1]
    BY <1>2
  <2> QED
    BY <2>1, <2>2, <2>3 DEF ClientList, FirstAndOnce
<1>10. FirstAndOnce'
  BY <1>8, <1>9 DEF ClientList, FirstAndOnce
<1> QED
  BY <1>5, <1>7, <1>10 DEF ClientList

LEMMA GoneKeepsClients ==
    ASSUME ServerTypes, ClientList, NEW C \in SUBSET Connection, Forgotten(C),
           change \subseteq change' \/ C = {d \in Connection : link[d] = "open"},
           lastId'[ClientTable] = lastId[ClientTable],
           phase' = phase \/ C = {d \in Connection : link[d] = "open"},
           Owned'
    PROVE  ClientList'
<1>1. \A d \in Connection :
          /\ authenticated'[d] <=> authenticated[d] /\ d \notin C
          /\ d \notin C => /\ clientRecordId'[d] = clientRecordId[d]
                           /\ inbox'[d] = inbox[d]
                           /\ nextMsgId'[d] = nextMsgId[d]
                           /\ link'[d] = link[d]
          /\ d \in C => inbox'[d] = <<>> /\ link'[d] = "closed"
  BY DEF Forgotten
<1>2. FirstAndOnce'
  BY <1>1 DEF ClientList, FirstAndOnce
<1>3. OnlyOpen'
  BY <1>1 DEF ClientList, OnlyOpen
<1>4. OwnIds'
  BY <1>1 DEF ClientList, OwnIds, OnlyOpen
<1> QED
  BY <1>2, <1>3, <1>4 DEF ClientList

LEMMA DisconnectKeepsClients ==
    ASSUME NoFaults, TypeOK, ServerTypes, ClientList, NEW c \in Connection,
           Disconnect(c)
    PROVE  ClientList'
<1> DEFINE k == <<ClientTable, clientRecordId[c]>>
           listed == clientRecordId[c] \in Id /\ row[k].status = "live"
<1>1. Forgotten({c}) /\ phase = "up"
  BY DEF Disconnect
<1>2. \/ listed /\ Delete(k)
      \/ ~listed /\ UNCHANGED <<row, change, lastId, phase>>
  BY DEF Disconnect, NoFaults, engineVars
<1>3. /\ change \subseteq change' /\ lastId' = lastId /\ phase' = phase
      /\ \A j \in ClientKey : row'[j].status = "live" =>
             row[j].status = "live" /\ j[2] # clientRecordId[c]
  <2>1. CASE listed /\ Delete(k)
    BY <2>1 DEF Delete, InsertChange, TypeOK, ClientKey, Key
  <2>2. CASE ~listed /\ UNCHANGED <<row, change, lastId, phase>>
    BY <2>2 DEF ClientKey, Key
  <2> QED
    BY <1>2, <2>1, <2>2
<1>4. Owned'
  BY <1>1, <1>3 DEF ClientList, Owned, Forgotten
<1> QED
  BY <1>1, <1>3, <1>4, GoneKeepsClients

LEMMA ClientListStep ==
    ASSUME NoFaults, IInv, ServerTypes, ClientList,
           [ServerNext]_<<vars, serverVars>>
    PROVE  ClientList'
<1> USE DEF IInv
<1>1. ASSUME NEW c \in Connection, Accept(c) PROVE ClientList'
  <2>1. /\ \A d \in Connection :
               /\ link'[d] = IF d = c THEN "open" ELSE link[d]
               /\ d # c => clientRecordId'[d] = clientRecordId[d]
        /\ UNCHANGED <<row, change, lastId, phase, authenticated, inbox, nextMsgId>>
        /\ phase = "up" /\ link[c] = "new"
    BY <1>1 DEF Accept, Accepted, engineVars, ServerTypes, ServerTypeOK
  <2>2. ~authenticated[c]
    BY <2>1 DEF ClientList, OnlyOpen
  <2>3. FirstAndOnce' /\ OnlyOpen'
    BY <2>1, <2>2 DEF ClientList, FirstAndOnce, OnlyOpen
  <2>4. OwnIds' /\ Owned'
    BY <2>1, <2>2 DEF ClientList, OwnIds, Owned
  <2> QED
    BY <2>3, <2>4 DEF ClientList
<1>2. ASSUME NEW c \in Connection, Handle(c) PROVE ClientList'
  BY <1>2, HandleKeepsClients
<1>3. ASSUME NEW c \in Connection, Disconnect(c) PROVE ClientList'
  BY <1>3, DisconnectKeepsClients
<1>4. CASE ServerStop
  <2>1. /\ Forgotten({c \in Connection : link[c] = "open"})
        /\ phase' = "down" /\ lastId' = lastId /\ change' = change
    BY <1>4 DEF ServerStop, Stop
  <2>2. Owned'
    BY <2>1 DEF Owned
  <2> QED
    BY <2>1, <2>2, GoneKeepsClients
<1>5. CASE ServerStart
  <2>1. /\ UNCHANGED <<link, authenticated, clientRecordId, inbox, nextMsgId>>
        /\ phase # "up"
        /\ phase' = "up" => \A k \in ClientKey : row'[k].status # "live"
    BY <1>5 DEF ServerStart, PurgeClients, PurgeClientChanges, PurgedRows, Absent,
                serverVars, session
  <2>2. \A c \in Connection : link[c] # "open" /\ ~authenticated[c]
    BY <2>1 DEF ClientList, OnlyOpen
  <2>3. FirstAndOnce' /\ OnlyOpen'
    BY <2>1, <2>2 DEF ClientList, FirstAndOnce, OnlyOpen
  <2>4. OwnIds' /\ Owned'
    BY <2>1, <2>2 DEF OwnIds, Owned
  <2> QED
    BY <2>3, <2>4 DEF ClientList
<1>6. ASSUME NEW c \in Connection,
             NEW m \in Message({nextMsgId[c]}, {0, lastRevision}), ClientSends(c, m)
      PROVE  ClientList'
  <2>1. /\ UNCHANGED <<row, change, lastId, phase, link, authenticated, clientRecordId>>
        /\ m.cmd = "authenticate" <=> nextMsgId[c] = 0
    BY <1>6 DEF ClientSends, engineVars, session
  <2>2. OnlyOpen' /\ OwnIds' /\ Owned'
    BY <2>1 DEF ClientList, OnlyOpen, OwnIds, Owned
  <2>3. \A d \in Connection :
            /\ inbox'[d] = IF d = c THEN Append(inbox[c], m) ELSE inbox[d]
            /\ nextMsgId'[d] = IF d = c THEN nextMsgId[c] + 1 ELSE nextMsgId[d]
    BY <1>6 DEF ClientSends, ServerTypes, ServerShape
  <2>4. m \in Incoming /\ inbox[c] \in Seq(Incoming) /\ nextMsgId[c] \in Nat
    BY SentMessage DEF ServerTypes, ServerShape
  <2>5. nextMsgId'[c] # 0
    BY <2>3, <2>4
  <2>6. \A i \in DOMAIN inbox'[c] :
            inbox'[c][i].cmd = "authenticate" => i = 1 /\ ~authenticated[c]
    <3> SUFFICES ASSUME NEW i \in DOMAIN Append(inbox[c], m),
                        Append(inbox[c], m)[i].cmd = "authenticate"
                 PROVE  i = 1 /\ ~authenticated[c]
      BY <2>3
    <3>1. CASE i \in DOMAIN inbox[c]
      BY <2>4, <3>1 DEF ClientList, FirstAndOnce
    <3>2. CASE i = Len(inbox[c]) + 1
      <4>1. nextMsgId[c] = 0
        BY <2>1, <2>4, <3>2
      <4> QED
        BY <3>2, <4>1 DEF ClientList, FirstAndOnce
    <3> QED
      BY <2>4, <3>1, <3>2
  <2>7. FirstAndOnce'
    BY <2>1, <2>3, <2>5, <2>6 DEF ClientList, FirstAndOnce
  <2> QED
    BY <2>2, <2>7 DEF ClientList
<1>7. CASE UNCHANGED <<vars, serverVars>>
  BY <1>7 DEF vars, serverVars, session, ClientList, FirstAndOnce, OnlyOpen,
              OwnIds, Owned
<1> QED
  BY <1>1, <1>2, <1>3, <1>4, <1>5, <1>6, <1>7 DEF ServerNext

LEMMA ClientListHolds ==
    ASSUME NoFaults
    PROVE  ServerSpec => [](IInv /\ ServerTypes /\ ClientList)
<1>1. ServerInit => ClientList
  BY DEF ServerInit, Init, Nothing, ClientList, FirstAndOnce, OnlyOpen, OwnIds, Owned
<1>2. IInv /\ ServerTypes /\ ClientList /\ [ServerNext]_<<vars, serverVars>>
          => ClientList'
  BY NoFaults, ClientListStep
<1>3. ServerSpec => []IInv
  BY ServerImplementsEngine, IInvAlways, PTL
<1> QED
  BY <1>1, <1>2, <1>3, ServerTypesHold, PTL DEF ServerSpec

\* While no query, push or commit of a write fails, every live client record is
\* that of exactly one connection that is there, for any number of connections that
\* come and go and through restarts (DatabaseServer.cpp:213-235).
THEOREM NoGhosts ==
    ASSUME NoFaults
    PROVE  ServerSpec => []NoGhostClients
<1>1. ServerTypes /\ ClientList => NoGhostClients
  <2> SUFFICES ASSUME ServerTypes, ClientList, phase = "up",
                      NEW k \in ClientKey, row[k].status = "live"
               PROVE  Cardinality({c \in Connection :
                          /\ link[c] = "open" /\ authenticated[c]
                          /\ clientRecordId[c] = k[2]}) = 1
    BY DEF NoGhostClients
  <2>1. PICK c \in Connection : authenticated[c] /\ clientRecordId[c] = k[2]
    BY DEF ClientList, Owned
  <2>2. {d \in Connection : /\ link[d] = "open" /\ authenticated[d]
                            /\ clientRecordId[d] = k[2]} = {c}
    BY <2>1 DEF ClientList, OnlyOpen, OwnIds
  <2> QED
    BY <2>2, FS_Singleton
<1> QED
  BY <1>1, ClientListHolds, PTL

\* And no client that may call changes() meets an empty change table, on which
\* it fails (DatabaseEngine.cpp:107).
THEOREM LogNeverEmpty ==
    ASSUME NoFaults
    PROVE  ServerSpec => []LogIsNeverEmptyForClients
<1>1. ClientList => LogIsNeverEmptyForClients
  BY DEF ClientList, OwnIds, LogIsNeverEmptyForClients
<1> QED
  BY <1>1, ClientListHolds, PTL

=============================================================================
