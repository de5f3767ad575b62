--------------------------- MODULE DatabaseServer ---------------------------
(***************************************************************************)
(* The server around the engine (server/DatabaseServer.cpp): connections   *)
(* with their session state, the commands a client may send, and the       *)
(* change callback that pushes every change to every matching subscription *)
(* of every connection.  The program has one thread and an event loop; a   *)
(* received message is handled to its end, so each command is one action.  *)
(*                                                                         *)
(* inbox[c] and outbox[c] are the two directions of the byte stream of     *)
(* connection c, message by message and in order.  A Connection object     *)
(* serves one socket and is never used again.                              *)
(***************************************************************************)
EXTENDS DatabaseEngine, SequencesExt

CONSTANTS
    Connection,     \* connection objects
    Faults,         \* what may fail: "db" a query of a write, "rollback" what is
                    \* left of it after the first push, a further push or the
                    \* commit; around a ServerConnection also "lost" a connection,
                    \* "unreachable" an attempt to connect, "stop" the server
    Commands,       \* the commands clients use, besides "authenticate"
    Queries,        \* the queries clients ask
    ClientsWait,    \* clients wait until they are let in, as ServerConnection does
    MaxRequests     \* bound: messages one client sends on one connection

ASSUME FaultsAssumption == 
    Faults \subseteq {"db", "rollback", "lost", "unreachable", "stop"}
ASSUME QueriesAssumption == Queries \subseteq TableQuery
ASSUME ClientsWaitAssumption == ClientsWait \in BOOLEAN

VARIABLES
    link,           \* "new", "open" (listed in m_connections), "closed"
    authenticated, clientRecordId, subscriptions, nextSubscriptionId,
    inbox, outbox,
    nextMsgId       \* of the client at the other end (ServerConnection)

engineVars == <<row, change, lastId, lastRevision>>
session == <<authenticated, clientRecordId, subscriptions, nextSubscriptionId>>
serverVars == <<link, session, inbox, outbox, nextMsgId>>

\* What a subscription listens to.
ChangeQuery == [query : TableQuery, from : 0..MaxRevision]

-----------------------------------------------------------------------------
(* Messages from the server. *)

\* `answers' is what the client knows from the msgId: what it had asked.
Reply(m, data) == [cmd |-> "reply", reply_to |-> m.msgId, answers |-> m.cmd,
                   data |-> data]
Error(m) == [cmd |-> "error", reply_to |-> m.msgId]
Push(s, ch) == [cmd |-> "changes", reply_to |-> s, changes |-> {ch}]

\* Mutant of Matches: the table is not compared.
MatchesAnyTable(sub, ch) ==
    /\ ch.revision >= sub.from
    /\ \A f \in Field : ch.record.values[f] \in sub.query.accepts[f]

\* ChangeQuery::matches, for a record with all its fields.
Matches(sub, ch) ==
    /\ ch.revision >= sub.from
    /\ Selects(sub.query, ch.record.key, ch.record.values)

\* handleChange(): what connection d is sent because of change ch.  The code
\* visits the subscriptions of d in the order of a hash table: any order.
Pushes(d, ch) ==
    LET hit == {s \in DOMAIN subscriptions[d] : Matches(subscriptions[d][s], ch)}
        order == IF link[d] = "open" THEN SetToSeq(hit) ELSE <<>>
    IN  [i \in DOMAIN order |-> Push(order[i], ch)]

Nothing == [d \in Connection |-> <<>>]
Broadcast(ch) == [d \in Connection |-> Pushes(d, ch)]

\* What has been pushed of a change that is then rolled back: all of it if the
\* commit fails; if a connection other than c could not be written to, what the
\* connections visited before it got.
PushedInVain(ch, c) ==
    LET hit == {d \in Connection : Pushes(d, ch) # <<>>}
    IN  {[d \in Connection |-> IF d \in reached THEN Pushes(d, ch) ELSE <<>>] :
            reached \in {R \in SUBSET hit : R = hit \/ ~(hit \subseteq R \cup {c})}}

\* Mutant of Send: the answer overtakes the pushes.
SendAnswerFirst(pushed, c, answer) ==
    outbox' = [d \in Connection |->
                   outbox[d] \o (IF d = c THEN <<answer>> ELSE <<>>) \o pushed[d]]

\* Send what `pushed' says to each connection and then the answer to c.
Send(pushed, c, answer) ==
    outbox' = [d \in Connection |->
                   outbox[d] \o pushed[d] \o IF d = c THEN <<answer>> ELSE <<>>]

-----------------------------------------------------------------------------
(* Commands.  m is the message connection c sent. *)

\* f with x mapped to v.
With(f, x, v) == [y \in DOMAIN f \cup {x} |-> IF y = x THEN v ELSE f[y]]

\* A message may name an id that is none.
Live(k) == k \in Key /\ row[k].status = "live"

\* Mutant of Refuse: no answer.
RefuseSilently(c, m) == UNCHANGED <<engineVars, session, outbox>>

\* The exception a command threw is reported and nothing has changed.
Refuse(c, m) == UNCHANGED <<engineVars, session>> /\ Send(Nothing, c, Error(m))

\* Mutant of Authenticate: the client is not listed.
AuthenticateUnlisted(c, m) ==
    /\ m.cmd = "authenticate"
    /\ \/ m.pwd # "right" /\ Refuse(c, m)
       \/ /\ m.pwd = "right"
          /\ authenticated' = [authenticated EXCEPT ![c] = TRUE]
          /\ UNCHANGED <<engineVars, phase, clientRecordId, subscriptions,
                         nextSubscriptionId>>
          /\ Send(Nothing, c, Reply(m, [ok |-> TRUE]))

Authenticate(c, m) ==
    /\ m.cmd = "authenticate"
    /\ \/ /\ m.pwd # "right"
          /\ Refuse(c, m)
       \/ /\ m.pwd = "right"
          /\ Create(ClientTable, Blank)
          /\ authenticated' = [authenticated EXCEPT ![c] = TRUE]
          /\ clientRecordId' = [clientRecordId EXCEPT
                                    ![c] = NewKey(ClientTable)[2]]
          /\ UNCHANGED <<subscriptions, nextSubscriptionId>>
          /\ Send(Broadcast(CreateChange(ClientTable, Blank)), c, Reply(m, [ok |-> TRUE]))

NotAuthorized(c, m) ==
    /\ m.cmd \notin {"authenticate", "version"}
    /\ ~authenticated[c]
    /\ Refuse(c, m)

\* Commands that read.
Query(c, m) ==
    /\ \/ m.cmd = "version" /\ Send(Nothing, c, Reply(m, [ok |-> TRUE]))
       \/ /\ authenticated[c]
          /\ \/ m.cmd = "find" /\ Send(Nothing, c, Reply(m, [records |-> Find(m.query)]))
             \/ /\ m.cmd = "read"
                /\ Send(Nothing, c, IF Live(m.key)
                                    THEN Reply(m, [record |-> Found(m.key)])
                                    ELSE Error(m))
             \/ /\ m.cmd = "changes"
                /\ Send(Nothing, c, IF change # {}
                                    THEN Reply(m, [changes |-> Changes(m.query, m.from)])
                                    ELSE Error(m))
    /\ UNCHANGED <<engineVars, session>>

CreateRecord(c, m) ==
    /\ m.cmd = "create" /\ authenticated[c]
    /\ Create(m.table, m.values)
    /\ UNCHANGED session
    /\ LET ch == CreateChange(m.table, m.values)
       IN  Send(Broadcast(ch), c, Reply(m, [record |-> ch.record]))

UpdateRecord(c, m) ==
    /\ m.cmd = "update" /\ authenticated[c]
    /\ \/ ~Live(m.key) /\ Refuse(c, m)
       \/ /\ Live(m.key) /\ Update(m.key, m.values)
          /\ UNCHANGED session
          /\ Send(Broadcast(UpdateChange(m.key, m.values)), c,
                  Reply(m, [revision |-> lastRevision + 1]))

DeleteRecord(c, m) ==
    /\ m.cmd = "delete" /\ authenticated[c]
    /\ \/ ~Live(m.key) /\ Refuse(c, m)
       \/ /\ Live(m.key) /\ Delete(m.key)
          /\ UNCHANGED session
          /\ Send(Broadcast(DeleteChange(m.key)), c, Reply(m, [revision |-> lastRevision + 1]))

\* Mutant of Subscribe: the next id is not counted up.
SubscribeSameId(c, m) ==
    /\ m.cmd = "subscribe" /\ authenticated[c]
    /\ LET id == nextSubscriptionId[c] IN
       /\ subscriptions' = [subscriptions EXCEPT ![c] =
              With(@, id, [query |-> m.query, from |-> m.from])]
       /\ Send(Nothing, c, Reply(m, [subscription |-> id,
                                     changes |-> Changes(m.query, m.from)]))
    /\ UNCHANGED <<engineVars, authenticated, clientRecordId,
                   nextSubscriptionId>>

\* The subscription is registered before changes() runs, which throws when
\* there is no change at all.
Subscribe(c, m) ==
    /\ m.cmd = "subscribe" /\ authenticated[c]
    /\ LET id == nextSubscriptionId[c] IN
       /\ subscriptions' = [subscriptions EXCEPT ![c] =
              With(@, id, [query |-> m.query, from |-> m.from])]
       /\ nextSubscriptionId' = [nextSubscriptionId EXCEPT ![c] = id + 1]
       /\ Send(Nothing, c,
               IF change # {}
               THEN Reply(m, [subscription |-> id,
                              changes |-> Changes(m.query, m.from)])
               ELSE Error(m))
    /\ UNCHANGED <<engineVars, authenticated, clientRecordId>>

Unsubscribe(c, m) ==
    /\ m.cmd = "unsubscribe" /\ authenticated[c]
    /\ \/ m.subscription \notin DOMAIN subscriptions[c] /\ Refuse(c, m)
       \/ /\ m.subscription \in DOMAIN subscriptions[c]
          /\ subscriptions' = [subscriptions EXCEPT ![c] =
                 Restrict(subscriptions[c],
                          DOMAIN subscriptions[c] \ {m.subscription})]
          /\ Send(Nothing, c, Reply(m, [ids |-> {m.subscription}]))
          /\ UNCHANGED <<engineVars, authenticated, clientRecordId,
                         nextSubscriptionId>>

UnsubscribeQuery(c, m) ==
    /\ m.cmd = "unsubscribe_query" /\ authenticated[c]
    /\ LET ids == {s \in DOMAIN subscriptions[c] :
                       subscriptions[c][s] = [query |-> m.query, from |-> m.from]}
       IN  /\ subscriptions' = [subscriptions EXCEPT ![c] =
                  Restrict(subscriptions[c], DOMAIN subscriptions[c] \ ids)]
           /\ Send(Nothing, c, Reply(m, [ids |-> ids]))
    /\ UNCHANGED <<engineVars, authenticated, clientRecordId,
                   nextSubscriptionId>>

\* The change the command would announce if nothing failed.
WouldAnnounce(c, m) ==
    IF m.cmd = "authenticate"
    THEN IF m.pwd = "right" THEN {CreateChange(ClientTable, Blank)} ELSE {}
    ELSE IF ~authenticated[c] THEN {}
    ELSE IF m.cmd = "create" THEN {CreateChange(m.table, m.values)}
    ELSE IF m.cmd = "update" /\ Live(m.key)
         THEN {UpdateChange(m.key, m.values)}
    ELSE IF m.cmd = "delete" /\ Live(m.key)
         THEN {DeleteChange(m.key)}
    ELSE {}

\* Mutant of WriteFails: a delete is acknowledged before it is committed.
WriteFailsUnnoticed(c, m) ==
    /\ m.cmd = "delete" /\ "db" \in Faults
    /\ \E ch \in WouldAnnounce(c, m) :
           Send(Nothing, c, Reply(m, [revision |-> ch.revision]))
    /\ UNCHANGED <<engineVars, session>>

\* A write throws: in the database before the callback, in the callback, when
\* one connection cannot be written to after others got their push, or in the
\* commit.  The transaction is rolled back and the sender told.  An
\* authentication that fails this way leaves the connection authenticated
\* without a client record.
WriteFails(c, m) ==
    \E ch \in WouldAnnounce(c, m) :
        /\ \/ "db" \in Faults /\ Send(Nothing, c, Error(m))
           \/ /\ "rollback" \in Faults
              /\ \E pushed \in PushedInVain(ch, c) : Send(pushed, c, Error(m))
        /\ authenticated' = [authenticated EXCEPT
                                 ![c] = @ \/ m.cmd = "authenticate"]
        /\ UNCHANGED <<engineVars, clientRecordId, subscriptions,
                       nextSubscriptionId>>

\* A record is created, but the query that reads it back after the commit fails
\* (DatabaseEngine.cpp:176): the sender is told of an error all the same, and
\* an authentication leaves a client record that belongs to no connection.
CreateUnread(c, m) ==
    \E ch \in WouldAnnounce(c, m) :
        /\ "db" \in Faults /\ ch.type = "Create"
        /\ Create(ch.record.key[1], ch.record.values)
        /\ authenticated' = [authenticated EXCEPT ![c] = TRUE]
        /\ UNCHANGED <<clientRecordId, subscriptions, nextSubscriptionId>>
        /\ Send(Broadcast(ch), c, Error(m))

Command(c, m) ==
    \/ Authenticate(c, m) \/ NotAuthorized(c, m) \/ Query(c, m)
    \/ CreateRecord(c, m) \/ UpdateRecord(c, m) \/ DeleteRecord(c, m)
    \/ Subscribe(c, m) \/ Unsubscribe(c, m) \/ UnsubscribeQuery(c, m)
    \/ WriteFails(c, m) \/ CreateUnread(c, m)

-----------------------------------------------------------------------------
(* Connections. *)

\* The slot of Connection::message.
Handle(c) ==
    /\ phase = "up" /\ link[c] = "open" /\ inbox[c] # <<>>
    /\ inbox' = [inbox EXCEPT ![c] = Tail(inbox[c])]
    /\ \E m \in {Head(inbox[c])} : Command(c, m)
    /\ UNCHANGED <<phase, link, nextMsgId>>

\* incomingConnection() and addConnection().  clientRecordId is not
\* initialised: it holds anything, an id in use included (0 stands for every
\* value that is no id).
Accepted(c) ==
    /\ phase = "up" /\ link[c] = "new"
    /\ link' = [link EXCEPT ![c] = "open"]
    /\ \E garbage \in 0..MaxId :
           clientRecordId' = [clientRecordId EXCEPT ![c] = garbage]

Accept(c) ==
    /\ Accepted(c)
    /\ UNCHANGED <<engineVars, phase, authenticated, subscriptions,
                   nextSubscriptionId, inbox, outbox, nextMsgId>>

\* What is left of a connection that is gone: its object is destroyed and the
\* bytes under way are lost.
Forgotten(C) ==
    /\ link' = [c \in Connection |-> IF c \in C THEN "closed" ELSE link[c]]
    /\ authenticated' = [c \in Connection |-> c \notin C /\ authenticated[c]]
    /\ clientRecordId' = [c \in Connection |-> IF c \in C THEN 0
                                               ELSE clientRecordId[c]]
    /\ subscriptions' = [c \in Connection |-> IF c \in C THEN <<>>
                                              ELSE subscriptions[c]]
    /\ nextSubscriptionId' = [c \in Connection |-> IF c \in C THEN 1
                                                   ELSE nextSubscriptionId[c]]
    /\ inbox' = [c \in Connection |-> IF c \in C THEN <<>> ELSE inbox[c]]
    /\ nextMsgId' = [c \in Connection |-> IF c \in C THEN 0 ELSE nextMsgId[c]]

\* Mutant of Disconnect: the client record is not deleted.
DisconnectSilently(c) ==
    /\ phase = "up" /\ link[c] = "open"
    /\ Forgotten({c})
    /\ outbox' = [outbox EXCEPT ![c] = <<>>]
    /\ UNCHANGED <<engineVars, phase>>

\* The slot of Connection::disconnected: the connection leaves m_connections
\* before its client record is deleted, and a failed delete is only logged.
Disconnect(c) ==
    /\ phase = "up" /\ link[c] = "open"
    /\ Forgotten({c})
    /\ LET k == <<ClientTable, clientRecordId[c]>>
           Sent(pushed) == outbox' = [d \in Connection |->
                               IF d = c THEN <<>> ELSE outbox[d] \o pushed[d]]
           listed == clientRecordId[c] \in Id /\ row[k].status = "live"
       IN  \/ /\ listed /\ Delete(k)
              /\ Sent(Broadcast(DeleteChange(k)))
           \/ /\ \/ (~listed \/ "db" \in Faults) /\ Sent(Nothing)
                 \/ /\ listed /\ "rollback" \in Faults
                    /\ \E pushed \in PushedInVain(DeleteChange(k), c) : Sent(pushed)
              /\ UNCHANGED <<engineVars, phase>>

\* The server process ends, and starts again: the engine's constructor.
ServerStop ==
    /\ Stop
    /\ Forgotten({c \in Connection : link[c] = "open"})
    /\ outbox' = Nothing

ServerStart ==
    /\ PurgeClients \/ PurgeClientChanges
    /\ UNCHANGED serverVars

-----------------------------------------------------------------------------
(* Any client: it authenticates first, and once.  A ServerConnection sends  *)
(* nothing else before the answer; the server does not count on that.       *)

\* The messages a client may send with the ids `msgIds', asking for changes from
\* one of `starts'.
Message(msgIds, starts) ==
    LET Of(cmds) == cmds \cap Commands
    IN  [cmd : {"authenticate"}, pwd : {"right", "wrong"}, msgId : msgIds]
        \cup [cmd : Of({"version"}), msgId : msgIds]
        \cup [cmd : Of({"find"}), query : Queries, msgId : msgIds]
        \cup [cmd : Of({"changes", "subscribe", "unsubscribe_query"}),
              query : Queries, from : starts, msgId : msgIds]
        \cup [cmd : Of({"create"}), table : Table \ {ClientTable},
              values : [Field -> Value], msgId : msgIds]
        \cup [cmd : Of({"read", "delete"}), key : Key \ ClientKey, msgId : msgIds]
        \cup [cmd : Of({"update"}), key : Key \ ClientKey, values : Partial,
              msgId : msgIds]
        \cup [cmd : Of({"unsubscribe"}), subscription : 1..MaxRequests,
              msgId : msgIds]

Greeted(c) == \E i \in DOMAIN outbox[c] :
                  outbox[c][i].cmd = "reply" /\ outbox[c][i].reply_to = 0

ClientSends(c, m) ==
    /\ link[c] = "open" /\ nextMsgId[c] <= MaxRequests
    /\ m.cmd = "authenticate" <=> nextMsgId[c] = 0
    /\ nextMsgId[c] > 0 /\ ClientsWait => Greeted(c)
    /\ inbox' = [inbox EXCEPT ![c] = Append(@, m)]
    /\ nextMsgId' = [nextMsgId EXCEPT ![c] = @ + 1]
    /\ UNCHANGED <<engineVars, phase, link, session, outbox>>

ServerInit ==
    /\ Init
    /\ link = [c \in Connection |-> "new"]
    /\ authenticated = [c \in Connection |-> FALSE]
    /\ clientRecordId = [c \in Connection |-> 0]
    /\ subscriptions = [c \in Connection |-> <<>>]
    /\ nextSubscriptionId = [c \in Connection |-> 1]
    /\ inbox = Nothing
    /\ outbox = Nothing
    /\ nextMsgId = [c \in Connection |-> 0]

ServerNext ==
    \/ \E c \in Connection : Accept(c) \/ Handle(c) \/ Disconnect(c)
    \/ ServerStop
    \/ ServerStart
    \/ \E c \in Connection : \E m \in Message({nextMsgId[c]}, {0, lastRevision}) :
           ClientSends(c, m)

ServerSpec == ServerInit /\ [][ServerNext]_<<vars, serverVars>>

-----------------------------------------------------------------------------
(* Properties. *)

\* A subscription has an id that its connection handed out once and will not
\* hand out again (DatabaseServer.cpp:172), and listens to a query.
ServerTypeOK ==
    /\ link \in [Connection -> {"new", "open", "closed"}]
    /\ authenticated \in [Connection -> BOOLEAN]
    /\ clientRecordId \in [Connection -> 0..MaxId]
    /\ \A c \in Connection :
           /\ DOMAIN subscriptions[c] \subseteq 1..nextSubscriptionId[c] - 1
           /\ \A s \in DOMAIN subscriptions[c] :
                  subscriptions[c][s] \in ChangeQuery

\* A message carries changes of subscription s: it is the answer to its
\* subscribe command, or a push.
Carries(msg, s) ==
    \/ msg.cmd = "changes" /\ msg.reply_to = s
    \/ /\ msg.cmd = "reply" /\ msg.answers = "subscribe"
       /\ msg.data.subscription = s
ChangesIn(msg) == IF msg.cmd = "changes" THEN msg.changes ELSE msg.data.changes

\* Where in the stream to c the messages of subscription s are.
Feed(c, s) == {i \in DOMAIN outbox[c] : Carries(outbox[c][i], s)}

\* Subscriptions whose query has no filter but possibly one on the id.
Plain(c) == {s \in DOMAIN subscriptions[c] :
                \A f \in Field : subscriptions[c][s].query.accepts[f] = Value}

FedRevisions(c, s) ==
    UNION {{ch.revision : ch \in ChangesIn(outbox[c][i])} : i \in Feed(c, s)}
DueRevisions(c, s) ==
    {ch.revision : ch \in LogSince(subscriptions[c][s].query,
                                   subscriptions[c][s].from)}

\* An answer to subscribe that the LIMIT may have cut, and that ends before r.
CutBefore(msg, r) ==
    /\ msg.cmd = "reply"
    /\ Cardinality(msg.data.changes) >= ChangesLimit
    /\ \A ch \in msg.data.changes : ch.revision < r

\* Catching up and pushing fit together: what a subscription was sent, in the
\* answer and in pushes, covers every change of the log it asked for
\* (DatabaseServer.cpp:169-178 with 267-288), whatever commands, connections
\* and disconnections came in between, and whatever was rolled back.  The LIMIT
\* (DatabaseEngine.cpp:96) takes away only changes behind the end of an answer
\* that is full: a client can see that there may be more, and where to go on.
FeedMissesNothing ==
    \A c \in Connection : \A s \in Plain(c) :
        \A r \in DueRevisions(c, s) \ FedRevisions(c, s) :
            \E i \in Feed(c, s) : CutBefore(outbox[c][i], r)

\* Moreover no change is sent twice or behind a later one, and nothing is sent
\* that is not in the log.
FeedIsExact ==
    \A c \in Connection : \A s \in Plain(c) :
        /\ FedRevisions(c, s) \subseteq DueRevisions(c, s)
        /\ \A i, j \in Feed(c, s) :
               i < j => \A x \in ChangesIn(outbox[c][i]),
                           y \in ChangesIn(outbox[c][j]) :
                               x.revision < y.revision

\* The revision the answer to a write names.
Acknowledges(msg) == /\ msg.cmd = "reply"
                     /\ msg.answers \in {"create", "update", "delete"}
RevisionIn(msg) == IF msg.answers = "create" THEN msg.data.record.latestRevision
                                             ELSE msg.data.revision

\* Change ch is the one the answer acknowledges.
Wrote(msg, ch) ==
    /\ ch.revision = RevisionIn(msg)
    /\ ch.type = CASE msg.answers = "create" -> "Create"
                   [] msg.answers = "update" -> "Update"
                   [] msg.answers = "delete" -> "Delete"

\* A client whose write was acknowledged finds it in the log under the revision
\* it was told, although subscribers are told before the commit.
AcknowledgedIsCommitted ==
    \A c \in Connection : \A i \in DOMAIN outbox[c] :
        Acknowledges(outbox[c][i]) => \E ch \in change : Wrote(outbox[c][i], ch)

\* The push of a client's own write reaches it before the acknowledgement: the
\* views that add a row (AbstractRecordModel::add) show it by then.
OwnPushComesFirst ==
    \A c \in Connection : \A s \in Plain(c), i \in DOMAIN outbox[c] :
        Acknowledges(outbox[c][i]) =>
            \A j \in 1..i, ch \in change :
                /\ outbox[c][j].cmd = "reply" /\ Carries(outbox[c][j], s)
                /\ ch.revision = RevisionIn(outbox[c][i])
                /\ ch.key[1] = subscriptions[c][s].query.table
                /\ ch.key[2] \in subscriptions[c][s].query.ids
                => \E n \in j..i : /\ Carries(outbox[c][n], s)
                                   /\ ch.revision \in {x.revision : x \in
                                          ChangesIn(outbox[c][n])}

\* The client list names no one who is not there: every live client record is
\* that of exactly one connection, open and authenticated, through wrong
\* passwords, disconnections in any order and restarts of the server.
NoGhostClients ==
    phase = "up" =>
        \A k \in ClientKey :
            row[k].status = "live" =>
                Cardinality({c \in Connection :
                    /\ link[c] = "open" /\ authenticated[c]
                    /\ clientRecordId[c] = k[2]}) = 1

\* changes() fails on an empty change table (execOne, DatabaseEngine.cpp:107),
\* and subscribe would leave a subscription no one knows the id of; no client
\* that may call it ever meets that state, since its own client record is in
\* the table even after the restart that emptied it.
LogIsNeverEmptyForClients ==
    \A c \in Connection : authenticated[c] => change # {}

\* Every connected client is listed, which the test "clients-list" counts on
\* (tests/tst_client_server_tests.cpp:106, 133, 147).
ConnectedClientsAreListed ==
    phase = "up" =>
        \A c \in Connection :
            link[c] = "open" /\ authenticated[c] =>
                \E k \in ClientKey : /\ k[2] = clientRecordId[c]
                                     /\ row[k].status = "live"
=============================================================================
