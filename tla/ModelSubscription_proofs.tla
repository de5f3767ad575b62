---------------------- MODULE ModelSubscription_proofs ----------------------
(***************************************************************************)
(* Proofs about the subscriptions of a record model, as its                *)
(* ServerConnection and the server keep them: for any number of            *)
(* connections and sessions, any targets, any faults and whatever the user *)
(* and the other clients do.                                               *)
(***************************************************************************)
EXTENDS AbstractRecordModel, ServerFeed_proofs

-----------------------------------------------------------------------------
(* The two ends of the client's connection. *)

ToServer == inbox[peer]
ToClient == outbox[peer]
InSession == socket = "connected" /\ link[peer] = "open"

\* Only a running server has open connections, and nothing is under way to or
\* from the others.
ServerEnd(d) ==
    /\ IsSeq(inbox[d]) /\ IsSeq(outbox[d])
    /\ DOMAIN subscriptions[d] \subseteq 1..nextSubscriptionId[d] - 1
    /\ link[d] = "open" => phase = "up"
    /\ link[d] # "open" => /\ inbox[d] = <<>> /\ outbox[d] = <<>>
                           /\ nextSubscriptionId[d] = 1

ServerSide ==
    /\ link = [d \in Connection |-> link[d]]
    /\ inbox = [d \in Connection |-> inbox[d]]
    /\ outbox = [d \in Connection |-> outbox[d]]
    /\ subscriptions = [d \in Connection |-> subscriptions[d]]
    /\ authenticated \in [Connection -> BOOLEAN]
    /\ nextSubscriptionId \in [Connection -> Nat \ {0}]
    /\ \A d \in Connection : ServerEnd(d)

\* The client knows one Subscribtion object, m_subscription: it waits for its
\* answer, or has an id, or has been told none yet.
ClientSide ==
    /\ peer \in Connection
    /\ isConnected = (socket = "connected" /\ letIn)
    /\ nextCall \in Nat \ {0} /\ nextSubscription \in Nat \ {0}
    /\ DOMAIN calls \subseteq 1..nextCall - 1
    /\ subscription \in 0..nextSubscription - 1
    /\ \A s \in DOMAIN clientSubscriptions : clientSubscriptions[s] = subscription
    /\ \A s, t \in DOMAIN clientSubscriptions : s = t
    /\ \/ pendingSubscriptions = {}
       \/ /\ pendingSubscriptions = {subscription}
          /\ DOMAIN clientSubscriptions = {}

\* No two calls are about one object.
Objects ==
    /\ \A id \in DOMAIN calls :
           calls[id].kind = "subscribe" => calls[id].object \in 1..nextSubscription - 1
    /\ \A a, b \in DOMAIN calls :
           /\ calls[a].kind = "subscribe" /\ calls[b].kind = "subscribe"
           /\ calls[a].object = calls[b].object
           => a = b

-----------------------------------------------------------------------------
(* What is under way in a session. *)

Waits(id, kind) == id \in DOMAIN calls /\ calls[id].kind = kind
Answer(msg) == msg.cmd # "changes"
IsReply(a, cmd) == a.cmd = "reply" /\ a.answers = cmd

\* Messages are answered in the order in which they were sent.
InTurn ==
    /\ \A i \in DOMAIN ToServer : ToServer[i].msgId \in 1..nextCall - 1
    /\ \A i, j \in DOMAIN ToServer : i < j => ToServer[i].msgId < ToServer[j].msgId
    /\ \A i, j \in DOMAIN ToClient :
           i < j /\ Answer(ToClient[i]) /\ Answer(ToClient[j]) =>
               ToClient[i].reply_to < ToClient[j].reply_to
    /\ \A i \in DOMAIN ToClient : Answer(ToClient[i]) =>
           /\ ToClient[i].reply_to \in 1..nextCall - 1
           /\ \A j \in DOMAIN ToServer : ToClient[i].reply_to < ToServer[j].msgId

\* Who has sent message m waits for its answer, or for none.
Requests(m) ==
    \/ m.cmd = "find" /\ Waits(m.msgId, "find")
    \/ m.cmd = "subscribe" /\ Waits(m.msgId, "subscribe")
    \/ m.cmd \in {"update", "delete"} /\ Waits(m.msgId, "undo")
    \/ m.cmd \in {"unsubscribe", "create"} /\ m.msgId \notin DOMAIN calls

\* The message a is no surprise to the client; what it loads with is granted.
Expected(a) ==
    \/ ~Answer(a)
    \/ IsReply(a, "find") /\ Waits(a.reply_to, "find")
    \/ IsReply(a, "subscribe") /\ Waits(a.reply_to, "subscribe")
    \/ /\ ~IsReply(a, "find") /\ ~IsReply(a, "subscribe")
       /\ a.reply_to \notin DOMAIN calls \/ Waits(a.reply_to, "undo")

Requested == \A i \in DOMAIN ToServer : Requests(ToServer[i])
Awaited == \A i \in DOMAIN ToClient : Expected(ToClient[i])

\* Before it is let in a client has sent nothing but its password.
Greeting ==
    /\ nextSubscriptionId[peer] = 1
    /\ \/ /\ ToClient = <<>> /\ DOMAIN ToServer = {1}
          /\ ToServer[1].cmd = "authenticate"
          /\ Waits(ToServer[1].msgId, "authenticate")
       \/ /\ ToServer = <<>> /\ DOMAIN ToClient = {1} /\ Answer(ToClient[1])
          /\ Waits(ToClient[1].reply_to, "authenticate")
          /\ ToClient[1].cmd = "reply" => authenticated[peer] /\ change # {}

-----------------------------------------------------------------------------
(* Subscription ids. *)

Gives(a, s) == IsReply(a, "subscribe") /\ a.data.subscription = s
Given(s) == \E i \in DOMAIN ToClient : Gives(ToClient[i], s)
Drops(m, s) == m.cmd = "unsubscribe" /\ m.subscription = s
Dropped(s) == \E i \in DOMAIN ToServer : Drops(ToServer[i], s)

\* The session has asked for subscriptions: the ids the client knows are not
\* those of the session before.
Begun == \/ nextSubscriptionId[peer] > 1
         \/ \E i \in DOMAIN ToServer : ToServer[i].cmd = "subscribe"

\* Message i to the server drops s without harm: s is of the session before,
\* and no id has been given in this one; or s is given up for good.
Harmless(i, s) ==
    \/ /\ nextSubscriptionId[peer] = 1
       /\ \A j \in DOMAIN ToServer : j <= i => ToServer[j].cmd # "subscribe"
    \/ /\ s \in 1..nextSubscriptionId[peer] - 1
       /\ s \notin DOMAIN clientSubscriptions
       /\ ~Given(s)

\* Each subscription of the server is the client's, or about to be, or about to
\* be dropped; the client's are all there.
Ids ==
    /\ \A s \in DOMAIN subscriptions[peer] :
           s \in DOMAIN clientSubscriptions \/ Given(s) \/ Dropped(s)
    /\ Begun => DOMAIN clientSubscriptions \subseteq DOMAIN subscriptions[peer]
    /\ \A s : Given(s) => /\ s \in DOMAIN subscriptions[peer]
                          /\ s \notin DOMAIN clientSubscriptions
    /\ \A s : \A i, j \in DOMAIN ToClient :
           Gives(ToClient[i], s) /\ Gives(ToClient[j], s) => i = j
    /\ \A s : \A i \in DOMAIN ToServer : Drops(ToServer[i], s) => Harmless(i, s)

\* A load has begun.
Finding ==
    \/ \E i \in DOMAIN ToServer : ToServer[i].cmd = "find"
    \/ \E i \in DOMAIN ToClient : IsReply(ToClient[i], "find")

\* m_subscription is asked for, is granted, or is there, for the target.
Listening(s) == /\ s \in DOMAIN subscriptions[peer]
                /\ subscriptions[peer][s].query = target
AskedFor(m) == /\ m.cmd = "subscribe" /\ m.query = target
               /\ calls[m.msgId].object = subscription
GrantedBy(a) == \E s : /\ Gives(a, s) /\ Listening(s)
                       /\ calls[a.reply_to].object = subscription
Loaded ==
    \/ /\ subscription \in pendingSubscriptions
       /\ \/ \E i \in DOMAIN ToServer : AskedFor(ToServer[i])
          \/ \E i \in DOMAIN ToClient : GrantedBy(ToClient[i])
    \/ \E s \in DOMAIN clientSubscriptions : Listening(s)

Linked ==
    /\ authenticated[peer] /\ change # {}
    /\ Requested /\ Awaited /\ Ids
    /\ Finding \/ Loaded

\* What both ends know of each other at any time.
Protocol == IF letIn THEN InTurn /\ Linked ELSE InTurn /\ Greeting

SubscriptionInv ==
    /\ ServerSide /\ ClientSide /\ Objects
    /\ InSession => Protocol

-----------------------------------------------------------------------------
(* What a command does, as far as subscriptions go. *)

\* Each connection is sent the pushes of a change, or none.
Pushing(pushed) ==
    \A d \in Connection : pushed[d] = <<>> \/ \E ch : pushed[d] = Pushes(d, ch)

\* Message a is the answer to m, which only c is sent.
Replies(c, m, a) ==
    /\ a.reply_to = m.msgId
    /\ a.cmd = "error" \/ IsReply(a, m.cmd)
    /\ m.cmd = "authenticate" /\ a.cmd = "reply" => authenticated'[c] /\ change' # {}
    /\ m.cmd = "subscribe" /\ a.cmd = "reply" =>
           a.data.subscription = nextSubscriptionId[c]
    /\ m.cmd \in {"find", "subscribe"} /\ authenticated[c] /\ change # {} =>
           a.cmd = "reply"

Untouched(d) == /\ subscriptions'[d] = subscriptions[d]
                /\ nextSubscriptionId'[d] = nextSubscriptionId[d]

\* The session after message m.
Serves(c, m) ==
    /\ authenticated[c] => authenticated'[c]
    /\ DOMAIN subscriptions'[c] \subseteq 1..nextSubscriptionId'[c] - 1
    /\ m.cmd \in {"subscribe", "unsubscribe"} /\ ~authenticated[c] => Untouched(c)
    /\ m.cmd = "subscribe" /\ authenticated[c] =>
           /\ nextSubscriptionId'[c] = nextSubscriptionId[c] + 1
           /\ subscriptions'[c] = With(subscriptions[c], nextSubscriptionId[c],
                                       [query |-> m.query, from |-> m.from])
    /\ m.cmd = "unsubscribe" /\ authenticated[c] =>
           /\ nextSubscriptionId'[c] = nextSubscriptionId[c]
           /\ DOMAIN subscriptions'[c] = DOMAIN subscriptions[c] \ {m.subscription}
           /\ \A s \in DOMAIN subscriptions'[c] :
                  subscriptions'[c][s] = subscriptions[c][s]
    /\ m.cmd \notin {"subscribe", "unsubscribe", "unsubscribe_query"} => Untouched(c)

\* The tables of the sessions are whole, and only c's has changed.
OnlyOf(c) ==
    /\ subscriptions' = [d \in Connection |-> subscriptions'[d]]
    /\ authenticated' \in [Connection -> BOOLEAN]
    /\ nextSubscriptionId' \in [Connection -> Nat \ {0}]
    /\ \A d \in Connection \ {c} : /\ Untouched(d)
                                   /\ authenticated'[d] = authenticated[d]

\* Some subscriptions are given up, as m has asked.
GivesUp(c, m, ids, data) ==
    /\ m.cmd \in {"unsubscribe", "unsubscribe_query"} /\ authenticated[c]
    /\ m.cmd = "unsubscribe" => ids = {m.subscription}
    /\ Send(Nothing, c, Reply(m, data))
    /\ UNCHANGED <<engineVars, authenticated, nextSubscriptionId>>
    /\ subscriptions' = [subscriptions EXCEPT ![c] =
           Restrict(subscriptions[c], DOMAIN subscriptions[c] \ ids)]

\* A command that is about no subscription leaves them as they are.
LEMMA SameSession ==
    ASSUME ServerSide, NEW c \in Connection, NEW m,
           UNCHANGED <<subscriptions, nextSubscriptionId>>,
           authenticated' \in [Connection -> BOOLEAN],
           authenticated[c] => authenticated'[c],
           \A d \in Connection \ {c} : authenticated'[d] = authenticated[d],
           m.cmd \notin {"subscribe", "unsubscribe"} \/ ~authenticated[c]
    PROVE  Serves(c, m) /\ OnlyOf(c)
BY DEF ServerSide, ServerEnd, Serves, OnlyOf, Untouched

\* A broadcast, and its absence, consist of pushes.
LEMMA PushingNothing == Pushing(Nothing) /\ \A ch : Pushing(Broadcast(ch))
  BY DEF Pushing, Nothing, Broadcast

\* So does a broadcast of a change that is rolled back.
LEMMA PushingInVain ==
    ASSUME NEW ch, NEW c, NEW pushed \in PushedInVain(ch, c)
    PROVE  Pushing(pushed)
BY DEF Pushing, PushedInVain

\* A refusal is an answer, and nothing else happens.
LEMMA RefuseMeans ==
    ASSUME ServerSide, NEW c \in Connection, NEW m, Refuse(c, m),
           m.cmd \notin {"find", "subscribe"} \/ ~authenticated[c],
           m.cmd \notin {"subscribe", "unsubscribe"} \/ ~authenticated[c]
    PROVE  /\ \E pushed, a : Send(pushed, c, a) /\ Pushing(pushed) /\ Replies(c, m, a)
           /\ Serves(c, m) /\ OnlyOf(c)
           /\ change # {} => change' # {}
<1>1. UNCHANGED <<change, subscriptions, nextSubscriptionId, authenticated>>
  BY DEF Refuse, engineVars, session
<1>2. Serves(c, m) /\ OnlyOf(c)
  BY <1>1, SameSession DEF ServerSide
<1>3. Send(Nothing, c, Error(m)) /\ Replies(c, m, Error(m))
  BY DEF Refuse, Replies, Error
<1> QED
  BY <1>1, <1>2, <1>3, PushingNothing

\* What any write leaves behind.
LEMMA WritesLog ==
    /\ \A t, values : Create(t, values) => change' # {}
    /\ \A k, values : Update(k, values) => change' # {}
    /\ \A k : Delete(k) => change' # {}
BY DEF Create, Update, Delete, InsertChange

\* A command is answered once, after pushes to anyone.
LEMMA CommandMeans ==
    ASSUME ServerSide, NEW c \in Connection, NEW m, Command(c, m)
    PROVE  /\ \E pushed, a : Send(pushed, c, a) /\ Pushing(pushed) /\ Replies(c, m, a)
           /\ Serves(c, m) /\ OnlyOf(c)
           /\ change # {} => change' # {}
<1> DEFINE P == /\ \E pushed, a : Send(pushed, c, a) /\ Pushing(pushed) /\ Replies(c, m, a)
                /\ Serves(c, m) /\ OnlyOf(c)
                /\ change # {} => change' # {}
<1> SUFFICES P
  OBVIOUS
<1>1. ASSUME NEW pushed, NEW a, Send(pushed, c, a), Pushing(pushed), Replies(c, m, a),
             Serves(c, m), OnlyOf(c), change # {} => change' # {}
      PROVE  P
  BY <1>1
<1>2. authenticated \in [Connection -> BOOLEAN]
  BY DEF ServerSide
<1>3. CASE Authenticate(c, m)
  <2>1. CASE Refuse(c, m)
    BY <1>3, <2>1, RefuseMeans DEF Authenticate
  <2>2. CASE ~Refuse(c, m)
    <3> DEFINE ch == CreateChange(ClientTable, Blank)
               a == Reply(m, [ok |-> TRUE])
    <3>1. /\ m.cmd = "authenticate" /\ Create(ClientTable, Blank)
          /\ authenticated' = [authenticated EXCEPT ![c] = TRUE]
          /\ UNCHANGED <<subscriptions, nextSubscriptionId>>
          /\ Send(Broadcast(ch), c, a)
      BY <1>3, <2>2 DEF Authenticate
    <3>2. change' # {} /\ authenticated'[c]
      BY <1>2, <3>1, WritesLog
    <3>3. Serves(c, m) /\ OnlyOf(c)
      BY <1>2, <3>1, SameSession
    <3>4. Replies(c, m, a)
      BY <3>1, <3>2 DEF Replies, Reply, IsReply
    <3> HIDE DEF P, a, ch
    <3> QED
      BY <1>1, <3>1, <3>2, <3>3, <3>4, PushingNothing
  <2> QED
    BY <2>1, <2>2
<1>4. CASE NotAuthorized(c, m)
  BY <1>4, RefuseMeans DEF NotAuthorized
<1>5. CASE Query(c, m)
  <2>1. /\ UNCHANGED <<change, subscriptions, nextSubscriptionId, authenticated>>
        /\ m.cmd \in {"version", "find", "read", "changes"}
    BY <1>5 DEF Query, engineVars, session
  <2>2. Serves(c, m) /\ OnlyOf(c)
    BY <1>2, <2>1, SameSession
  <2>3. ASSUME NEW data PROVE Replies(c, m, Reply(m, data))
    BY <2>1 DEF Replies, Reply, IsReply
  <2>4. m.cmd # "find" => Replies(c, m, Error(m))
    BY <2>1 DEF Replies, Error
  <2>5. PICK a : Send(Nothing, c, a) /\ Replies(c, m, a)
    BY <1>5, <2>3, <2>4 DEF Query
  <2> HIDE DEF P
  <2> QED
    BY <1>1, <2>1, <2>2, <2>5, PushingNothing
<1>6. ASSUME NEW ch, NEW data, m.cmd \in {"create", "update", "delete"},
             Send(Broadcast(ch), c, Reply(m, data)), UNCHANGED session, change' # {}
      PROVE  P
  <2>1. Serves(c, m) /\ OnlyOf(c)
    BY <1>2, <1>6, SameSession DEF session
  <2>2. Replies(c, m, Reply(m, data))
    BY <1>6 DEF Replies, Reply, IsReply
  <2> HIDE DEF P
  <2> QED
    BY <1>1, <1>6, <2>1, <2>2, PushingNothing
<1>7. CASE CreateRecord(c, m)
  <2> HIDE DEF P
  <2> QED
    BY <1>6, <1>7, WritesLog DEF CreateRecord
<1>8. CASE UpdateRecord(c, m)
  <2>1. CASE Refuse(c, m)
    BY <1>8, <2>1, RefuseMeans DEF UpdateRecord
  <2> HIDE DEF P
  <2> QED
    BY <1>6, <1>8, <2>1, WritesLog DEF UpdateRecord
<1>9. CASE DeleteRecord(c, m)
  <2>1. CASE Refuse(c, m)
    BY <1>9, <2>1, RefuseMeans DEF DeleteRecord
  <2> HIDE DEF P
  <2> QED
    BY <1>6, <1>9, <2>1, WritesLog DEF DeleteRecord
<1>10. CASE Subscribe(c, m)
  <2> DEFINE id == nextSubscriptionId[c]
             q == [query |-> m.query, from |-> m.from]
             reply == Reply(m, [subscription |-> id, changes |-> Changes(m.query, m.from)])
             a == IF change # {} THEN reply ELSE Error(m)
  <2>1. /\ m.cmd = "subscribe" /\ authenticated[c] /\ Send(Nothing, c, a)
        /\ UNCHANGED <<change, authenticated>>
        /\ subscriptions' = [subscriptions EXCEPT ![c] = With(subscriptions[c], id, q)]
        /\ nextSubscriptionId' = [nextSubscriptionId EXCEPT ![c] = id + 1]
    BY <1>10 DEF Subscribe, engineVars
  <2>2. Replies(c, m, a)
    <3>1. Replies(c, m, reply)
      BY <2>1 DEF Replies, Reply, IsReply
    <3>2. change = {} => Replies(c, m, Error(m))
      BY <2>1 DEF Replies, Error
    <3> QED
      BY <3>1, <3>2
  <2>3. /\ id \in Nat \ {0} /\ DOMAIN subscriptions[c] \subseteq 1..id - 1
        /\ subscriptions = [d \in Connection |-> subscriptions[d]]
        /\ nextSubscriptionId \in [Connection -> Nat \ {0}]
    BY DEF ServerSide, ServerEnd
  <2> HIDE DEF a, q, P
  <2>4. OnlyOf(c)
    <3>1. subscriptions' = [d \in Connection |-> subscriptions'[d]]
      BY <2>1, <2>3
    <3>2. nextSubscriptionId' \in [Connection -> Nat \ {0}]
      BY <2>1, <2>3
    <3> HIDE DEF id
    <3> QED
      BY <1>2, <2>1, <2>3, <3>1, <3>2 DEF OnlyOf, Untouched
  <2>5. /\ nextSubscriptionId'[c] = id + 1
        /\ subscriptions'[c] = With(subscriptions[c], id, q)
    BY <2>1, <2>3
  <2>6. DOMAIN subscriptions'[c] \subseteq 1..nextSubscriptionId'[c] - 1
    <3>1. DOMAIN With(subscriptions[c], id, q) = DOMAIN subscriptions[c] \cup {id}
      BY DEF With
    <3> HIDE DEF id
    <3> QED
      BY <2>3, <2>5, <3>1
  <2>7. Serves(c, m)
    BY <2>1, <2>5, <2>6 DEF Serves, q
  <2> QED
    BY <1>1, <2>1, <2>2, <2>4, <2>7, PushingNothing
<1>11. ASSUME NEW ids, NEW data, GivesUp(c, m, ids, data) PROVE P
  <2>1. Replies(c, m, Reply(m, data))
    BY <1>11 DEF GivesUp, Replies, Reply, IsReply
  <2>2. /\ subscriptions = [d \in Connection |-> subscriptions[d]]
        /\ nextSubscriptionId \in [Connection -> Nat \ {0}]
        /\ DOMAIN subscriptions[c] \subseteq 1..nextSubscriptionId[c] - 1
    BY DEF ServerSide, ServerEnd
  <2>3. /\ OnlyOf(c)
        /\ subscriptions'[c] = Restrict(subscriptions[c], DOMAIN subscriptions[c] \ ids)
    BY <1>2, <1>11, <2>2 DEF GivesUp, OnlyOf, Untouched
  <2>4. /\ DOMAIN subscriptions'[c] = DOMAIN subscriptions[c] \ ids
        /\ \A s \in DOMAIN subscriptions'[c] : subscriptions'[c][s] = subscriptions[c][s]
    BY <2>3 DEF Restrict
  <2>5. Serves(c, m)
    BY <1>11, <2>2, <2>4 DEF GivesUp, Serves
  <2> HIDE DEF P
  <2> QED
    BY <1>1, <1>11, <2>1, <2>3, <2>5, PushingNothing DEF GivesUp, engineVars
<1>12. CASE Unsubscribe(c, m)
  <2>1. CASE m.subscription \notin DOMAIN subscriptions[c]
    <3>1. /\ m.cmd = "unsubscribe" /\ authenticated[c] /\ Refuse(c, m)
      BY <1>12, <2>1 DEF Unsubscribe
    <3>2. UNCHANGED <<change, subscriptions, nextSubscriptionId, authenticated>>
      BY <3>1 DEF Refuse, engineVars, session
    <3>3. Send(Nothing, c, Error(m)) /\ Replies(c, m, Error(m))
      BY <3>1 DEF Refuse, Replies, Error
    <3>4. Serves(c, m) /\ OnlyOf(c)
      BY <1>2, <2>1, <3>1, <3>2 DEF ServerSide, ServerEnd, Serves, OnlyOf, Untouched
    <3> HIDE DEF P
    <3> QED
      BY <1>1, <3>2, <3>3, <3>4, PushingNothing
  <2>2. CASE m.subscription \in DOMAIN subscriptions[c]
    <3> HIDE DEF P
    <3> QED
      BY <1>11, <1>12, <2>2 DEF Unsubscribe, GivesUp
  <2> QED
    BY <2>1, <2>2
<1>13. CASE UnsubscribeQuery(c, m)
  <2> DEFINE ids == {s \in DOMAIN subscriptions[c] :
                         subscriptions[c][s] = [query |-> m.query, from |-> m.from]}
  <2>1. /\ m.cmd = "unsubscribe_query" /\ authenticated[c]
        /\ Send(Nothing, c, Reply(m, [ids |-> ids]))
        /\ UNCHANGED <<engineVars, authenticated, nextSubscriptionId>>
        /\ subscriptions' = [subscriptions EXCEPT ![c] =
               Restrict(subscriptions[c], DOMAIN subscriptions[c] \ ids)]
    BY <1>13 DEF UnsubscribeQuery
  <2>2. m.cmd = "unsubscribe" => ids = {m.subscription}
    BY <2>1
  <2> DEFINE data == [ids |-> ids]
  <2>3. GivesUp(c, m, ids, data)
    BY <2>1, <2>2 DEF GivesUp
  <2> HIDE DEF P, ids, data
  <2> QED
    BY <1>11, <2>3
<1>14. CASE WriteFails(c, m)
  <2>1. /\ UNCHANGED <<change, subscriptions, nextSubscriptionId>>
        /\ authenticated' = [authenticated EXCEPT ![c] = @ \/ m.cmd = "authenticate"]
    BY <1>14 DEF WriteFails, engineVars
  <2>2. m.cmd \in {"authenticate", "create", "update", "delete"} \/ ~authenticated[c]
    BY <1>14 DEF WriteFails, WouldAnnounce
  <2>3. /\ authenticated' \in [Connection -> BOOLEAN]
        /\ authenticated[c] => authenticated'[c]
        /\ \A d \in Connection \ {c} : authenticated'[d] = authenticated[d]
    BY <1>2, <2>1
  <2>4. Serves(c, m) /\ OnlyOf(c)
    BY <2>1, <2>2, <2>3, SameSession
  <2>5. \E pushed : Send(pushed, c, Error(m)) /\ Pushing(pushed)
    BY <1>14, PushingNothing, PushingInVain DEF WriteFails
  <2>6. Replies(c, m, Error(m))
    <3>1. m.cmd \notin {"find", "subscribe"} \/ ~authenticated[c]
      BY <2>2
    <3> QED
      BY <3>1 DEF Replies, Error
  <2> HIDE DEF P
  <2> QED
    BY <1>1, <2>1, <2>4, <2>5, <2>6
<1>15. CASE CreateUnread(c, m)
  <2>1. PICK ch \in WouldAnnounce(c, m) :
            /\ Create(ch.record.key[1], ch.record.values)
            /\ authenticated' = [authenticated EXCEPT ![c] = TRUE]
            /\ UNCHANGED <<subscriptions, nextSubscriptionId>>
            /\ Send(Broadcast(ch), c, Error(m))
    BY <1>15 DEF CreateUnread
  <2>2. m.cmd \in {"authenticate", "create", "update", "delete"} \/ ~authenticated[c]
    BY <2>1 DEF WouldAnnounce
  <2>3. /\ authenticated' \in [Connection -> BOOLEAN]
        /\ authenticated[c] => authenticated'[c]
        /\ \A d \in Connection \ {c} : authenticated'[d] = authenticated[d]
    BY <1>2, <2>1
  <2>4. Serves(c, m) /\ OnlyOf(c)
    BY <2>1, <2>2, <2>3, SameSession
  <2>5. change' # {}
    BY <2>1, WritesLog
  <2>6. Replies(c, m, Error(m))
    <3>1. m.cmd \notin {"find", "subscribe"} \/ ~authenticated[c]
      BY <2>2
    <3> QED
      BY <3>1 DEF Replies, Error
  <2> HIDE DEF P
  <2> QED
    BY <1>1, <2>1, <2>4, <2>5, <2>6, PushingNothing
<1> HIDE DEF P
<1> QED
  BY <1>3, <1>4, <1>5, <1>7, <1>8, <1>9, <1>10, <1>12, <1>13, <1>14, <1>15 DEF Command

-----------------------------------------------------------------------------
(* What is added to a stream. *)

Keeps(old, new) ==
    \A i \in DOMAIN old : i \in DOMAIN new /\ new[i] = old[i]

Grows(d, msgs) == outbox'[d] = outbox[d] \o msgs

\* Connection d is sent nothing but pushes.
OnlyPushed(d) ==
    /\ IsSeq(outbox'[d]) /\ Keeps(outbox[d], outbox'[d])
    /\ \A i \in DOMAIN outbox'[d] :
           i \in DOMAIN outbox[d] \/ outbox'[d][i].cmd = "changes"
    /\ link[d] # "open" \/ nextSubscriptionId[d] = 1 => outbox'[d] = outbox[d]

\* It is sent pushes, if it has subscribed, and then answer a, at place n.
Answered(d, a, n) ==
    /\ IsSeq(outbox'[d]) /\ Keeps(outbox[d], outbox'[d])
    /\ n \in DOMAIN outbox'[d] \ DOMAIN outbox[d] /\ outbox'[d][n] = a
    /\ \A i \in DOMAIN outbox'[d] :
           /\ i <= n
           /\ i \in DOMAIN outbox[d] \/ i = n \/ outbox'[d][i].cmd = "changes"
    /\ nextSubscriptionId[d] = 1 =>
           \A i \in DOMAIN outbox'[d] : i \in DOMAIN outbox[d] \/ i = n

\* What is pushed to a connection: to one without subscriptions, nothing.
LEMMA PushingAppends ==
    ASSUME ServerSide, NEW d \in Connection, NEW pushed, Pushing(pushed)
    PROVE  /\ IsSeq(pushed[d])
           /\ \A i \in DOMAIN pushed[d] : pushed[d][i].cmd = "changes"
           /\ link[d] # "open" \/ nextSubscriptionId[d] = 1 => pushed[d] = <<>>
<1>1. /\ nextSubscriptionId[d] \in Nat
      /\ DOMAIN subscriptions[d] \subseteq 1..nextSubscriptionId[d] - 1
  BY DEF ServerSide, ServerEnd
<1>2. CASE pushed[d] = <<>>
  BY <1>2, ShortSequences
<1>3. ASSUME NEW ch, pushed[d] = Pushes(d, ch)
      PROVE  /\ IsSeq(pushed[d])
             /\ \A i \in DOMAIN pushed[d] : pushed[d][i].cmd = "changes"
             /\ link[d] # "open" \/ nextSubscriptionId[d] = 1 => pushed[d] = <<>>
  <2> DEFINE p == Pushes(d, ch)
  <2>1. /\ IsSeq(p)
        /\ \A i \in DOMAIN p : \E s \in DOMAIN subscriptions[d] : p[i] = Push(s, ch)
        /\ link[d] # "open" => p = <<>>
    BY <1>1, PushesOfAny
  <2>2. \A i \in DOMAIN p : p[i].cmd = "changes"
    BY <2>1 DEF Push
  <2> HIDE DEF p
  <2>3. nextSubscriptionId[d] = 1 => p = <<>>
    <3>1. nextSubscriptionId[d] = 1 => \A s \in DOMAIN subscriptions[d] : FALSE
      BY <1>1
    <3>2. (\A i \in DOMAIN p : FALSE) => p = <<>>
      BY <2>1 DEF IsSeq
    <3> QED
      BY <2>1, <3>1, <3>2
  <2> QED
    BY <1>3, <2>1, <2>2, <2>3 DEF p
<1> QED
  BY <1>2, <1>3 DEF Pushing

\* A stream with pushes behind it.
LEMMA AppendedPushes ==
    ASSUME NEW d \in Connection, IsSeq(outbox[d]), NEW p, NEW none,
           Appends(d, p, none), DOMAIN none = {}
    PROVE  /\ IsSeq(outbox'[d])
           /\ \A i \in DOMAIN outbox[d] :
                  i \in DOMAIN outbox'[d] /\ outbox'[d][i] = outbox[d][i]
           /\ \A i \in DOMAIN outbox'[d] :
                  i \in DOMAIN outbox[d] \/ \E k \in DOMAIN p : outbox'[d][i] = p[k]
<1>1. /\ IsSeq(outbox'[d])
      /\ \A i \in DOMAIN outbox[d] :
             i \in DOMAIN outbox'[d] /\ outbox'[d][i] = outbox[d][i]
      /\ \A k \in DOMAIN p : outbox'[d][Len(outbox[d]) + k] = p[k]
      /\ \A i \in DOMAIN outbox'[d] :
             \/ i \in DOMAIN outbox[d]
             \/ \E k \in DOMAIN p : i = Len(outbox[d]) + k
             \/ \E k \in DOMAIN none : i = Len(outbox[d]) + Len(p) + k
  BY Appended
<1> QED
  BY <1>1

\* Connection d when it is pushed what `pushed' says.
LEMMA PushedIsTold ==
    ASSUME ServerSide, NEW d \in Connection, NEW pushed, Pushing(pushed),
           Grows(d, pushed[d])
    PROVE  OnlyPushed(d)
<1> DEFINE p == pushed[d]
<1>1. /\ IsSeq(p) /\ \A i \in DOMAIN p : p[i].cmd = "changes"
      /\ link[d] # "open" \/ nextSubscriptionId[d] = 1 => p = <<>>
  BY PushingAppends
<1>2. IsSeq(outbox[d])
  BY DEF ServerSide, ServerEnd
<1>3. outbox'[d] = outbox[d] \o p
  BY DEF Grows
<1> HIDE DEF p
<1>4. IsSeq(outbox[d] \o p) /\ (outbox[d] \o p) \o <<>> = outbox[d] \o p
  <2>1. IsSeq(outbox[d] \o p)
    BY <1>1, <1>2, Joined DEF Concatenates
  <2> DEFINE z == outbox[d] \o p
  <2> HIDE DEF z
  <2>2. IsSeq(z) => z \o <<>> = z
    BY ShortSequences
  <2> QED
    BY <2>1, <2>2 DEF z
<1>5. Appends(d, p, <<>>)
  BY <1>1, <1>3, <1>4, ShortSequences DEF Appends
<1>6. /\ IsSeq(outbox'[d])
      /\ \A i \in DOMAIN outbox[d] : i \in DOMAIN outbox'[d] /\ outbox'[d][i] = outbox[d][i]
      /\ \A i \in DOMAIN outbox'[d] :
             i \in DOMAIN outbox[d] \/ \E k \in DOMAIN p : outbox'[d][i] = p[k]
  <2>1. DOMAIN <<>> = {}
    OBVIOUS
  <2> QED
    BY <1>2, <1>5, <2>1, AppendedPushes
<1>7. link[d] # "open" \/ nextSubscriptionId[d] = 1 => outbox'[d] = outbox[d]
  BY <1>1, <1>2, <1>3, ShortSequences
<1> QED
  BY <1>1, <1>6, <1>7 DEF OnlyPushed, Keeps

\* Connection d when another connection is answered.
LEMMA SendIsTold ==
    ASSUME ServerSide, NEW c \in Connection, NEW pushed, NEW a,
           Send(pushed, c, a), Pushing(pushed), NEW d \in Connection, d # c
    PROVE  OnlyPushed(d)
<1> DEFINE p == pushed[d]
<1>1. outbox'[d] = outbox[d] \o p \o <<>>
  BY DEF Send
<1>2. IsSeq(outbox[d]) /\ IsSeq(p)
  BY PushingAppends DEF ServerSide, ServerEnd
<1> HIDE DEF p
<1>3. outbox'[d] = outbox[d] \o p
  <2> DEFINE z == outbox[d] \o p
  <2>1. IsSeq(z)
    BY <1>2, Joined DEF Concatenates
  <2> HIDE DEF z
  <2>2. z \o <<>> = z
    BY <2>1, ShortSequences
  <2> QED
    BY <1>1, <2>2 DEF z
<1> QED
  BY <1>3, PushedIsTold DEF Grows, p

\* Connection c when it is answered.
LEMMA SendIsAnswered ==
    ASSUME ServerSide, NEW c \in Connection, NEW pushed, NEW a,
           Send(pushed, c, a), Pushing(pushed)
    PROVE  \E n : Answered(c, a, n)
<1> DEFINE p == pushed[c]
           n == Len(outbox[c]) + Len(p) + 1
<1>1. /\ IsSeq(p) /\ \A i \in DOMAIN p : p[i].cmd = "changes"
      /\ nextSubscriptionId[c] = 1 => p = <<>>
      /\ IsSeq(outbox[c])
  BY PushingAppends DEF ServerSide, ServerEnd
<1>2. PICK answers : Appends(c, p, answers) /\ answers = <<a>>
  BY <1>1, SendAppends
<1> HIDE DEF p
<1>3. Appends(c, p, <<a>>)
  BY <1>2
<1>4. DOMAIN <<a>> = {1} /\ <<a>>[1] = a
  BY ShortSequences
<1>5. /\ IsSeq(outbox'[c])
      /\ \A i \in DOMAIN outbox[c] : i \in DOMAIN outbox'[c] /\ outbox'[c][i] = outbox[c][i]
      /\ \A k \in DOMAIN p : outbox'[c][Len(outbox[c]) + k] = p[k]
      /\ n \in DOMAIN outbox'[c] /\ outbox'[c][n] = a
      /\ \A i \in DOMAIN outbox'[c] :
             \/ i \in DOMAIN outbox[c]
             \/ \E k \in DOMAIN p : i = Len(outbox[c]) + k
             \/ i = n
      /\ Len(outbox[c]) \in Nat /\ DOMAIN outbox[c] = 1..Len(outbox[c])
      /\ Len(p) \in Nat /\ DOMAIN p = 1..Len(p)
  BY <1>1, <1>3, <1>4, Appended
<1>6. n \notin DOMAIN outbox[c]
  BY <1>5
<1>7. ASSUME NEW i \in DOMAIN outbox'[c]
      PROVE  /\ i <= n
             /\ i \in DOMAIN outbox[c] \/ i = n \/ outbox'[c][i].cmd = "changes"
  <2>1. CASE i \in DOMAIN outbox[c]
    BY <1>5, <2>1
  <2>2. ASSUME NEW k \in DOMAIN p, i = Len(outbox[c]) + k
        PROVE  i <= n /\ outbox'[c][i].cmd = "changes"
    BY <1>1, <1>5, <2>2
  <2>3. i = n => i <= n
    BY <1>5
  <2> QED
    BY <1>5, <2>1, <2>2, <2>3
<1>8. nextSubscriptionId[c] = 1 =>
          \A i \in DOMAIN outbox'[c] : i \in DOMAIN outbox[c] \/ i = n
  <2>1. nextSubscriptionId[c] = 1 => \A k \in DOMAIN p : FALSE
    BY <1>1, ShortSequences
  <2> QED
    BY <1>5, <2>1
<1> HIDE DEF n
<1> QED
  BY <1>5, <1>6, <1>7, <1>8 DEF Answered, Keeps

\* What is put into the stream of a connection that is not told anything.
LEMMA SameIsTold ==
    ASSUME ServerSide, NEW d \in Connection, outbox'[d] = outbox[d]
    PROVE  OnlyPushed(d)
BY DEF ServerSide, ServerEnd, OnlyPushed, Keeps

-----------------------------------------------------------------------------
(* Both streams when a message is taken or sent. *)

\* Stream z is stream s without its first message.
Rest(s, z) ==
    /\ IsSeq(z) /\ 1 \in DOMAIN s /\ DOMAIN s \subseteq Nat \ {0}
    /\ \A i \in DOMAIN z : i \in Nat \ {0} /\ i + 1 \in DOMAIN s /\ z[i] = s[i + 1]
    /\ \A i \in DOMAIN s : i = 1 \/ (i - 1 \in DOMAIN z /\ z[i - 1] = s[i])

\* It is stream s with the messages `more' behind it.
Longer(s, z, more) ==
    /\ IsSeq(z) /\ Len(s) \in Nat /\ DOMAIN s = 1..Len(s) /\ Keeps(s, z)
    /\ \A k \in DOMAIN more :
           k \in Nat \ {0} /\ Len(s) + k \in DOMAIN z /\ z[Len(s) + k] = more[k]
    /\ \A i \in DOMAIN z : i \in DOMAIN s \/ \E k \in DOMAIN more : i = Len(s) + k

\* The tail of a stream is its rest.
LEMMA TailIsRest ==
    ASSUME NEW s, IsSeq(s), s # <<>>
    PROVE  Rest(s, Tail(s)) /\ Head(s) = s[1]
<1> DEFINE R == Range(s)
<1>1. s \in Seq(R)
  BY DEF IsSeq
<1> HIDE DEF R
<1>2. /\ Tail(s) \in Seq(R) /\ Len(s) \in Nat /\ Len(s) > 0 /\ Head(s) = s[1]
      /\ DOMAIN s = 1..Len(s) /\ DOMAIN Tail(s) = 1..Len(s) - 1
      /\ \A i \in 1..Len(s) - 1 : Tail(s)[i] = s[i + 1]
  BY <1>1
<1>3. IsSeq(Tail(s))
  <2> DEFINE t == Tail(s)
             T == Range(t)
  <2>1. t \in Seq(R) /\ \A i \in DOMAIN t : t[i] \in T
    BY <1>2 DEF Range
  <2> HIDE DEF t, T
  <2>2. t \in Seq(T)
    BY <2>1
  <2> QED
    BY <2>2 DEF IsSeq, t, T
<1> DEFINE t == Tail(s)
<1> HIDE DEF t
<1>4. \A i \in DOMAIN t : i \in Nat \ {0} /\ i + 1 \in DOMAIN s /\ t[i] = s[i + 1]
  BY <1>2 DEF t
<1>5. \A i \in DOMAIN s : i = 1 \/ (i - 1 \in DOMAIN t /\ t[i - 1] = s[i])
  BY <1>2 DEF t
<1> QED
  BY <1>2, <1>3, <1>4, <1>5 DEF Rest, t

\* A stream with messages behind it is longer by them.
LEMMA JoinedIsLonger ==
    ASSUME NEW s, IsSeq(s), NEW more, IsSeq(more)
    PROVE  Longer(s, s \o more, more)
<1> DEFINE z == s \o more
<1>1. Concatenates(s, more, z)
  BY Joined
<1> HIDE DEF z
<1>2. /\ IsSeq(z) /\ Len(s) \in Nat /\ DOMAIN s = 1..Len(s)
      /\ Len(more) \in Nat /\ DOMAIN more = 1..Len(more)
      /\ DOMAIN z = 1..Len(s) + Len(more)
      /\ \A i \in DOMAIN s : z[i] = s[i]
      /\ \A k \in DOMAIN more : z[Len(s) + k] = more[k]
  BY <1>1 DEF Concatenates
<1>3. \A i \in DOMAIN z : i \in DOMAIN s \/ \E k \in DOMAIN more : i = Len(s) + k
  <2> SUFFICES ASSUME NEW i \in DOMAIN z, i \notin DOMAIN s
               PROVE  \E k \in DOMAIN more : i = Len(s) + k
    OBVIOUS
  <2>1. i - Len(s) \in DOMAIN more /\ i = Len(s) + (i - Len(s))
    BY <1>2
  <2> QED
    BY <2>1
<1>4. \A k \in DOMAIN more : k \in Nat \ {0} /\ Len(s) + k \in DOMAIN z
  BY <1>2
<1>5. \A i \in DOMAIN s : i \in DOMAIN z
  BY <1>2
<1> QED
  BY <1>2, <1>3, <1>4, <1>5 DEF Longer, Keeps, z

-----------------------------------------------------------------------------
(* What the client sends. *)

\* Message m is r with an id.
Stamps(r, m, id) ==
    /\ m.msgId = id
    /\ "cmd" \in DOMAIN r => m.cmd = r.cmd
    /\ "query" \in DOMAIN r => m.query = r.query
    /\ "subscription" \in DOMAIN r => m.subscription = r.subscription

\* With() gives a message an id and keeps the rest.
LEMMA WithIdStamps == \A r, id : Stamps(r, With(r, "msgId", id), id)
  BY DEF Stamps, With

\* The messages go to the server if it still listens.
Sends(msgs) ==
    /\ inbox' = [d \in Connection |-> inbox'[d]]
    /\ \A d \in Connection : d # peer => inbox'[d] = inbox[d]
    /\ link[peer] # "open" => inbox' = inbox
    /\ link[peer] = "open" =>
           \E sent : /\ Longer(ToServer, inbox'[peer], sent)
                     /\ DOMAIN sent = DOMAIN msgs
                     /\ \A k \in DOMAIN msgs : Stamps(msgs[k], sent[k], nextCall + k - 1)
    /\ nextCall' = nextCall + Len(msgs)

\* Post() sends the messages and keeps the contexts.
LEMMA PostSends ==
    ASSUME ServerSide, peer \in Connection, NEW msgs, IsSeq(msgs), NEW contexts,
           NEW others, Post(msgs, contexts, others)
    PROVE  /\ Sends(msgs)
           /\ DOMAIN calls' = {nextCall + k - 1 : k \in {i \in DOMAIN msgs :
                                                             contexts[i] # NoCall}}
                              \cup DOMAIN others
           /\ \A id \in DOMAIN calls' :
                  calls'[id] = IF id >= nextCall THEN contexts[id - nextCall + 1]
                                                 ELSE others[id]
<1> DEFINE sent == [i \in DOMAIN msgs |-> With(msgs[i], "msgId", nextCall + i - 1)]
<1>1. /\ inbox' = IF link[peer] # "open" THEN inbox
                  ELSE [inbox EXCEPT ![peer] = inbox[peer] \o sent]
      /\ nextCall' = nextCall + Len(msgs)
  BY DEF Post
<1>2. /\ DOMAIN calls' = {nextCall + k - 1 : k \in {i \in DOMAIN msgs :
                                                        contexts[i] # NoCall}}
                         \cup DOMAIN others
      /\ \A id \in DOMAIN calls' :
             calls'[id] = IF id >= nextCall THEN contexts[id - nextCall + 1]
                                            ELSE others[id]
  BY DEF Post
<1>3. DOMAIN sent = DOMAIN msgs
      /\ \A k \in DOMAIN msgs : Stamps(msgs[k], sent[k], nextCall + k - 1)
  BY WithIdStamps
<1>4. IsSeq(sent)
  <2> DEFINE S == Range(sent)
  <2>1. \A i \in 1..Len(msgs) : sent[i] \in S
    BY DEF Range, IsSeq
  <2>2. Len(msgs) \in Nat /\ sent = [i \in 1..Len(msgs) |-> sent[i]]
    BY DEF IsSeq
  <2> HIDE DEF S, sent
  <2>3. sent \in Seq(S)
    BY <2>1, <2>2
  <2> QED
    BY <2>3 DEF IsSeq, S
<1> HIDE DEF sent
<1>5. /\ inbox = [d \in Connection |-> inbox[d]]
      /\ IsSeq(inbox[peer])
  BY DEF ServerSide, ServerEnd
<1>6. Longer(ToServer, inbox[peer] \o sent, sent)
  BY <1>4, <1>5, JoinedIsLonger DEF ToServer
<1>7. Sends(msgs)
  <2> DEFINE z == inbox[peer] \o sent
  <2>1. inbox' = IF link[peer] # "open" THEN inbox ELSE [inbox EXCEPT ![peer] = z]
    BY <1>1
  <2>2. Longer(ToServer, z, sent)
    BY <1>6
  <2> HIDE DEF z
  <2> QED
    BY <1>1, <1>3, <1>5, <2>1, <2>2 DEF Sends
<1> QED
  BY <1>2, <1>7

-----------------------------------------------------------------------------
(* The session when the client is pushed changes. *)

\* Nothing happens at the client.
Idle == UNCHANGED <<socketVars, dispatchVars, rowVars>>

\* What stays as it is when nothing happens at the client.
LEMMA IdleMeans ==
    Idle => UNCHANGED <<socket, peer, isConnected, letIn, nextCall, calls,
                        pendingSubscriptions, clientSubscriptions, nextSubscription,
                        target, subscription>>
  BY DEF Idle, socketVars, dispatchVars, subscriptionVars, rowVars

\* Pushes take nothing away from what both ends know.
LEMMA PushesAreHarmless ==
    ASSUME ServerSide, ClientSide, Protocol, Idle, inbox'[peer] = inbox[peer],
           OnlyPushed(peer), Untouched(peer),
           authenticated[peer] => authenticated'[peer], change # {} => change' # {}
    PROVE  Protocol'
<1>1. /\ UNCHANGED <<peer, letIn, nextCall, calls, pendingSubscriptions,
                     clientSubscriptions, target, subscription>>
      /\ ToServer' = ToServer
      /\ subscriptions'[peer'] = subscriptions[peer]
      /\ nextSubscriptionId'[peer'] = nextSubscriptionId[peer]
      /\ authenticated[peer] => authenticated'[peer']
  BY IdleMeans DEF ToServer, Untouched
<1>2. /\ \A i \in DOMAIN ToClient : i \in DOMAIN ToClient' /\ ToClient'[i] = ToClient[i]
      /\ \A i \in DOMAIN ToClient' : i \in DOMAIN ToClient \/ ToClient'[i].cmd = "changes"
      /\ nextSubscriptionId[peer] = 1 => ToClient' = ToClient
  BY <1>1 DEF ToClient, OnlyPushed, Keeps
<1>3. InTurn'
  BY <1>1, <1>2 DEF Protocol, InTurn, Answer
<1>4. CASE ~letIn
  <2>1. Greeting
    BY <1>4 DEF Protocol
  <2>2. ToClient' = ToClient
    BY <1>2, <2>1 DEF Greeting
  <2>3. Greeting'
    BY <1>1, <2>1, <2>2 DEF Greeting, Waits, Answer
  <2> QED
    BY <1>1, <1>3, <1>4, <2>3 DEF Protocol
<1>5. CASE letIn
  <2>1. Linked
    BY <1>5 DEF Protocol
  <2>2. \A s : Given(s)' <=> Given(s)
    BY <1>2 DEF Given, Gives, IsReply
  <2>3. \A s : Dropped(s)' <=> Dropped(s)
    BY <1>1 DEF Dropped
  <2>4. Begun' <=> Begun
    BY <1>1 DEF Begun
  <2>5. \A i, s : Harmless(i, s)' <=> Harmless(i, s)
    BY <1>1, <2>2 DEF Harmless
  <2>6. Ids'
    <3>1. \A s : \A i, j \in DOMAIN ToClient' :
              Gives(ToClient'[i], s) /\ Gives(ToClient'[j], s) => i = j
      BY <1>2, <2>1 DEF Linked, Ids, Gives, IsReply
    <3>2. \A s : \A i \in DOMAIN ToServer' : Drops(ToServer'[i], s) => Harmless(i, s)'
      BY <1>1, <2>1, <2>5 DEF Linked, Ids
    <3> QED
      BY <1>1, <2>1, <2>2, <2>3, <2>4, <3>1, <3>2 DEF Linked, Ids, Gives, IsReply, Drops
  <2>7. Requested'
    BY <1>1, <2>1 DEF Linked, Requested, Requests, Waits
  <2>8. Awaited'
    BY <1>1, <1>2, <2>1 DEF Linked, Awaited, Expected, Answer, IsReply, Waits
  <2>9. Finding => Finding'
    BY <1>1, <1>2 DEF Finding, IsReply
  <2>10. Loaded => Loaded'
    BY <1>1, <1>2 DEF Loaded, AskedFor, GrantedBy, Gives, IsReply, Listening
  <2>11. Linked'
    BY <1>1, <2>1, <2>6, <2>7, <2>8, <2>9, <2>10 DEF Linked
  <2> QED
    BY <1>1, <1>3, <1>5, <2>11 DEF Protocol
<1> QED
  BY <1>4, <1>5

-----------------------------------------------------------------------------
(* The session when the server answers message m of the client with a. *)

Serving(m, a, n) ==
    /\ ServerSide /\ ClientSide /\ Idle
    /\ Rest(ToServer, inbox'[peer]) /\ ToServer[1] = m
    /\ Answered(peer, a, n) /\ Replies(peer, m, a) /\ Serves(peer, m)
    /\ change # {} => change' # {}

\* Both streams when m has been answered.
LEMMA ServingMeans ==
    ASSUME NEW m, NEW a, NEW n, Serving(m, a, n)
    PROVE  /\ UNCHANGED <<peer, letIn, nextCall, calls, pendingSubscriptions,
                          clientSubscriptions, target, subscription>>
           /\ peer \in Connection /\ Rest(ToServer, ToServer')
           /\ \A i \in DOMAIN ToClient : i \in DOMAIN ToClient' /\ ToClient'[i] = ToClient[i]
           /\ n \in DOMAIN ToClient' /\ n \notin DOMAIN ToClient /\ ToClient'[n] = a
           /\ \A i \in DOMAIN ToClient' :
                  /\ i \in Nat \ {0} /\ i <= n
                  /\ i \in DOMAIN ToClient \/ i = n \/ ToClient'[i].cmd = "changes"
           /\ nextSubscriptionId[peer] \in Nat \ {0}
           /\ DOMAIN subscriptions[peer] \subseteq 1..nextSubscriptionId[peer] - 1
<1>1. /\ UNCHANGED <<peer, letIn, nextCall, calls, pendingSubscriptions,
                     clientSubscriptions, target, subscription>>
      /\ ToClient' = outbox'[peer] /\ ToServer' = inbox'[peer]
  BY IdleMeans DEF Serving, ToClient, ToServer
<1>2. peer \in Connection /\ Rest(ToServer, ToServer')
  BY <1>1 DEF Serving, ClientSide
<1>3. /\ \A i \in DOMAIN ToClient : i \in DOMAIN ToClient' /\ ToClient'[i] = ToClient[i]
      /\ n \in DOMAIN ToClient' /\ n \notin DOMAIN ToClient /\ ToClient'[n] = a
      /\ \A i \in DOMAIN ToClient' :
             /\ i <= n
             /\ i \in DOMAIN ToClient \/ i = n \/ ToClient'[i].cmd = "changes"
      /\ IsSeq(ToClient')
  BY <1>1 DEF Serving, Answered, Keeps, ToClient
<1>4. \A i \in DOMAIN ToClient' : i \in Nat \ {0}
  BY <1>3 DEF IsSeq
<1> QED
  BY <1>1, <1>2, <1>3, <1>4 DEF Serving, ServerSide, ServerEnd

\* Answers stay in the order of the messages.
LEMMA ServedInTurn ==
    ASSUME NEW m, NEW a, NEW n, Serving(m, a, n), InTurn
    PROVE  InTurn'
<1>1. /\ nextCall' = nextCall /\ Rest(ToServer, ToServer')
      /\ \A i \in DOMAIN ToClient : ToClient'[i] = ToClient[i]
      /\ n \notin DOMAIN ToClient /\ ToClient'[n] = a
      /\ \A i \in DOMAIN ToClient' :
             /\ i \in Nat \ {0} /\ i <= n
             /\ i \in DOMAIN ToClient \/ i = n \/ ToClient'[i].cmd = "changes"
  BY ServingMeans
<1>2. 1 \in DOMAIN ToServer /\ a.reply_to = ToServer[1].msgId
  BY <1>1 DEF Rest, Serving, Replies
<1>3. /\ \A i \in DOMAIN ToServer' : ToServer'[i].msgId \in 1..nextCall' - 1
      /\ \A i, j \in DOMAIN ToServer' : i < j => ToServer'[i].msgId < ToServer'[j].msgId
  BY <1>1 DEF Rest, InTurn
<1>4. ASSUME NEW i \in DOMAIN ToClient', Answer(ToClient'[i])
      PROVE  /\ ToClient'[i].reply_to \in 1..nextCall' - 1
             /\ \A j \in DOMAIN ToServer' : ToClient'[i].reply_to < ToServer'[j].msgId
             /\ \A j \in DOMAIN ToClient' :
                    i < j /\ Answer(ToClient'[j]) =>
                        ToClient'[i].reply_to < ToClient'[j].reply_to
  <2>1. i \in DOMAIN ToClient \/ i = n
    BY <1>1, <1>4 DEF Answer
  <2>2. ToClient'[i].reply_to \in 1..nextCall' - 1
    BY <1>1, <1>2, <1>4, <2>1 DEF InTurn
  <2>3. \A j \in DOMAIN ToServer' : j + 1 \in DOMAIN ToServer /\ 1 < j + 1
                                    /\ ToServer'[j] = ToServer[j + 1]
    BY <1>1 DEF Rest
  <2>4. \A j \in DOMAIN ToServer' : ToClient'[i].reply_to < ToServer'[j].msgId
    BY <1>1, <1>2, <1>4, <2>1, <2>3 DEF InTurn
  <2>5. ASSUME NEW j \in DOMAIN ToClient', i < j, Answer(ToClient'[j])
        PROVE  ToClient'[i].reply_to < ToClient'[j].reply_to
    <3>1. i \in DOMAIN ToClient /\ (j \in DOMAIN ToClient \/ j = n)
      BY <1>1, <2>1, <2>5 DEF Answer
    <3>2. ToClient'[i] = ToClient[i]
      BY <1>1, <3>1
    <3> QED
      BY <1>1, <1>2, <1>4, <2>5, <3>1, <3>2 DEF InTurn
  <2> QED
    BY <2>2, <2>4, <2>5
<1> QED
  BY <1>3, <1>4 DEF InTurn

\* The password has been answered.
LEMMA ServedGreeting ==
    ASSUME NEW m, NEW a, NEW n, Serving(m, a, n), Greeting
    PROVE  Greeting'
<1>1. /\ UNCHANGED <<peer, calls>> /\ Rest(ToServer, ToServer')
      /\ n \in DOMAIN ToClient' /\ ToClient'[n] = a
      /\ ToClient' \in Seq(Range(ToClient'))
  BY ServingMeans DEF Serving, Answered, IsSeq, ToClient
<1>2. /\ ToClient = <<>> /\ DOMAIN ToServer = {1} /\ ToServer[1] = m
      /\ m.cmd = "authenticate" /\ Waits(m.msgId, "authenticate")
      /\ nextSubscriptionId[peer] = 1
  BY <1>1 DEF Greeting, Rest, Serving
<1>3. ToServer' = <<>>
  <2>1. IsSeq(ToServer') /\ \A i \in DOMAIN ToServer' : FALSE
    BY <1>1, <1>2 DEF Rest
  <2> QED
    BY <2>1 DEF IsSeq
<1>4. DOMAIN ToClient' = {n}
  BY <1>1, <1>2 DEF Serving, Answered, ToClient
<1>5. n = 1
  BY <1>1, <1>4
<1>6. a.reply_to = m.msgId /\ (a.cmd = "error" \/ a.cmd = "reply")
      /\ (a.cmd = "reply" => authenticated'[peer] /\ change' # {})
  BY <1>2 DEF Serving, Replies, IsReply
<1>7. nextSubscriptionId'[peer] = 1
  BY <1>2 DEF Serving, Serves, Untouched
<1> QED
  BY <1>1, <1>2, <1>3, <1>4, <1>5, <1>6, <1>7 DEF Greeting, Waits, Answer

\* The ids, as message m takes one or gives one up.
LEMMA ServedIds ==
    ASSUME NEW m, NEW a, NEW n, Serving(m, a, n), InTurn, Linked
    PROVE  Ids'
<1>1. /\ UNCHANGED <<peer, calls, clientSubscriptions>> /\ peer \in Connection
      /\ \A i \in DOMAIN ToClient : i \in DOMAIN ToClient' /\ ToClient'[i] = ToClient[i]
      /\ n \in DOMAIN ToClient' /\ ToClient'[n] = a
      /\ \A i \in DOMAIN ToClient' :
             i \in DOMAIN ToClient \/ i = n \/ ToClient'[i].cmd = "changes"
      /\ nextSubscriptionId[peer] \in Nat \ {0}
      /\ DOMAIN subscriptions[peer] \subseteq 1..nextSubscriptionId[peer] - 1
  BY ServingMeans
<1>2. /\ 1 \in DOMAIN ToServer /\ ToServer[1] = m /\ DOMAIN ToServer \subseteq Nat \ {0}
      /\ \A i \in DOMAIN ToServer' :
             i \in Nat \ {0} /\ i + 1 \in DOMAIN ToServer /\ ToServer'[i] = ToServer[i + 1]
      /\ \A i \in DOMAIN ToServer :
             i = 1 \/ (i - 1 \in DOMAIN ToServer' /\ ToServer'[i - 1] = ToServer[i])
  BY ServingMeans DEF Serving, Rest
<1>3. /\ authenticated[peer] /\ change # {} /\ Ids /\ Requests(m)
      /\ m.cmd \in {"find", "subscribe", "update", "delete", "unsubscribe", "create"}
  BY <1>2 DEF Linked, Requested, Requests
<1>4. \A s : Given(s)' <=> Given(s) \/ Gives(a, s)
  BY <1>1 DEF Given, Gives, IsReply
<1>5. \A s : /\ Dropped(s)' => Dropped(s)
             /\ Dropped(s) => Dropped(s)' \/ Drops(m, s)
  BY <1>2 DEF Dropped
<1>6. \A s : Gives(a, s) => m.cmd = "subscribe" /\ s = nextSubscriptionId[peer]
  BY DEF Serving, Replies, Gives, IsReply
<1>7. \A s : \A i, j \in DOMAIN ToClient' :
          Gives(ToClient'[i], s) /\ Gives(ToClient'[j], s) => i = j
  <2>1. \A s : Given(s) => s # nextSubscriptionId[peer]
    BY <1>1, <1>3 DEF Ids
  <2>2. ASSUME NEW s, NEW i \in DOMAIN ToClient', NEW j \in DOMAIN ToClient',
               Gives(ToClient'[i], s), Gives(ToClient'[j], s)
        PROVE  i = j
    <3>1. /\ i = n \/ i \in DOMAIN ToClient
          /\ j = n \/ j \in DOMAIN ToClient
      BY <1>1, <2>2 DEF Gives, IsReply
    <3>2. CASE i \in DOMAIN ToClient /\ j \in DOMAIN ToClient
      BY <1>1, <1>3, <2>2, <3>2 DEF Ids
    <3>3. CASE ~(i \in DOMAIN ToClient /\ j \in DOMAIN ToClient) /\ i # j
      <4>1. Gives(a, s) /\ Given(s)
        BY <1>1, <2>2, <3>1, <3>3 DEF Given
      <4> QED
        BY <1>6, <2>1, <4>1
    <3> QED
      BY <3>2, <3>3
  <2> QED
    BY <2>2
<1>8. Begun' => Begun
  <2>1. CASE m.cmd = "subscribe"
    BY <1>2, <2>1 DEF Begun
  <2>2. CASE m.cmd # "subscribe"
    <3>1. nextSubscriptionId'[peer'] = nextSubscriptionId[peer]
      BY <1>1, <1>3, <2>2 DEF Serving, Serves, Untouched
    <3> QED
      BY <1>2, <3>1 DEF Begun
  <2> QED
    BY <2>1, <2>2
<1>9. CASE m.cmd = "subscribe"
  <2> DEFINE id == nextSubscriptionId[peer]
  <2>1. /\ nextSubscriptionId'[peer'] = id + 1
        /\ subscriptions'[peer'] = With(subscriptions[peer], id,
                                        [query |-> m.query, from |-> m.from])
    BY <1>1, <1>3, <1>9 DEF Serving, Serves
  <2>2. DOMAIN subscriptions'[peer'] = DOMAIN subscriptions[peer] \cup {id}
    BY <2>1 DEF With
  <2>3. Gives(a, id)
    BY <1>3, <1>9 DEF Serving, Replies, Gives, IsReply
  <2>4. DOMAIN clientSubscriptions \subseteq DOMAIN subscriptions[peer]
    BY <1>2, <1>3, <1>9 DEF Ids, Begun
  <2>5. id \notin DOMAIN clientSubscriptions /\ ~Given(id)
    BY <1>1, <1>3, <2>4 DEF Ids
  <2>6. ASSUME NEW s, NEW i \in DOMAIN ToServer', Drops(ToServer'[i], s)
        PROVE  Harmless(i, s)'
    <3>1. Harmless(i + 1, s)
      BY <1>2, <1>3, <2>6 DEF Ids
    <3>2. s \in 1..id - 1 /\ s \notin DOMAIN clientSubscriptions /\ ~Given(s)
      BY <1>2, <1>9, <3>1 DEF Harmless
    <3>3. s \in 1..nextSubscriptionId'[peer'] - 1
      BY <1>1, <2>1, <3>2
    <3>4. ~Given(s)'
      BY <1>4, <1>6, <1>1, <3>2
    <3> QED
      BY <1>1, <3>2, <3>3, <3>4 DEF Harmless
  <2>7. \A s : Dropped(s) => Dropped(s)'
    BY <1>5, <1>9 DEF Drops
  <2> HIDE DEF id
  <2> QED
    BY <1>1, <1>3, <1>4, <1>6, <1>7, <2>2, <2>3, <2>4, <2>5, <2>6, <2>7 DEF Ids, id
<1>10. CASE m.cmd # "subscribe"
  <2>1. /\ nextSubscriptionId'[peer'] = nextSubscriptionId[peer]
        /\ DOMAIN subscriptions'[peer'] \subseteq DOMAIN subscriptions[peer]
        /\ \A s \in DOMAIN subscriptions[peer] :
               s \in DOMAIN subscriptions'[peer'] \/ Drops(m, s)
        /\ \A s \in DOMAIN subscriptions'[peer'] : ~Drops(m, s)
    BY <1>1, <1>3, <1>10 DEF Serving, Serves, Untouched, Drops
  <2>2. \A s : Given(s)' <=> Given(s)
    BY <1>4, <1>6, <1>10
  <2>3. \A s : Drops(m, s) => Harmless(1, s)
    BY <1>2, <1>3 DEF Ids
  <2>4. nextSubscriptionId[peer] = 1 => DOMAIN subscriptions[peer] = {}
    BY <1>1
  <2>5. \A s \in DOMAIN subscriptions[peer] : Drops(m, s) =>
            s \notin DOMAIN clientSubscriptions /\ ~Given(s)
    BY <2>3, <2>4 DEF Harmless
  <2>6. ASSUME NEW s, NEW i \in DOMAIN ToServer', Drops(ToServer'[i], s)
        PROVE  Harmless(i, s)'
    <3>1. Harmless(i + 1, s)
      BY <1>2, <1>3, <2>6 DEF Ids
    <3>2. CASE /\ nextSubscriptionId[peer] = 1
               /\ \A j \in DOMAIN ToServer : j <= i + 1 => ToServer[j].cmd # "subscribe"
      <4>1. \A j \in DOMAIN ToServer' : j <= i => ToServer'[j].cmd # "subscribe"
        BY <1>2, <3>2
      <4> QED
        BY <2>1, <3>2, <4>1 DEF Harmless
    <3>3. CASE /\ s \in 1..nextSubscriptionId[peer] - 1
               /\ s \notin DOMAIN clientSubscriptions /\ ~Given(s)
      BY <1>1, <2>1, <2>2, <3>3 DEF Harmless
    <3> QED
      BY <3>1, <3>2, <3>3 DEF Harmless
  <2>7. \A s \in DOMAIN subscriptions'[peer'] :
            s \in DOMAIN clientSubscriptions' \/ Given(s)' \/ Dropped(s)'
    BY <1>1, <1>3, <1>5, <2>1, <2>2 DEF Ids
  <2>8. Begun' => DOMAIN clientSubscriptions' \subseteq DOMAIN subscriptions'[peer']
    BY <1>1, <1>3, <1>8, <2>1, <2>5 DEF Ids
  <2>9. \A s : Given(s)' => /\ s \in DOMAIN subscriptions'[peer']
                            /\ s \notin DOMAIN clientSubscriptions'
    BY <1>1, <1>3, <2>1, <2>2, <2>5 DEF Ids
  <2> QED
    BY <1>7, <2>6, <2>7, <2>8, <2>9 DEF Ids
<1> QED
  BY <1>9, <1>10

\* A load goes on, or is complete.
LEMMA ServedLoads ==
    ASSUME NEW m, NEW a, NEW n, Serving(m, a, n), InTurn, Linked
    PROVE  Finding' \/ Loaded'
<1>1. /\ UNCHANGED <<peer, calls, pendingSubscriptions, clientSubscriptions, target,
                     subscription>>
      /\ \A i \in DOMAIN ToClient : i \in DOMAIN ToClient' /\ ToClient'[i] = ToClient[i]
      /\ n \in DOMAIN ToClient' /\ ToClient'[n] = a
      /\ nextSubscriptionId[peer] \in Nat \ {0}
      /\ DOMAIN subscriptions[peer] \subseteq 1..nextSubscriptionId[peer] - 1
  BY ServingMeans
<1>2. /\ 1 \in DOMAIN ToServer /\ ToServer[1] = m
      /\ \A i \in DOMAIN ToServer :
             i = 1 \/ (i - 1 \in DOMAIN ToServer' /\ ToServer'[i - 1] = ToServer[i])
  BY ServingMeans DEF Serving, Rest
<1>3. /\ authenticated[peer] /\ change # {} /\ Ids /\ Requests(m)
      /\ m.cmd \in {"find", "subscribe", "update", "delete", "unsubscribe", "create"}
  BY <1>2 DEF Linked, Requested, Requests
<1>4. CASE Finding
  <2>1. m.cmd = "find" => IsReply(a, "find")
    BY <1>3 DEF Serving, Replies, IsReply
  <2> QED
    BY <1>1, <1>2, <1>4, <2>1 DEF Finding
<1>5. ASSUME NEW s, Listening(s), s \in DOMAIN clientSubscriptions \/ Given(s)
      PROVE  Listening(s)'
  <2>1. ~Drops(m, s)
    <3> SUFFICES ASSUME Drops(m, s) PROVE FALSE
      OBVIOUS
    <3>1. Harmless(1, s)
      BY <1>2, <1>3 DEF Ids
    <3>2. nextSubscriptionId[peer] # 1
      BY <1>1, <1>5 DEF Listening
    <3> QED
      BY <1>5, <3>1, <3>2 DEF Harmless
  <2>2. s \in DOMAIN subscriptions'[peer] /\ subscriptions'[peer][s] = subscriptions[peer][s]
    <3>1. CASE m.cmd = "subscribe"
      <4>1. s # nextSubscriptionId[peer] /\ s \in DOMAIN subscriptions[peer]
        BY <1>1, <1>5 DEF Listening
      <4> QED
        BY <1>3, <3>1, <4>1 DEF Serving, Serves, With
    <3>2. CASE m.cmd # "subscribe"
      BY <1>3, <1>5, <2>1, <3>2 DEF Serving, Serves, Untouched, Drops, Listening
    <3> QED
      BY <3>1, <3>2
  <2> QED
    BY <1>1, <1>5, <2>2 DEF Listening
<1>6. CASE Loaded
  <2>1. ASSUME subscription \in pendingSubscriptions, AskedFor(m) PROVE Loaded'
    <3>0. PICK id : id = nextSubscriptionId[peer]
      OBVIOUS
    <3>1. /\ a.cmd = "reply" /\ Gives(a, id) /\ a.reply_to = m.msgId
          /\ subscriptions'[peer] = With(subscriptions[peer], id,
                                         [query |-> m.query, from |-> m.from])
      BY <1>3, <2>1, <3>0 DEF Serving, Serves, Replies, Gives, IsReply, AskedFor
    <3>2. Listening(id)'
      <4>1. /\ id \in DOMAIN subscriptions'[peer]
            /\ subscriptions'[peer][id] = [query |-> m.query, from |-> m.from]
        BY <3>1 DEF With
      <4>2. m.query = target
        BY <2>1 DEF AskedFor
      <4> QED
        BY <1>1, <4>1, <4>2 DEF Listening
    <3>3. calls'[a.reply_to].object = subscription'
      BY <1>1, <2>1, <3>1 DEF AskedFor
    <3>4. GrantedBy(a)'
      BY <3>1, <3>2, <3>3 DEF GrantedBy
    <3> QED
      BY <1>1, <2>1, <3>4 DEF Loaded
  <2>2. ASSUME subscription \in pendingSubscriptions, NEW i \in DOMAIN ToServer,
               i # 1, AskedFor(ToServer[i])
        PROVE  Loaded'
    BY <1>1, <1>2, <2>2 DEF Loaded, AskedFor
  <2>3. ASSUME subscription \in pendingSubscriptions, NEW i \in DOMAIN ToClient,
               GrantedBy(ToClient[i])
        PROVE  Loaded'
    <3>1. PICK s : /\ Gives(ToClient[i], s) /\ Listening(s)
                   /\ calls[ToClient[i].reply_to].object = subscription
      BY <2>3 DEF GrantedBy
    <3>2. Listening(s)'
      BY <1>5, <3>1 DEF Given
    <3> QED
      BY <1>1, <2>3, <3>1, <3>2 DEF Loaded, GrantedBy
  <2>4. ASSUME NEW s \in DOMAIN clientSubscriptions, Listening(s) PROVE Loaded'
    BY <1>1, <1>5, <2>4 DEF Loaded
  <2> QED
    BY <1>2, <1>6, <2>1, <2>2, <2>3, <2>4 DEF Loaded
<1> QED
  BY <1>4, <1>6 DEF Linked

\* The session of a client that is let in goes on.
LEMMA ServedLinked ==
    ASSUME NEW m, NEW a, NEW n, Serving(m, a, n), InTurn, Linked
    PROVE  Linked'
<1>1. /\ UNCHANGED <<peer, calls>> /\ 1 \in DOMAIN ToServer /\ ToServer[1] = m
      /\ \A i \in DOMAIN ToServer' : i + 1 \in DOMAIN ToServer
                                     /\ ToServer'[i] = ToServer[i + 1]
      /\ \A i \in DOMAIN ToClient : i \in DOMAIN ToClient' /\ ToClient'[i] = ToClient[i]
      /\ n \in DOMAIN ToClient' /\ ToClient'[n] = a
      /\ \A i \in DOMAIN ToClient' :
             i \in DOMAIN ToClient \/ i = n \/ ToClient'[i].cmd = "changes"
  BY ServingMeans DEF Serving, Rest
<1>2. /\ authenticated[peer] /\ change # {} /\ Requests(m)
  BY <1>1 DEF Linked, Requested
<1>3. authenticated'[peer'] /\ change' # {}
  BY <1>1, <1>2 DEF Serving, Serves
<1>4. Requested'
  BY <1>1 DEF Linked, Requested, Requests, Waits
<1>5. Awaited'
  <2>1. Expected(a)
    BY <1>2 DEF Serving, Replies, Requests, Expected, IsReply, Answer
  <2> QED
    BY <1>1, <2>1 DEF Linked, Awaited, Expected, Waits, IsReply, Answer
<1> QED
  BY <1>3, <1>4, <1>5, ServedIds, ServedLoads DEF Linked

\* What both ends know of each other holds when m has been answered.
LEMMA ServedSession ==
    ASSUME NEW m, NEW a, NEW n, Serving(m, a, n), Protocol
    PROVE  Protocol'
<1>1. letIn' = letIn
  BY ServingMeans
<1> QED
  BY <1>1, ServedInTurn, ServedGreeting, ServedLinked DEF Protocol

-----------------------------------------------------------------------------
(* The session when the client acts: it takes the first d messages, of which   *)
(* there may be one or none, forgets the call r it has got an answer to, 0 if  *)
(* none, and sends `sent'.                                                     *)

Takes(d, r) ==
    /\ d \in {0, 1} /\ (d = 1 => 1 \in DOMAIN ToClient)
    /\ r = IF d = 1 /\ Answer(ToClient[1]) THEN ToClient[1].reply_to ELSE 0
    /\ \A i \in DOMAIN ToClient' :
           i \in Nat \ {0} /\ i + d \in DOMAIN ToClient /\ ToClient'[i] = ToClient[i + d]
    /\ \A i \in DOMAIN ToClient :
           /\ i \in Nat \ {0}
           /\ i <= d \/ (i - d \in DOMAIN ToClient' /\ ToClient'[i - d] = ToClient[i])

Forgets(r) ==
    \A id \in 1..nextCall - 1 : id # r =>
        /\ id \in DOMAIN calls' <=> id \in DOMAIN calls
        /\ id \in DOMAIN calls => calls'[id] = calls[id]

Turn(d, r, sent) ==
    /\ UNCHANGED <<peer, change, authenticated, subscriptions, nextSubscriptionId>>
    /\ nextCall \in Nat \ {0} /\ nextCall' \in Nat /\ nextCall <= nextCall'
    /\ Longer(ToServer, ToServer', sent)
    /\ \A k \in DOMAIN sent :
           sent[k].msgId = nextCall + k - 1 /\ nextCall + k - 1 < nextCall'
    /\ Takes(d, r) /\ Forgets(r)

Asks(sent) == \A k \in DOMAIN sent : Requests(sent[k])'

\* New messages come behind the old ones.
LEMMA TurnInTurn ==
    ASSUME NEW d, NEW r, NEW sent, Turn(d, r, sent), InTurn
    PROVE  InTurn'
<1>1. /\ nextCall \in Nat \ {0} /\ nextCall' \in Nat /\ nextCall <= nextCall'
      /\ d \in {0, 1}
      /\ \A i \in DOMAIN ToClient' :
             i \in Nat \ {0} /\ i + d \in DOMAIN ToClient /\ ToClient'[i] = ToClient[i + d]
  BY DEF Turn, Takes
<1>2. \A i \in DOMAIN ToServer :
          i \in Nat /\ i <= Len(ToServer) /\ i \in DOMAIN ToServer' /\ ToServer'[i] = ToServer[i]
  BY DEF Turn, Longer, Keeps
<1>3. \A i \in DOMAIN ToServer' :
          i \in DOMAIN ToServer \/ \E k \in DOMAIN sent :
              /\ k \in Nat \ {0} /\ i = Len(ToServer) + k
              /\ ToServer'[i].msgId = nextCall + k - 1 /\ nextCall + k - 1 < nextCall'
  BY DEF Turn, Longer
<1>4. Len(ToServer) \in Nat
  BY DEF Turn, Longer
<1>5. \A i \in DOMAIN ToServer' :
          \/ i \in DOMAIN ToServer /\ ToServer'[i] = ToServer[i]
          \/ i \notin DOMAIN ToServer /\ ToServer'[i].msgId \in nextCall..nextCall' - 1
  BY <1>1, <1>2, <1>3, <1>4
<1>6. \A i \in DOMAIN ToServer' : ToServer'[i].msgId \in 1..nextCall' - 1
  BY <1>1, <1>5 DEF InTurn
<1>7. ASSUME NEW i \in DOMAIN ToServer', NEW j \in DOMAIN ToServer', i < j
      PROVE  ToServer'[i].msgId < ToServer'[j].msgId
  <2>1. CASE j \in DOMAIN ToServer
    <3>1. i \in DOMAIN ToServer
      BY <1>2, <1>3, <1>4, <1>7, <2>1
    <3> QED
      BY <1>2, <1>7, <2>1, <3>1 DEF InTurn
  <2>2. CASE j \notin DOMAIN ToServer /\ i \in DOMAIN ToServer
    BY <1>1, <1>2, <1>5, <2>2 DEF InTurn
  <2>3. CASE j \notin DOMAIN ToServer /\ i \notin DOMAIN ToServer
    BY <1>1, <1>3, <1>4, <1>7, <2>3
  <2> QED
    BY <2>1, <2>2, <2>3
<1>8. ASSUME NEW i \in DOMAIN ToClient', Answer(ToClient'[i])
      PROVE  /\ ToClient'[i].reply_to \in 1..nextCall' - 1
             /\ \A j \in DOMAIN ToServer' : ToClient'[i].reply_to < ToServer'[j].msgId
  <2>1. /\ ToClient'[i].reply_to \in 1..nextCall - 1
        /\ \A j \in DOMAIN ToServer : ToClient'[i].reply_to < ToServer[j].msgId
    BY <1>1, <1>8 DEF InTurn
  <2> QED
    BY <1>1, <1>5, <2>1
<1>9. \A i, j \in DOMAIN ToClient' :
          i < j /\ Answer(ToClient'[i]) /\ Answer(ToClient'[j]) =>
              ToClient'[i].reply_to < ToClient'[j].reply_to
  BY <1>1 DEF InTurn
<1> QED
  BY <1>6, <1>7, <1>8, <1>9 DEF InTurn

\* Who was waited for still is.
LEMMA TurnAwaits ==
    ASSUME NEW d, NEW r, NEW sent, Turn(d, r, sent), InTurn,
           Requested, Awaited, Asks(sent)
    PROVE  Requested' /\ Awaited'
<1>1. /\ d \in {0, 1} /\ (d = 1 => 1 \in DOMAIN ToClient)
      /\ r = IF d = 1 /\ Answer(ToClient[1]) THEN ToClient[1].reply_to ELSE 0
      /\ \A i \in DOMAIN ToClient' :
             i \in Nat \ {0} /\ i + d \in DOMAIN ToClient /\ ToClient'[i] = ToClient[i + d]
  BY DEF Turn, Takes
<1>2. \A i \in DOMAIN ToServer' :
          \/ i \in DOMAIN ToServer /\ ToServer'[i] = ToServer[i]
          \/ \E k \in DOMAIN sent : ToServer'[i] = sent[k]
  BY DEF Turn, Longer, Keeps
<1>3. ASSUME NEW m, Requests(m), m.msgId \in 1..nextCall - 1, m.msgId # r
      PROVE  Requests(m)'
  BY <1>3 DEF Turn, Forgets, Requests, Waits
<1>4. \A i \in DOMAIN ToServer : ToServer[i].msgId \in 1..nextCall - 1
                                 /\ ToServer[i].msgId # r
  <2>1. \A i \in DOMAIN ToServer : ToServer[i].msgId \in 1..nextCall - 1
    BY DEF InTurn
  <2>2. d = 1 /\ Answer(ToClient[1]) =>
            \A i \in DOMAIN ToServer : ToClient[1].reply_to < ToServer[i].msgId
    BY <1>1 DEF InTurn
  <2> QED
    BY <1>1, <2>1, <2>2
<1>5. Requested'
  <2> SUFFICES ASSUME NEW i \in DOMAIN ToServer', NEW m, m = ToServer'[i]
               PROVE  Requests(m)'
    BY DEF Requested
  <2>1. CASE i \in DOMAIN ToServer /\ m = ToServer[i]
    BY <1>3, <1>4, <2>1 DEF Requested
  <2>2. ASSUME NEW k \in DOMAIN sent, m = sent[k] PROVE Requests(m)'
    BY <2>2 DEF Asks
  <2> QED
    BY <1>2, <2>1, <2>2
<1>6. ASSUME NEW a, Expected(a), Answer(a) => a.reply_to \in 1..nextCall - 1 /\ a.reply_to # r
      PROVE  Expected(a)'
  BY <1>6 DEF Turn, Forgets, Expected, Waits, Answer
<1>7. ASSUME NEW i \in DOMAIN ToClient', Answer(ToClient'[i])
      PROVE  ToClient'[i].reply_to \in 1..nextCall - 1 /\ ToClient'[i].reply_to # r
  <2>1. ToClient'[i].reply_to \in 1..nextCall - 1
    BY <1>1, <1>7 DEF InTurn
  <2>2. d = 1 /\ Answer(ToClient[1]) => ToClient[1].reply_to < ToClient'[i].reply_to
    <3>1. d = 1 => 1 < i + d
      BY <1>1
    <3> QED
      BY <1>1, <1>7, <3>1 DEF InTurn
  <2>3. d = 1 /\ Answer(ToClient[1]) => ToClient[1].reply_to \in 1..nextCall - 1
    BY <1>1 DEF InTurn
  <2> QED
    BY <1>1, <2>1, <2>2, <2>3
<1>8. Awaited'
  <2> SUFFICES ASSUME NEW i \in DOMAIN ToClient', NEW a, a = ToClient'[i]
               PROVE  Expected(a)'
    BY DEF Awaited
  <2>1. Expected(a)
    BY <1>1 DEF Awaited
  <2> QED
    BY <1>6, <1>7, <2>1
<1> QED
  BY <1>5, <1>8

\* Ids that are given stay so until they are taken.
LEMMA TurnGiven ==
    ASSUME NEW d, NEW r, NEW sent, Turn(d, r, sent)
    PROVE  /\ \A s : Given(s)' => Given(s)
           /\ \A s : Given(s) => Given(s)' \/ (d = 1 /\ Gives(ToClient[1], s))
           /\ \A s : Dropped(s) => Dropped(s)'
           /\ Begun => Begun'
<1>1. /\ d \in {0, 1}
      /\ \A i \in DOMAIN ToClient' : i + d \in DOMAIN ToClient /\ ToClient'[i] = ToClient[i + d]
      /\ \A i \in DOMAIN ToClient :
             /\ i \in Nat \ {0}
             /\ i <= d \/ (i - d \in DOMAIN ToClient' /\ ToClient'[i - d] = ToClient[i])
  BY DEF Turn, Takes
<1>2. \A i \in DOMAIN ToClient :
          \/ d = 1 /\ i = 1
          \/ i - d \in DOMAIN ToClient' /\ ToClient'[i - d] = ToClient[i]
  BY <1>1
<1>3. /\ \A i \in DOMAIN ToServer : i \in DOMAIN ToServer' /\ ToServer'[i] = ToServer[i]
      /\ UNCHANGED <<peer, nextSubscriptionId>>
  BY DEF Turn, Longer, Keeps
<1> QED
  BY <1>1, <1>2, <1>3 DEF Given, Dropped, Begun

\* No id is given twice.
GivenOnce ==
    \A s : \A i, j \in DOMAIN ToClient :
        Gives(ToClient[i], s) /\ Gives(ToClient[j], s) => i = j

\* An id that is taken is given no more.
LEMMA TurnGivenOnce ==
    ASSUME NEW d, NEW r, NEW sent, Turn(d, r, sent), Ids
    PROVE  /\ GivenOnce'
           /\ d = 1 => \A s : Gives(ToClient[1], s) => ~Given(s)'
<1>1. /\ d \in {0, 1} /\ (d = 1 => 1 \in DOMAIN ToClient)
      /\ \A i \in DOMAIN ToClient' :
             i \in Nat \ {0} /\ i + d \in DOMAIN ToClient /\ ToClient'[i] = ToClient[i + d]
  BY DEF Turn, Takes
<1>2. GivenOnce
  BY DEF Ids, GivenOnce
<1>3. GivenOnce'
  <2>1. ASSUME NEW s, NEW i \in DOMAIN ToClient', NEW j \in DOMAIN ToClient',
               Gives(ToClient'[i], s), Gives(ToClient'[j], s)
        PROVE  i = j
    <3>1. i + d = j + d
      BY <1>1, <1>2, <2>1 DEF GivenOnce
    <3> QED
      BY <1>1, <3>1
  <2> QED
    BY <2>1 DEF GivenOnce
<1>4. ASSUME d = 1, NEW s, Gives(ToClient[1], s), NEW i \in DOMAIN ToClient',
             Gives(ToClient'[i], s)
      PROVE  FALSE
  <2>1. i + 1 = 1
    BY <1>1, <1>2, <1>4 DEF GivenOnce
  <2> QED
    BY <1>1, <2>1
<1> QED
  BY <1>3, <1>4 DEF Given

\* An unsubscribe that was harmless stays so.
LEMMA TurnHarmless ==
    ASSUME NEW d, NEW r, NEW sent, Turn(d, r, sent),
           \A s \in DOMAIN clientSubscriptions' :
               s \in DOMAIN clientSubscriptions \/ Given(s),
           NEW i \in DOMAIN ToServer, NEW s, Harmless(i, s)
    PROVE  Harmless(i, s)'
<1>1. /\ UNCHANGED <<peer, nextSubscriptionId>>
      /\ Len(ToServer) \in Nat /\ DOMAIN ToServer = 1..Len(ToServer)
      /\ \A j \in DOMAIN ToServer : ToServer'[j] = ToServer[j]
      /\ \A j \in DOMAIN ToServer' :
             j \in DOMAIN ToServer \/ \E k \in DOMAIN sent : k \in Nat \ {0} /\ j = Len(ToServer) + k
  BY DEF Turn, Longer, Keeps
<1>2. \A j \in DOMAIN ToServer' : j <= i => j \in DOMAIN ToServer
  BY <1>1
<1> QED
  BY <1>1, <1>2, TurnGiven DEF Harmless

\* Ids the turn is not about.
LEMMA TurnIds ==
    ASSUME NEW d, NEW r, NEW sent, Turn(d, r, sent), Ids, UNCHANGED clientSubscriptions,
           \A k \in DOMAIN sent : sent[k].cmd \notin {"subscribe", "unsubscribe"},
           d = 1 => ~IsReply(ToClient[1], "subscribe")
    PROVE  Ids'
<1>1. /\ UNCHANGED <<peer, subscriptions, nextSubscriptionId>>
      /\ \A i \in DOMAIN ToServer' :
             \/ i \in DOMAIN ToServer /\ ToServer'[i] = ToServer[i]
             \/ ToServer'[i].cmd \notin {"subscribe", "unsubscribe"}
  BY DEF Turn, Longer, Keeps
<1>2. \A s : Given(s)' <=> Given(s)
  BY TurnGiven DEF Gives
<1>3. Begun' => Begun
  BY <1>1 DEF Begun
<1>4. \A s : \A i \in DOMAIN ToServer' : Drops(ToServer'[i], s) => Harmless(i, s)'
  BY <1>1, TurnHarmless DEF Drops, Ids
<1> QED
  BY <1>1, <1>2, <1>3, <1>4, TurnGiven, TurnGivenOnce DEF Ids, GivenOnce

\* A subscription is granted and becomes the client's.
LEMMA TurnAdopts ==
    ASSUME NEW r, NEW sent, Turn(1, r, sent), Ids, IsReply(ToClient[1], "subscribe"),
           NEW id, id = ToClient[1].data.subscription,
           \A k \in DOMAIN sent : FALSE,
           DOMAIN clientSubscriptions = {}, DOMAIN clientSubscriptions' = {id}
    PROVE  Ids'
<1>1. /\ UNCHANGED <<peer, subscriptions, nextSubscriptionId>> /\ 1 \in DOMAIN ToClient
      /\ \A i \in DOMAIN ToServer' : i \in DOMAIN ToServer /\ ToServer'[i] = ToServer[i]
  BY DEF Turn, Takes, Longer, Keeps
<1>2. Gives(ToClient[1], id) /\ Given(id) /\ \A s : Gives(ToClient[1], s) => s = id
  BY <1>1 DEF Given, Gives
<1>3. ~Given(id)' /\ GivenOnce'
  BY <1>2, TurnGivenOnce
<1>4. id \in DOMAIN subscriptions[peer]
  BY <1>2 DEF Ids
<1>5. \A s : \A i \in DOMAIN ToServer' : Drops(ToServer'[i], s) => Harmless(i, s)'
  BY <1>1, <1>2, TurnHarmless DEF Ids
<1> QED
  BY <1>1, <1>2, <1>3, <1>4, <1>5, TurnGiven DEF Ids, GivenOnce

\* A subscription is granted that is not wanted any more, and is given back.
LEMMA TurnReturns ==
    ASSUME NEW r, NEW sent, Turn(1, r, sent), Ids, IsReply(ToClient[1], "subscribe"),
           NEW id, id = ToClient[1].data.subscription, UNCHANGED clientSubscriptions,
           DOMAIN sent = {1}, Drops(sent[1], id),
           nextSubscriptionId[peer] \in Nat,
           DOMAIN subscriptions[peer] \subseteq 1..nextSubscriptionId[peer] - 1
    PROVE  Ids'
<1>1. /\ UNCHANGED <<peer, subscriptions, nextSubscriptionId>> /\ 1 \in DOMAIN ToClient
      /\ \A i \in DOMAIN ToServer' : \/ i \in DOMAIN ToServer /\ ToServer'[i] = ToServer[i]
                                     \/ ToServer'[i] = sent[1]
      /\ Len(ToServer) + 1 \in DOMAIN ToServer' /\ ToServer'[Len(ToServer) + 1] = sent[1]
  BY DEF Turn, Takes, Longer, Keeps
<1>2. Gives(ToClient[1], id) /\ Given(id) /\ \A s : Gives(ToClient[1], s) => s = id
  BY <1>1 DEF Given, Gives
<1>3. ~Given(id)' /\ GivenOnce'
  BY <1>2, TurnGivenOnce
<1>4. /\ id \in DOMAIN subscriptions[peer] /\ id \notin DOMAIN clientSubscriptions
      /\ id \in 1..nextSubscriptionId[peer] - 1
  BY <1>2 DEF Ids
<1>5. Dropped(id)'
  BY <1>1 DEF Dropped
<1>6. Begun' => Begun
  BY <1>1 DEF Begun, Drops
<1>7. ASSUME NEW s, NEW i \in DOMAIN ToServer', Drops(ToServer'[i], s)
      PROVE  Harmless(i, s)'
  <2>1. CASE i \in DOMAIN ToServer /\ ToServer'[i] = ToServer[i]
    BY <1>7, <2>1, TurnHarmless DEF Ids
  <2>2. CASE ToServer'[i] = sent[1]
    <3>1. s = id
      BY <1>7, <2>2 DEF Drops
    <3> QED
      BY <1>1, <1>3, <1>4, <3>1 DEF Harmless
  <2> QED
    BY <1>1, <2>1, <2>2
<1> QED
  BY <1>1, <1>2, <1>3, <1>4, <1>5, <1>6, <1>7, TurnGiven DEF Ids, GivenOnce

\* The client gives up what it has and subscribes anew.
StartsAnew(sent, last) ==
    /\ last \in Nat /\ DOMAIN sent = 1..last + 1
    /\ \A k \in 1..last : \E s \in DOMAIN clientSubscriptions : Drops(sent[k], s)
    /\ \A s \in DOMAIN clientSubscriptions : \E k \in 1..last : Drops(sent[k], s)
    /\ sent[last + 1].cmd = "subscribe"

\* The ids when the client subscribes anew: what it has is dropped first.
LEMMA TurnResubscribes ==
    ASSUME NEW d, NEW r, NEW sent, Turn(d, r, sent), Ids,
           d = 1 => ~IsReply(ToClient[1], "subscribe"),
           NEW last, StartsAnew(sent, last),
           DOMAIN clientSubscriptions' = {},
           nextSubscriptionId[peer] \in Nat \ {0},
           DOMAIN subscriptions[peer] \subseteq 1..nextSubscriptionId[peer] - 1
    PROVE  Ids'
<1>1. /\ UNCHANGED <<peer, subscriptions, nextSubscriptionId>>
      /\ Len(ToServer) \in Nat /\ DOMAIN ToServer = 1..Len(ToServer)
      /\ \A i \in DOMAIN ToServer : ToServer'[i] = ToServer[i]
      /\ \A k \in DOMAIN sent : Len(ToServer) + k \in DOMAIN ToServer'
                                /\ ToServer'[Len(ToServer) + k] = sent[k]
      /\ \A i \in DOMAIN ToServer' :
             i \in DOMAIN ToServer \/ \E k \in DOMAIN sent : i = Len(ToServer) + k
  BY DEF Turn, Takes, Longer, Keeps
<1>2. (\A s : Given(s)' <=> Given(s)) /\ GivenOnce'
  BY TurnGiven, TurnGivenOnce DEF Gives
<1>3. /\ \A k \in DOMAIN sent :
             \/ k = last + 1 /\ sent[k].cmd = "subscribe"
             \/ k \in 1..last /\ sent[k].cmd = "unsubscribe"
      /\ \A k \in DOMAIN sent : \A s :
             Drops(sent[k], s) => k <= last /\ s \in DOMAIN clientSubscriptions
      /\ last \in Nat /\ DOMAIN sent = 1..last + 1
  BY DEF StartsAnew, Drops
<1>4. \A s \in DOMAIN clientSubscriptions : Dropped(s)'
  <2>1. ASSUME NEW s \in DOMAIN clientSubscriptions
        PROVE  \E k \in DOMAIN sent : Drops(sent[k], s)
    <3>1. PICK k \in 1..last : Drops(sent[k], s)
      BY DEF StartsAnew
    <3>2. k \in DOMAIN sent
      BY <1>3
    <3> QED
      BY <3>1, <3>2
  <2> QED
    BY <1>1, <2>1 DEF Dropped
<1>5. ASSUME NEW s, NEW i \in DOMAIN ToServer', Drops(ToServer'[i], s)
      PROVE  Harmless(i, s)'
  <2>1. CASE i \in DOMAIN ToServer
    BY <1>1, <1>5, <2>1, TurnHarmless DEF Ids
  <2>2. ASSUME NEW k \in DOMAIN sent, i = Len(ToServer) + k PROVE Harmless(i, s)'
    <3>1. s \in DOMAIN clientSubscriptions /\ k <= last
      BY <1>1, <1>3, <1>5, <2>2
    <3>2. CASE Begun
      <4>1. s \in DOMAIN subscriptions[peer] /\ ~Given(s)
        BY <3>1, <3>2 DEF Ids
      <4> QED
        BY <1>1, <1>2, <4>1 DEF Harmless
    <3>3. CASE ~Begun
      <4>1. nextSubscriptionId[peer] = 1
        BY <3>3 DEF Begun
      <4>2. ASSUME NEW j \in DOMAIN ToServer', j <= i
            PROVE  ToServer'[j].cmd # "subscribe"
        <5>1. CASE j \in DOMAIN ToServer
          BY <1>1, <3>3, <5>1 DEF Begun
        <5>2. ASSUME NEW l \in DOMAIN sent, j = Len(ToServer) + l
              PROVE  ToServer'[j].cmd # "subscribe"
          <6>1. l <= last
            BY <1>1, <1>3, <2>2, <3>1, <4>2, <5>2
          <6> QED
            BY <1>1, <1>3, <5>2, <6>1
        <5> QED
          BY <1>1, <5>1, <5>2
      <4> QED
        BY <1>1, <4>1, <4>2 DEF Harmless
    <3> QED
      BY <3>2, <3>3
  <2> QED
    BY <1>1, <2>1, <2>2
<1> QED
  BY <1>1, <1>2, <1>4, <1>5, TurnGiven DEF Ids, GivenOnce

\* Who is still waited for is waited for as before.
LEMMA TurnStillWaits ==
    ASSUME NEW d, NEW r, NEW sent, Turn(d, r, sent), InTurn, Requested, Awaited
    PROVE  /\ \A i \in DOMAIN ToServer : ToServer[i].cmd = "subscribe" =>
                  /\ ToServer[i].msgId # r /\ Waits(ToServer[i].msgId, "subscribe")
                  /\ calls'[ToServer[i].msgId] = calls[ToServer[i].msgId]
           /\ \A i \in DOMAIN ToClient : IsReply(ToClient[i], "subscribe") =>
                  /\ Waits(ToClient[i].reply_to, "subscribe")
                  /\ i > d => calls'[ToClient[i].reply_to] = calls[ToClient[i].reply_to]
                  /\ d = 1 /\ i = 1 => r = ToClient[1].reply_to
<1>1. /\ d \in {0, 1} /\ (d = 1 => 1 \in DOMAIN ToClient)
      /\ r = IF d = 1 /\ Answer(ToClient[1]) THEN ToClient[1].reply_to ELSE 0
      /\ \A id \in 1..nextCall - 1 :
             id # r /\ id \in DOMAIN calls => calls'[id] = calls[id]
      /\ \A i \in DOMAIN ToClient : i \in Nat \ {0}
  BY DEF Turn, Takes, Forgets
<1>2. ASSUME NEW i \in DOMAIN ToServer, ToServer[i].cmd = "subscribe"
      PROVE  /\ ToServer[i].msgId # r /\ Waits(ToServer[i].msgId, "subscribe")
             /\ calls'[ToServer[i].msgId] = calls[ToServer[i].msgId]
  <2>1. Waits(ToServer[i].msgId, "subscribe")
    BY <1>2 DEF Requested, Requests
  <2>2. ToServer[i].msgId # r /\ ToServer[i].msgId \in 1..nextCall - 1
    BY <1>1 DEF InTurn
  <2> QED
    BY <1>1, <2>1, <2>2 DEF Waits
<1>3. ASSUME NEW i \in DOMAIN ToClient, IsReply(ToClient[i], "subscribe")
      PROVE  /\ Waits(ToClient[i].reply_to, "subscribe")
             /\ i > d => calls'[ToClient[i].reply_to] = calls[ToClient[i].reply_to]
             /\ d = 1 /\ i = 1 => r = ToClient[1].reply_to
  <2>1. Waits(ToClient[i].reply_to, "subscribe")
    BY <1>3 DEF Awaited, Expected, IsReply, Answer
  <2>2. Answer(ToClient[i]) /\ ToClient[i].reply_to \in 1..nextCall - 1
    BY <1>3 DEF InTurn, Answer, IsReply
  <2>3. i > d => ToClient[i].reply_to # r
    BY <1>1, <2>2 DEF InTurn
  <2> QED
    BY <1>1, <2>1, <2>2, <2>3 DEF Waits
<1> QED
  BY <1>2, <1>3

\* A load goes on, or starts again; what has come about stays.
LEMMA TurnLoads ==
    ASSUME NEW d, NEW r, NEW sent, Turn(d, r, sent), InTurn, Requested, Awaited,
           Finding \/ Loaded,
           UNCHANGED <<clientSubscriptions, pendingSubscriptions, subscription>>,
           target' = target \/ \E k \in DOMAIN sent : sent[k].cmd = "find",
           d = 1 => ~IsReply(ToClient[1], "find"),
           d = 1 /\ IsReply(ToClient[1], "subscribe") =>
               calls[ToClient[1].reply_to].object \notin pendingSubscriptions
    PROVE  Finding' \/ Loaded'
<1>1. /\ UNCHANGED <<peer, subscriptions>> /\ d \in {0, 1}
      /\ \A i \in DOMAIN ToServer : i \in DOMAIN ToServer' /\ ToServer'[i] = ToServer[i]
      /\ \A k \in DOMAIN sent : Len(ToServer) + k \in DOMAIN ToServer'
                                /\ ToServer'[Len(ToServer) + k] = sent[k]
  BY DEF Turn, Takes, Longer, Keeps
<1>2. \A i \in DOMAIN ToClient :
          \/ d = 1 /\ i = 1
          \/ i > d /\ i - d \in DOMAIN ToClient' /\ ToClient'[i - d] = ToClient[i]
  BY DEF Turn, Takes
<1>3. ASSUME NEW k \in DOMAIN sent, sent[k].cmd = "find" PROVE Finding'
  BY <1>1, <1>3 DEF Finding
<1>4. CASE Finding
  BY <1>1, <1>2, <1>4 DEF Finding
<1>5. CASE Loaded /\ target' = target
  <2>1. ASSUME subscription \in pendingSubscriptions, NEW i \in DOMAIN ToServer,
               AskedFor(ToServer[i])
        PROVE  Loaded'
    <3>1. calls'[ToServer[i].msgId] = calls[ToServer[i].msgId]
      BY <2>1, TurnStillWaits DEF AskedFor
    <3> QED
      BY <1>1, <1>5, <2>1, <3>1 DEF Loaded, AskedFor
  <2>2. ASSUME subscription \in pendingSubscriptions, NEW i \in DOMAIN ToClient,
               GrantedBy(ToClient[i])
        PROVE  Loaded'
    <3>1. IsReply(ToClient[i], "subscribe")
          /\ calls[ToClient[i].reply_to].object \in pendingSubscriptions
      BY <2>2 DEF GrantedBy, Gives
    <3>2. i > d /\ i - d \in DOMAIN ToClient' /\ ToClient'[i - d] = ToClient[i]
      BY <1>2, <3>1
    <3>3. calls'[ToClient[i].reply_to] = calls[ToClient[i].reply_to]
      BY <3>1, <3>2, TurnStillWaits
    <3> QED
      BY <1>1, <1>5, <2>2, <3>2, <3>3 DEF Loaded, GrantedBy, Listening
  <2>3. ASSUME NEW s \in DOMAIN clientSubscriptions, Listening(s) PROVE Loaded'
    BY <1>1, <1>5, <2>3 DEF Loaded, Listening
  <2> QED
    BY <1>5, <2>1, <2>2, <2>3 DEF Loaded
<1> QED
  BY <1>3, <1>4, <1>5

\* With the answer the client waited for the load is complete.
LEMMA TurnIsLoaded ==
    ASSUME NEW r, NEW sent, Turn(1, r, sent), InTurn, Requested, Awaited, Objects,
           Ids, Finding \/ Loaded, IsReply(ToClient[1], "subscribe"),
           NEW id, id = ToClient[1].data.subscription,
           calls[ToClient[1].reply_to].object = subscription,
           DOMAIN clientSubscriptions = {}, DOMAIN clientSubscriptions' = {id},
           target' = target
    PROVE  Finding' \/ Loaded'
<1>1. /\ UNCHANGED <<peer, subscriptions>> /\ 1 \in DOMAIN ToClient
      /\ \A i \in DOMAIN ToServer : i \in DOMAIN ToServer' /\ ToServer'[i] = ToServer[i]
      /\ \A i \in DOMAIN ToClient :
             \/ i = 1
             \/ i > 1 /\ i - 1 \in DOMAIN ToClient' /\ ToClient'[i - 1] = ToClient[i]
  BY DEF Turn, Takes, Longer, Keeps
<1>2. CASE Finding
  <2>1. ~IsReply(ToClient[1], "find")
    BY DEF IsReply
  <2> QED
    BY <1>1, <1>2, <2>1 DEF Finding
<1>3. Waits(ToClient[1].reply_to, "subscribe") /\ r = ToClient[1].reply_to
  BY <1>1, TurnStillWaits
<1>4. ASSUME NEW i \in DOMAIN ToServer, AskedFor(ToServer[i]) PROVE FALSE
  <2>1. ToServer[i].msgId # r /\ Waits(ToServer[i].msgId, "subscribe")
    BY <1>4, TurnStillWaits DEF AskedFor
  <2> QED
    BY <1>3, <1>4, <2>1 DEF Objects, AskedFor, Waits
<1>5. ASSUME NEW i \in DOMAIN ToClient, GrantedBy(ToClient[i]) PROVE Loaded'
  <2>1. PICK s : /\ Gives(ToClient[i], s) /\ Listening(s)
                 /\ calls[ToClient[i].reply_to].object = subscription
    BY <1>5 DEF GrantedBy
  <2>2. Waits(ToClient[i].reply_to, "subscribe")
    BY <2>1, TurnStillWaits DEF Gives
  <2>3. ToClient[i].reply_to = ToClient[1].reply_to
    BY <1>3, <2>1, <2>2 DEF Objects, Waits
  <2>4. i = 1
    <3>1. Answer(ToClient[i]) /\ Answer(ToClient[1])
      BY <2>1 DEF Gives, IsReply, Answer
    <3>2. i > 1 => ToClient[1].reply_to < ToClient[i].reply_to
      BY <1>1, <3>1 DEF InTurn
    <3>3. ToClient[1].reply_to \in Int
      BY <1>1, <3>1 DEF InTurn
    <3> QED
      BY <1>1, <2>3, <3>2, <3>3
  <2>5. s = id
    BY <2>1, <2>4 DEF Gives
  <2>6. Listening(id)'
    BY <1>1, <2>1, <2>5 DEF Listening
  <2> QED
    BY <2>6 DEF Loaded
<1> QED
  BY <1>2, <1>4, <1>5 DEF Loaded

\* The load goes on with a subscription.
LEMMA TurnAsks ==
    ASSUME NEW d, NEW r, NEW sent, Turn(d, r, sent), NEW k \in DOMAIN sent,
           AskedFor(sent[k])', subscription' \in pendingSubscriptions'
    PROVE  Loaded'
<1>1. Len(ToServer) + k \in DOMAIN ToServer' /\ ToServer'[Len(ToServer) + k] = sent[k]
  BY DEF Turn, Longer
<1> QED
  BY <1>1 DEF Loaded, AskedFor

-----------------------------------------------------------------------------
(* What any step of the client does. *)

\* A step at which the client reads nothing.
LEMMA NothingTaken ==
    ASSUME ServerSide, peer \in Connection, UNCHANGED <<peer, outbox>>
    PROVE  Takes(0, 0)
<1>1. IsSeq(ToClient) /\ ToClient' = ToClient
  BY DEF ServerSide, ServerEnd, ToClient
<1>2. \A i \in DOMAIN ToClient : i \in Nat \ {0}
  BY <1>1 DEF IsSeq
<1> QED
  BY <1>1, <1>2 DEF Takes

\* The answer, if m is one, is that to call r.
Ends(m, r) == r = IF Answer(m) THEN m.reply_to ELSE 0

\* A step at which it reads one message.
LEMMA OneTaken ==
    ASSUME ServerSide, peer \in Connection, peer' = peer, Taken, ToClient # <<>>,
           NEW r, Ends(Head(ToClient), r)
    PROVE  Takes(1, r) /\ Head(ToClient) = ToClient[1] /\ 1 \in DOMAIN ToClient
<1>1. IsSeq(ToClient) /\ ToClient' = Tail(ToClient)
  BY DEF ServerSide, ServerEnd, ToClient, Taken
<1>2. Rest(ToClient, ToClient') /\ Head(ToClient) = ToClient[1]
  BY <1>1, TailIsRest
<1>3. \A i \in DOMAIN ToClient : i \in Nat \ {0} /\ (i = 1 => i <= 1)
  BY <1>2 DEF Rest
<1> QED
  BY <1>2, <1>3 DEF Rest, Takes, Ends

\* Its calls when it has sent `msgs'; call r is answered.
Calls(msgs, contexts, r) ==
    /\ DOMAIN calls' = {nextCall + k - 1 : k \in {i \in DOMAIN msgs : contexts[i] # NoCall}}
                       \cup {id \in DOMAIN calls : id # r}
    /\ \A id \in DOMAIN calls' :
           calls'[id] = IF id >= nextCall THEN contexts[id - nextCall + 1]
                                          ELSE calls[id]

\* What Post() does, with or without an answer to call r.
LEMMA PostMeans ==
    ASSUME ServerSide, ClientSide, NEW msgs, IsSeq(msgs), NEW contexts, NEW r,
           \/ Post(msgs, contexts, calls) /\ r = 0
           \/ Post(msgs, contexts, Without(r))
    PROVE  Sends(msgs) /\ Calls(msgs, contexts, r)
<1>1. /\ peer \in Connection /\ 0 \notin DOMAIN calls
      /\ nextCall \in Nat /\ DOMAIN calls \subseteq 1..nextCall - 1
  BY DEF ClientSide
<1>2. PICK others : /\ Post(msgs, contexts, others)
                    /\ DOMAIN others = {id \in DOMAIN calls : id # r}
                    /\ \A id \in DOMAIN others : others[id] = calls[id]
  <2>1. CASE Post(msgs, contexts, calls) /\ r = 0
    BY <1>1, <2>1
  <2>2. CASE Post(msgs, contexts, Without(r))
    <3>1. /\ DOMAIN Without(r) = {id \in DOMAIN calls : id # r}
          /\ \A id \in DOMAIN Without(r) : Without(r)[id] = calls[id]
      BY DEF Without, Restrict
    <3> QED
      BY <2>2, <3>1
  <2> QED
    BY <2>1, <2>2
<1>3. /\ Sends(msgs)
      /\ DOMAIN calls' = {nextCall + k - 1 : k \in {i \in DOMAIN msgs :
                                                        contexts[i] # NoCall}}
                         \cup DOMAIN others
      /\ \A id \in DOMAIN calls' :
             calls'[id] = IF id >= nextCall THEN contexts[id - nextCall + 1]
                                            ELSE others[id]
  BY <1>1, <1>2, PostSends
<1>4. ASSUME NEW id \in DOMAIN calls', ~(id >= nextCall) PROVE id \in DOMAIN others
  <2>1. \A k \in DOMAIN msgs : nextCall + k - 1 >= nextCall
    BY <1>1 DEF IsSeq
  <2> QED
    BY <1>3, <1>4, <2>1
<1> QED
  BY <1>2, <1>3, <1>4 DEF Calls

\* Only call r is forgotten.
LEMMA CallsForget ==
    ASSUME ClientSide, NEW msgs, IsSeq(msgs), NEW contexts, NEW r,
           Calls(msgs, contexts, r)
    PROVE  Forgets(r)
<1>1. nextCall \in Nat /\ \A k \in DOMAIN msgs : nextCall + k - 1 >= nextCall
  BY DEF ClientSide, IsSeq
<1> QED
  BY <1>1 DEF Calls, Forgets

\* In a session what the client sends makes a turn.
LEMMA SendsTurn ==
    ASSUME ServerSide, ClientSide, link[peer] = "open", NEW msgs, IsSeq(msgs),
           Sends(msgs), NEW d, NEW r, Takes(d, r), Forgets(r),
           UNCHANGED <<peer, change, authenticated, subscriptions, nextSubscriptionId>>
    PROVE  \E sent : /\ Turn(d, r, sent) /\ DOMAIN sent = DOMAIN msgs
                     /\ \A k \in DOMAIN msgs : Stamps(msgs[k], sent[k], nextCall + k - 1)
<1>1. PICK sent : /\ Longer(ToServer, inbox'[peer], sent) /\ DOMAIN sent = DOMAIN msgs
                  /\ \A k \in DOMAIN msgs : Stamps(msgs[k], sent[k], nextCall + k - 1)
  BY DEF Sends
<1>2. /\ nextCall \in Nat \ {0} /\ nextCall' = nextCall + Len(msgs)
      /\ Len(msgs) \in Nat /\ DOMAIN msgs = 1..Len(msgs)
  BY DEF Sends, ClientSide, IsSeq
<1>3. \A k \in DOMAIN sent :
          sent[k].msgId = nextCall + k - 1 /\ nextCall + k - 1 < nextCall'
  BY <1>1, <1>2 DEF Stamps
<1>4. nextCall' \in Nat /\ nextCall <= nextCall'
  BY <1>2
<1>5. ToServer' = inbox'[peer]
  BY DEF ToServer
<1> QED
  BY <1>1, <1>2, <1>3, <1>4, <1>5 DEF Turn

\* Neither does it send anything, nor forget a call.
LEMMA NothingSent ==
    ASSUME ServerSide, ClientSide, UNCHANGED <<inbox, nextCall, calls>>
    PROVE  Sends(<<>>) /\ \A r : r \notin DOMAIN calls => Forgets(r)
<1>1. /\ inbox = [d \in Connection |-> inbox[d]] /\ IsSeq(ToServer)
      /\ nextCall \in Nat /\ inbox' = inbox
  BY DEF ServerSide, ServerEnd, ClientSide, ToServer
<1> DEFINE none == <<>>
<1>2. IsSeq(none) /\ Len(none) = 0 /\ \A k \in DOMAIN none : FALSE
  BY ShortSequences
<1> HIDE DEF none
<1>3. IsSeq(ToServer) => Longer(ToServer, ToServer, none)
  BY <1>2 DEF Longer, Keeps, IsSeq
<1>4. Longer(ToServer, inbox'[peer], none)
  BY <1>1, <1>3 DEF ToServer
<1>5. nextCall' = nextCall + Len(none)
  BY <1>1, <1>2
<1>6. \E sent : /\ Longer(ToServer, inbox'[peer], sent) /\ DOMAIN sent = DOMAIN none
                /\ \A k \in DOMAIN none : Stamps(none[k], sent[k], nextCall + k - 1)
  BY <1>2, <1>4
<1>7. Sends(none)
  BY <1>1, <1>5, <1>6 DEF Sends
<1> QED
  BY <1>7 DEF Forgets, none

\* The server's end of the other connections is as it was.
LEMMA ServerSideStays ==
    ASSUME ServerSide, peer \in Connection, NEW msgs, Sends(msgs),
           UNCHANGED <<vars, link, session>>,
           outbox' = outbox \/ (Taken /\ ToClient # <<>>)
    PROVE  ServerSide'
<1>1. /\ UNCHANGED <<phase, link, authenticated, subscriptions, nextSubscriptionId>>
      /\ inbox' = [d \in Connection |-> inbox'[d]]
  BY DEF vars, session, Sends
<1>2. /\ outbox' = [d \in Connection |-> outbox'[d]]
      /\ \A d \in Connection : d # peer => outbox'[d] = outbox[d]
      /\ \/ outbox'[peer] = outbox[peer]
         \/ outbox'[peer] = Tail(outbox[peer]) /\ ToClient # <<>>
  BY DEF Taken, ServerSide
<1>3. ASSUME NEW d \in Connection PROVE ServerEnd(d)'
  <2>1. ServerEnd(d)
    BY DEF ServerSide
  <2>2. IsSeq(outbox'[d])
    <3>1. outbox[peer] # <<>> => IsSeq(Tail(outbox[peer]))
      BY TailIsRest DEF Rest, ServerSide, ServerEnd
    <3> QED
      BY <1>2, <2>1, <3>1 DEF ServerEnd, ToClient
  <2>3. IsSeq(inbox'[d])
    BY <2>1 DEF ServerEnd, Sends, Longer
  <2>4. link[d] # "open" => inbox'[d] = <<>> /\ outbox'[d] = <<>>
    <3>1. link[peer] # "open" => ToClient = <<>>
      BY DEF ServerSide, ServerEnd, ToClient
    <3> QED
      BY <1>2, <2>1, <3>1 DEF ServerEnd, Sends
  <2> QED
    BY <1>1, <2>1, <2>2, <2>3, <2>4 DEF ServerEnd
<1> QED
  BY <1>1, <1>2, <1>3 DEF ServerSide

\* No call about a subscription comes up.
LEMMA ObjectsStay ==
    ASSUME Objects, ClientSide, nextSubscription' = nextSubscription,
           \A id \in DOMAIN calls' : \/ id \in DOMAIN calls /\ calls'[id] = calls[id]
                                     \/ calls'[id].kind # "subscribe"
    PROVE  Objects'
BY DEF Objects

-----------------------------------------------------------------------------
(* The user. *)

\* Each message to its own callback.
Suits(m, context) ==
    /\ "cmd" \in DOMAIN m
    /\ \/ m.cmd = "find" /\ context.kind = "find"
       \/ m.cmd \in {"update", "delete"} /\ context.kind = "undo"
       \/ m.cmd = "create" /\ context = NoCall

\* The user sends message m.
LEMMA UserPosts ==
    ASSUME SubscriptionInv, isConnected, NEW m, NEW context, Suits(m, context),
           Post(<<m>>, <<context>>, calls), target' = target \/ m.cmd = "find",
           UNCHANGED <<vars, link, session, outbox, socketVars, subscriptionVars,
                       subscription>>
    PROVE  SubscriptionInv'
<1> DEFINE msgs == <<m>>
           contexts == <<context>>
<1>1. /\ IsSeq(msgs) /\ DOMAIN msgs = {1} /\ msgs[1] = m /\ Len(msgs) = 1
      /\ contexts[1] = context
  BY ShortSequences
<1>2. /\ ServerSide /\ ClientSide /\ Objects /\ letIn
      /\ peer \in Connection /\ nextCall \in Nat \ {0}
      /\ DOMAIN calls \subseteq 1..nextCall - 1
  BY DEF SubscriptionInv, ClientSide
<1>3. Post(msgs, contexts, calls)
  OBVIOUS
<1> HIDE DEF msgs, contexts
<1>4. Sends(msgs) /\ Calls(msgs, contexts, 0)
  BY <1>1, <1>2, <1>3, PostMeans
<1>5. /\ UNCHANGED <<change, phase, link, authenticated, subscriptions,
                     nextSubscriptionId, socket, peer, letIn, isConnected,
                     pendingSubscriptions, clientSubscriptions, nextSubscription>>
  BY DEF vars, session, socketVars, subscriptionVars
<1>6. nextCall' = nextCall + 1
  BY <1>1, <1>4 DEF Sends
<1>7. /\ DOMAIN calls' = DOMAIN calls \cup (IF context # NoCall THEN {nextCall} ELSE {})
      /\ \A id \in DOMAIN calls : calls'[id] = calls[id]
      /\ context # NoCall => calls'[nextCall] = context
  <2>1. {k \in DOMAIN msgs : contexts[k] # NoCall} = IF context # NoCall THEN {1} ELSE {}
    BY <1>1
  <2>2. {id \in DOMAIN calls : id # 0} = DOMAIN calls
    BY <1>2
  <2>3. /\ DOMAIN calls' = {nextCall + k - 1 : k \in (IF context # NoCall THEN {1} ELSE {})}
                           \cup DOMAIN calls
        /\ \A id \in DOMAIN calls' : calls'[id] = IF id >= nextCall
                                                  THEN contexts[id - nextCall + 1]
                                                  ELSE calls[id]
    BY <1>4, <2>1, <2>2 DEF Calls
  <2>4. nextCall + 1 - 1 = nextCall /\ nextCall - nextCall + 1 = 1
    BY <1>2
  <2>5. \A id \in DOMAIN calls : ~(id >= nextCall)
    BY <1>2
  <2>6. DOMAIN calls' = DOMAIN calls \cup (IF context # NoCall THEN {nextCall} ELSE {})
    BY <1>2, <2>3, <2>4
  <2> QED
    BY <1>1, <1>2, <2>3, <2>4, <2>5, <2>6
<1>8. ServerSide'
  BY <1>2, <1>4, ServerSideStays
<1>9. ClientSide'
  BY <1>2, <1>5, <1>6, <1>7 DEF ClientSide
<1>10. Objects'
  <2>1. context # NoCall => context.kind # "subscribe"
    BY DEF Suits
  <2> QED
    BY <1>2, <1>5, <1>7, <2>1, ObjectsStay
<1>11. CASE ~InSession
  BY <1>5, <1>8, <1>9, <1>10, <1>11 DEF SubscriptionInv, InSession
<1>12. CASE InSession
  <2>1. InTurn /\ Linked /\ link[peer] = "open"
    BY <1>2, <1>12 DEF SubscriptionInv, Protocol, InSession
  <2>2. Takes(0, 0) /\ Forgets(0)
    BY <1>1, <1>2, <1>4, <1>5, NothingTaken, CallsForget
  <2>3. PICK sent : /\ Turn(0, 0, sent) /\ DOMAIN sent = DOMAIN msgs
                    /\ \A k \in DOMAIN msgs : Stamps(msgs[k], sent[k], nextCall + k - 1)
    BY <1>1, <1>2, <1>4, <1>5, <2>1, <2>2, SendsTurn
  <2>4. DOMAIN sent = {1} /\ sent[1].cmd = m.cmd /\ sent[1].msgId = nextCall
    BY <1>1, <1>2, <2>3 DEF Stamps, Suits
  <2>5. Asks(sent)
    <3>1. context # NoCall => /\ nextCall \in DOMAIN calls'
                              /\ calls'[nextCall].kind = context.kind
      BY <1>7
    <3> QED
      BY <1>2, <1>7, <2>4 DEF Asks, Requests, Suits, NoCall, Waits
  <2>6. InTurn' /\ Requested' /\ Awaited'
    BY <2>1, <2>3, <2>5, TurnInTurn, TurnAwaits DEF Linked
  <2>7. Ids'
    BY <1>5, <2>1, <2>3, <2>4, TurnIds DEF Linked, Suits
  <2>8. Finding' \/ Loaded'
    BY <1>5, <2>1, <2>3, <2>4, TurnLoads DEF Linked
  <2>9. Linked'
    BY <1>5, <2>1, <2>6, <2>7, <2>8 DEF Linked
  <2> QED
    BY <1>2, <1>5, <1>8, <1>9, <1>10, <2>6, <2>9 DEF SubscriptionInv, Protocol
<1> QED
  BY <1>11, <1>12

\* While the client is not let in its target does not matter.
LEMMA TargetBeforeSession ==
    ASSUME SubscriptionInv, ~isConnected,
           UNCHANGED <<vars, link, session, inbox, outbox, socketVars,
                       dispatchVars, subscription>>
    PROVE  SubscriptionInv'
<1>1. UNCHANGED <<change, phase, link, authenticated, subscriptions,
                  nextSubscriptionId, inbox, outbox, socket, peer, letIn, isConnected,
                  nextCall, calls, pendingSubscriptions, clientSubscriptions,
                  nextSubscription, subscription>>
  BY DEF vars, session, socketVars, dispatchVars, subscriptionVars
<1>2. ServerSide' /\ ClientSide' /\ Objects'
  BY <1>1 DEF SubscriptionInv, ServerSide, ServerEnd, ClientSide, Objects
<1>3. InSession' => ~letIn' /\ InSession /\ ~letIn
  BY <1>1 DEF SubscriptionInv, ClientSide, InSession
<1>4. InTurn' <=> InTurn
  BY <1>1 DEF InTurn, ToServer, ToClient
<1>5. Greeting' <=> Greeting
  BY <1>1 DEF Greeting, ToServer, ToClient, Waits
<1> QED
  BY <1>2, <1>3, <1>4, <1>5 DEF SubscriptionInv, Protocol

\* Whatever the user does.
LEMMA UserStep == SubscriptionInv /\ UserActs => SubscriptionInv'
<1> SUFFICES ASSUME SubscriptionInv, UserActs PROVE SubscriptionInv'
  OBVIOUS
<1>1. UNCHANGED <<vars, link, session, outbox, socketVars, subscriptionVars>>
  BY DEF UserActs
<1>2. ASSUME NEW action, NEW q, ReloadFor(action, q), UNCHANGED subscription,
             target' = target \/ target' = q
      PROVE  SubscriptionInv'
  <2>1. CASE UserMay(action)
    <3>1. Suits(FindMessage(q), [kind |-> "find"]) /\ FindMessage(q).cmd = "find"
      BY DEF Suits, FindMessage
    <3>2. isConnected
      BY <2>1 DEF UserMay
    <3>3. Post(<<FindMessage(q)>>, <<[kind |-> "find"]>>, calls)
      BY <1>2, <3>2 DEF ReloadFor
    <3> QED
      BY <1>1, <1>2, <3>1, <3>2, <3>3, UserPosts
  <2>2. CASE ~UserMay(action)
    <3>1. ~isConnected /\ UNCHANGED <<inbox, nextCall, calls>>
      BY <1>2, <2>2 DEF ReloadFor
    <3> QED
      BY <1>1, <1>2, <3>1, TargetBeforeSession DEF dispatchVars
  <2> QED
    BY <2>1, <2>2
<1>3. CASE Reload
  BY <1>2, <1>3 DEF Reload
<1>4. ASSUME NEW q, SetTarget(q) PROVE SubscriptionInv'
  BY <1>2, <1>4 DEF SetTarget
<1>5. ASSUME NEW k, NEW f, NEW value, SetData(k, f, value) PROVE SubscriptionInv'
  <2> DEFINE m == [cmd |-> "update", key |-> k, values |-> [g \in {f} |-> value]]
             context == [kind |-> "undo", record |-> shown[k]]
  <2>1. Suits(m, context)
    BY DEF Suits
  <2>2. /\ isConnected /\ UNCHANGED <<target, subscription>>
        /\ Post(<<m>>, <<context>>, calls)
    BY <1>5 DEF SetData, UserMay
  <2> HIDE DEF m, context
  <2> QED
    BY <1>1, <2>1, <2>2, UserPosts
<1>6. ASSUME NEW k, RemoveRow(k) PROVE SubscriptionInv'
  <2> DEFINE m == [cmd |-> "delete", key |-> k]
             context == [kind |-> "undo", record |-> shown[k]]
  <2>1. Suits(m, context)
    BY DEF Suits
  <2>2. /\ isConnected /\ UNCHANGED <<target, subscription>>
        /\ Post(<<m>>, <<context>>, calls)
    BY <1>6 DEF RemoveRow, UserMay
  <2> HIDE DEF m, context
  <2> QED
    BY <1>1, <2>1, <2>2, UserPosts
<1>7. CASE Add
  <2> DEFINE m == [cmd |-> "create", table |-> target.table, values |-> Blank]
  <2>1. Suits(m, NoCall)
    BY DEF Suits
  <2>2. /\ isConnected /\ UNCHANGED <<target, subscription>>
        /\ Post(<<m>>, <<NoCall>>, calls)
    BY <1>7 DEF Add, UserMay, rowVars
  <2> HIDE DEF m
  <2> QED
    BY <1>1, <2>1, <2>2, UserPosts
<1> QED
  BY <1>3, <1>4, <1>5, <1>6, <1>7 DEF UserActs, User

-----------------------------------------------------------------------------
(* The client receives message m. *)

Receiving(m, r) ==
    /\ SubscriptionInv /\ socket = "connected" /\ ToClient # <<>>
    /\ m = Head(ToClient) /\ Ends(m, r) /\ Taken
    /\ UNCHANGED <<vars, link, session>>

\* What is known when message m is read.
LEMMA ReceivingMeans ==
    ASSUME NEW m, NEW r, Receiving(m, r)
    PROVE  /\ ServerSide /\ ClientSide /\ Objects /\ InSession /\ Protocol
           /\ peer \in Connection /\ link[peer] = "open"
           /\ UNCHANGED <<change, phase, link, authenticated, subscriptions,
                          nextSubscriptionId>>
           /\ peer' = peer => Takes(1, r)
           /\ 1 \in DOMAIN ToClient /\ m = ToClient[1]
           /\ 0 \notin DOMAIN calls
           /\ nextCall \in Nat \ {0} /\ DOMAIN calls \subseteq 1..nextCall - 1
           /\ nextSubscriptionId[peer] \in Nat \ {0}
           /\ DOMAIN subscriptions[peer] \subseteq 1..nextSubscriptionId[peer] - 1
<1>1. ServerSide /\ ClientSide /\ Objects /\ peer \in Connection
  BY DEF Receiving, SubscriptionInv, ClientSide
<1>2. link[peer] = "open" /\ IsSeq(ToClient)
  BY <1>1 DEF Receiving, ServerSide, ServerEnd, ToClient
<1>3. InSession /\ Protocol
  BY <1>2 DEF Receiving, SubscriptionInv, InSession
<1>4. 1 \in DOMAIN ToClient /\ m = ToClient[1]
  BY <1>2, TailIsRest DEF Receiving, Rest
<1>5. peer' = peer => Takes(1, r)
  BY <1>1, OneTaken DEF Receiving
<1> QED
  BY <1>1, <1>2, <1>3, <1>4, <1>5
  DEF Receiving, vars, session, ClientSide, ServerSide, ServerEnd

\* Before the client is let in it receives the answer it waits for only.
LEMMA GreetedFirst ==
    ASSUME NEW m, NEW r, Receiving(m, r)
    PROVE  IF letIn THEN InTurn /\ Linked /\ Expected(m)
                    ELSE /\ InTurn /\ Greeting /\ ToServer = <<>>
                         /\ DOMAIN ToClient = {1}
                         /\ Answer(m) /\ Waits(m.reply_to, "authenticate")
                         /\ m.cmd = "reply" => authenticated[peer] /\ change # {}
<1>1. Protocol /\ 1 \in DOMAIN ToClient /\ m = ToClient[1]
  BY ReceivingMeans
<1>2. DOMAIN <<>> = {}
  OBVIOUS
<1> QED
  BY <1>1, <1>2 DEF Protocol, Linked, Awaited, Greeting

\* What the model does in turn, when it sends nothing and the message is about
\* no subscription.
LEMMA QuietTurn ==
    ASSUME NEW m, NEW r, Receiving(m, r), letIn, Sends(<<>>), Forgets(r),
           ~IsReply(m, "find"), ~IsReply(m, "subscribe"),
           UNCHANGED <<socketVars, subscriptionVars, target, subscription>>,
           ClientSide', Objects'
    PROVE  SubscriptionInv'
<1> DEFINE none == <<>>
<1>1. IsSeq(none) /\ DOMAIN none = {}
  BY ShortSequences
<1>2. Sends(none)
  OBVIOUS
<1> HIDE DEF none
<1>3. UNCHANGED <<socket, peer, letIn, isConnected, pendingSubscriptions,
                  clientSubscriptions, nextSubscription>>
  BY DEF socketVars, subscriptionVars
<1>4. /\ ServerSide /\ ClientSide /\ InTurn /\ Linked /\ InSession
      /\ link[peer] = "open" /\ Takes(1, r) /\ m = ToClient[1]
      /\ UNCHANGED <<change, link, authenticated, subscriptions, nextSubscriptionId>>
  BY <1>3, ReceivingMeans, GreetedFirst
<1>5. PICK sent : Turn(1, r, sent) /\ DOMAIN sent = DOMAIN none
  BY <1>1, <1>2, <1>3, <1>4, SendsTurn
<1>6. Asks(sent) /\ \A k \in DOMAIN sent : FALSE
  BY <1>1, <1>5 DEF Asks
<1>7. InTurn' /\ Requested' /\ Awaited'
  BY <1>4, <1>5, <1>6, TurnInTurn, TurnAwaits DEF Linked
<1>8. Ids'
  BY <1>3, <1>4, <1>5, <1>6, TurnIds DEF Linked
<1>9. Finding' \/ Loaded'
  BY <1>3, <1>4, <1>5, TurnLoads DEF Linked
<1>10. Linked'
  BY <1>3, <1>4, <1>7, <1>8, <1>9 DEF Linked
<1>11. ServerSide'
  BY <1>2, <1>4, ServerSideStays, ReceivingMeans DEF Receiving
<1> QED
  BY <1>3, <1>4, <1>7, <1>10, <1>11 DEF SubscriptionInv, Protocol, InSession

\* Pushes, and answers nobody waits for.
LEMMA OtherReceived ==
    ASSUME NEW m, NEW r, Receiving(m, r), OnPush(m) \/ OnIgnored(m)
    PROVE  SubscriptionInv'
<1>1. /\ UNCHANGED <<inbox, dispatchVars, socketVars, target, subscription>>
      /\ m.cmd = "changes" \/ m.reply_to \notin DOMAIN calls
  BY DEF OnPush, OnIgnored, Listen, rowVars
<1>2. UNCHANGED <<nextCall, calls, pendingSubscriptions, clientSubscriptions,
                  nextSubscription, subscriptionVars, peer, socket, letIn, isConnected>>
  BY <1>1 DEF dispatchVars, subscriptionVars, socketVars
<1>3. ServerSide /\ ClientSide /\ Objects /\ 0 \notin DOMAIN calls
  BY ReceivingMeans
<1>4. letIn /\ Expected(m)
  BY <1>1, GreetedFirst DEF Answer, Waits
<1>5. ~IsReply(m, "find") /\ ~IsReply(m, "subscribe")
  BY <1>1, <1>4 DEF Expected, IsReply, Answer, Waits
<1>6. r \notin DOMAIN calls
  BY <1>1, <1>3 DEF Receiving, Ends, Answer
<1>7. Sends(<<>>) /\ Forgets(r)
  BY <1>1, <1>2, <1>3, <1>6, NothingSent
<1>8. ClientSide' /\ Objects'
  BY <1>1, <1>2, <1>3 DEF ClientSide, Objects
<1> QED
  BY <1>1, <1>2, <1>4, <1>5, <1>7, <1>8, QuietTurn

\* The answer to call r, to which the client has sent `msgs'.
LEMMA CallEnds ==
    ASSUME NEW m, NEW r, Receiving(m, r), NEW kind, Answers(m, kind),
           NEW msgs, IsSeq(msgs), NEW contexts, Post(msgs, contexts, Without(m.reply_to))
    PROVE  /\ r = m.reply_to /\ Waits(m.reply_to, kind)
           /\ Sends(msgs) /\ Calls(msgs, contexts, r) /\ Forgets(r)
<1>1. r = m.reply_to /\ Waits(m.reply_to, kind)
  BY DEF Receiving, Ends, Answer, Answers, Waits
<1>2. Sends(msgs) /\ Calls(msgs, contexts, r)
  BY <1>1, ReceivingMeans, PostMeans
<1> QED
  BY <1>1, <1>2, ReceivingMeans, CallsForget

\* It is a call less when nothing is sent.
LEMMA CallLess ==
    ASSUME ClientSide, NEW contexts, NEW r, Sends(<<>>), Calls(<<>>, contexts, r)
    PROVE  /\ nextCall' = nextCall
           /\ DOMAIN calls' = {id \in DOMAIN calls : id # r}
           /\ \A id \in DOMAIN calls' : calls'[id] = calls[id]
<1> DEFINE none == <<>>
<1>1. DOMAIN none = {} /\ Len(none) = 0
  OBVIOUS
<1>2. Sends(none) /\ Calls(none, contexts, r)
  OBVIOUS
<1> HIDE DEF none
<1>3. nextCall \in Nat /\ DOMAIN calls \subseteq 1..nextCall - 1
  BY DEF ClientSide
<1>4. nextCall' = nextCall
  BY <1>1, <1>2, <1>3 DEF Sends
<1>5. DOMAIN calls' = {id \in DOMAIN calls : id # r}
  BY <1>1, <1>2 DEF Calls
<1>6. \A id \in DOMAIN calls' : calls'[id] = calls[id]
  BY <1>2, <1>3, <1>5 DEF Calls
<1> QED
  BY <1>4, <1>5, <1>6

\* The answer to an update or a delete.
LEMMA WrittenReceived ==
    ASSUME NEW m, NEW r, Receiving(m, r), OnWritten(m)
    PROVE  SubscriptionInv'
<1>1. /\ Answers(m, "undo") /\ Post(<<>>, <<>>, Without(m.reply_to))
      /\ UNCHANGED <<target, subscription, socketVars, subscriptionVars>>
  BY DEF OnWritten
<1>2. /\ Waits(m.reply_to, "undo") /\ Sends(<<>>) /\ Calls(<<>>, <<>>, r) /\ Forgets(r)
  BY <1>1, ShortSequences, CallEnds
<1>3. ServerSide /\ ClientSide /\ Objects
  BY ReceivingMeans
<1>4. letIn /\ Expected(m)
  BY <1>2, GreetedFirst DEF Waits
<1>5. ~IsReply(m, "find") /\ ~IsReply(m, "subscribe")
  BY <1>2, <1>4 DEF Expected, IsReply, Answer, Waits
<1>6. /\ nextCall' = nextCall
      /\ DOMAIN calls' \subseteq DOMAIN calls
      /\ \A id \in DOMAIN calls' : calls'[id] = calls[id]
      /\ UNCHANGED <<pendingSubscriptions, clientSubscriptions, nextSubscription,
                     peer, socket, letIn, isConnected>>
  BY <1>1, <1>2, <1>3, CallLess DEF subscriptionVars, socketVars
<1>7. ClientSide'
  BY <1>1, <1>3, <1>6 DEF ClientSide
<1>8. Objects'
  BY <1>3, <1>6, ObjectsStay
<1> QED
  BY <1>1, <1>2, <1>4, <1>5, <1>7, <1>8, QuietTurn

\* The answer to subscribe.
LEMMA SubscribedReceived ==
    ASSUME NEW m, NEW r, Receiving(m, r), OnSubscribed(m)
    PROVE  SubscriptionInv'
<1>0. PICK object, id : object = calls[m.reply_to].object /\ id = m.data.subscription
  OBVIOUS
<1>1. /\ Answers(m, "subscribe")
      /\ UNCHANGED <<target, subscription, socketVars, nextSubscription>>
  BY DEF OnSubscribed, Registered, Listen
<1>2. UNCHANGED <<peer, socket, letIn, isConnected>>
  BY <1>1 DEF socketVars
<1>3. /\ ServerSide /\ ClientSide /\ Objects /\ InSession /\ link[peer] = "open"
      /\ UNCHANGED <<change, link, authenticated, subscriptions, nextSubscriptionId>>
      /\ Takes(1, r) /\ 1 \in DOMAIN ToClient /\ m = ToClient[1]
      /\ nextCall \in Nat \ {0} /\ DOMAIN calls \subseteq 1..nextCall - 1
      /\ nextSubscriptionId[peer] \in Nat \ {0}
      /\ DOMAIN subscriptions[peer] \subseteq 1..nextSubscriptionId[peer] - 1
  BY <1>2, ReceivingMeans
<1>4. letIn /\ InTurn /\ Linked /\ Expected(m)
  BY <1>1, GreetedFirst DEF Waits, Answers
<1>5. IsReply(m, "subscribe")
  BY <1>1, <1>4 DEF Expected, Answers, Answer, Waits
<1>6. CASE object \in pendingSubscriptions
  <2> DEFINE none == <<>>
  <2>1. /\ clientSubscriptions' = With(clientSubscriptions, id, object)
        /\ pendingSubscriptions' = pendingSubscriptions \ {object}
        /\ Post(<<>>, <<>>, Without(m.reply_to))
    BY <1>0, <1>6 DEF OnSubscribed, Registered
  <2>2. /\ r = m.reply_to /\ Sends(<<>>) /\ Calls(<<>>, <<>>, r) /\ Forgets(r)
    BY <1>1, <2>1, ShortSequences, CallEnds
  <2>3. object = subscription /\ DOMAIN clientSubscriptions = {}
        /\ pendingSubscriptions = {subscription}
    BY <1>3, <1>6 DEF ClientSide
  <2>4. /\ DOMAIN clientSubscriptions' = {id} /\ clientSubscriptions'[id] = subscription
        /\ pendingSubscriptions' = {}
    BY <2>1, <2>3 DEF With
  <2>5. /\ nextCall' = nextCall /\ DOMAIN calls' \subseteq DOMAIN calls
        /\ \A c \in DOMAIN calls' : calls'[c] = calls[c]
    BY <1>3, <2>2, CallLess
  <2>6. ClientSide'
    BY <1>1, <1>2, <1>3, <2>4, <2>5 DEF ClientSide
  <2>7. Objects'
    BY <1>1, <1>3, <2>5, ObjectsStay
  <2>8. ServerSide'
    BY <1>3, <2>2, ServerSideStays, ReceivingMeans DEF Receiving
  <2>9. IsSeq(none) /\ DOMAIN none = {}
    BY ShortSequences
  <2>10. Sends(none)
    BY <2>2
  <2> HIDE DEF none
  <2>11. PICK sent : Turn(1, r, sent) /\ DOMAIN sent = DOMAIN none
    BY <1>2, <1>3, <2>2, <2>9, <2>10, SendsTurn
  <2>12. Asks(sent) /\ \A k \in DOMAIN sent : FALSE
    BY <2>9, <2>11 DEF Asks
  <2>13. InTurn' /\ Requested' /\ Awaited'
    BY <1>4, <2>11, <2>12, TurnInTurn, TurnAwaits DEF Linked
  <2>14. Ids'
    BY <1>0, <1>3, <1>4, <1>5, <2>3, <2>4, <2>11, <2>12, TurnAdopts DEF Linked
  <2>15. Finding' \/ Loaded'
    BY <1>0, <1>1, <1>3, <1>4, <1>5, <2>3, <2>4, <2>11, TurnIsLoaded DEF Linked
  <2>16. Linked'
    BY <1>2, <1>3, <1>4, <2>13, <2>14, <2>15 DEF Linked
  <2> QED
    BY <1>2, <1>4, <2>6, <2>7, <2>8, <2>13, <2>16 DEF SubscriptionInv, Protocol
<1>7. CASE object \notin pendingSubscriptions
  <2> DEFINE drop == [cmd |-> "unsubscribe", subscription |-> id]
             msgs == <<drop>>
             contexts == <<NoCall>>
  <2>1. Post(msgs, contexts, Without(m.reply_to))
        /\ UNCHANGED <<clientSubscriptions, pendingSubscriptions>>
    BY <1>0, <1>7 DEF OnSubscribed, Registered
  <2>2. /\ IsSeq(msgs) /\ DOMAIN msgs = {1} /\ Len(msgs) = 1 /\ msgs[1] = drop
        /\ contexts[1] = NoCall
        /\ "cmd" \in DOMAIN drop /\ drop.cmd = "unsubscribe"
        /\ "subscription" \in DOMAIN drop /\ drop.subscription = id
    BY ShortSequences
  <2> HIDE DEF drop, msgs, contexts
  <2>3. /\ r = m.reply_to /\ Sends(msgs) /\ Calls(msgs, contexts, r) /\ Forgets(r)
    BY <1>1, <2>1, <2>2, CallEnds
  <2>4. /\ nextCall' = nextCall + 1 /\ DOMAIN calls' = {c \in DOMAIN calls : c # r}
        /\ \A c \in DOMAIN calls' : calls'[c] = calls[c]
    <3>1. {k \in DOMAIN msgs : contexts[k] # NoCall} = {}
      BY <2>2
    <3>2. DOMAIN calls' = {c \in DOMAIN calls : c # r}
      BY <2>3, <3>1 DEF Calls
    <3>3. \A c \in DOMAIN calls' : ~(c >= nextCall)
      BY <1>3, <3>2
    <3>4. \A c \in DOMAIN calls' : calls'[c] = calls[c]
      BY <2>3, <3>3 DEF Calls
    <3> QED
      BY <1>3, <2>2, <2>3, <3>2, <3>4 DEF Sends
  <2>5. ClientSide'
    BY <1>1, <1>2, <1>3, <2>1, <2>4 DEF ClientSide
  <2>6. Objects'
    BY <1>1, <1>3, <2>4, ObjectsStay
  <2>7. ServerSide'
    BY <1>3, <2>3, ServerSideStays, ReceivingMeans DEF Receiving
  <2>8. PICK sent : /\ Turn(1, r, sent) /\ DOMAIN sent = DOMAIN msgs
                    /\ \A k \in DOMAIN msgs : Stamps(msgs[k], sent[k], nextCall + k - 1)
    BY <1>2, <1>3, <2>2, <2>3, SendsTurn
  <2>9. DOMAIN sent = {1} /\ Drops(sent[1], id) /\ sent[1].msgId = nextCall
    BY <1>3, <2>2, <2>8 DEF Stamps, Drops
  <2>10. Asks(sent)
    <3>1. nextCall \notin DOMAIN calls'
      BY <1>3, <2>4
    <3> QED
      BY <2>9, <3>1 DEF Asks, Requests, Drops
  <2>11. InTurn' /\ Requested' /\ Awaited'
    BY <1>4, <2>8, <2>10, TurnInTurn, TurnAwaits DEF Linked
  <2>12. Ids'
    BY <1>0, <1>3, <1>4, <1>5, <2>1, <2>8, <2>9, TurnReturns DEF Linked
  <2>13. Finding' \/ Loaded'
    <3>1. ~IsReply(m, "find")
      BY <1>5 DEF IsReply
    <3> QED
      BY <1>0, <1>1, <1>3, <1>4, <1>7, <2>1, <2>8, <3>1, TurnLoads DEF Linked
  <2>14. Linked'
    BY <1>2, <1>3, <1>4, <2>11, <2>12, <2>13 DEF Linked
  <2> QED
    BY <1>2, <1>4, <2>5, <2>6, <2>7, <2>11, <2>14 DEF SubscriptionInv, Protocol
<1> QED
  BY <1>6, <1>7

\* A sequence with one element behind it.
LEMMA AppendedOne ==
    ASSUME NEW s, IsSeq(s), NEW x
    PROVE  /\ IsSeq(Append(s, x)) /\ Len(s) \in Nat /\ DOMAIN s = 1..Len(s)
           /\ Len(Append(s, x)) = Len(s) + 1 /\ DOMAIN Append(s, x) = 1..Len(s) + 1
           /\ \A k \in 1..Len(s) : Append(s, x)[k] = s[k]
           /\ Append(s, x)[Len(s) + 1] = x
<1> DEFINE R == Range(s) \cup {x}
           z == Append(s, x)
<1>1. s \in Seq(R) /\ x \in R
  BY DEF IsSeq
<1>2. s \in Seq(Range(s))
  BY DEF IsSeq
<1> HIDE DEF R
<1>3. /\ z \in Seq(R) /\ Len(s) \in Nat /\ DOMAIN s = 1..Len(s)
      /\ Len(z) = Len(s) + 1 /\ DOMAIN z = 1..Len(s) + 1
      /\ \A k \in 1..Len(s) : z[k] = s[k]
      /\ z[Len(s) + 1] = x
  BY <1>1
<1>4. IsSeq(z)
  <2> DEFINE T == Range(z)
  <2>1. \A k \in DOMAIN z : z[k] \in T
    BY DEF Range
  <2> HIDE DEF z, T
  <2>2. z \in Seq(T)
    BY <1>3, <2>1
  <2> QED
    BY <2>2 DEF IsSeq, T
<1> QED
  BY <1>3, <1>4

\* What a function on 1..n lists.
LEMMA ListsAre ==
    ASSUME NEW n \in Nat, NEW S, NEW f \in [1..n -> S]
    PROVE  IsSeq(f) /\ Len(f) = n
<1> DEFINE T == Range(f)
<1>1. \A k \in 1..n : f[k] \in T
  BY DEF Range
<1>2. f = [k \in 1..n |-> f[k]]
  OBVIOUS
<1> HIDE DEF T
<1>3. f \in Seq(T)
  BY <1>1, <1>2
<1> QED
  BY <1>3 DEF IsSeq, T

DropOf(s) == [cmd |-> "unsubscribe", subscription |-> s]

\* The messages from the first to the last unsubscribe all the client has.
DropAll(msgs, last) ==
    /\ \A k \in 1..last : \E s \in DOMAIN clientSubscriptions : msgs[k] = DropOf(s)
    /\ \A s \in DOMAIN clientSubscriptions : \E k \in 1..last : msgs[k] = DropOf(s)

\* The last of the messages, which is waited for, asks for a new subscription.
AskAnew(msgs, contexts, last, query, from) ==
    /\ IsSeq(msgs) /\ last \in Nat /\ DOMAIN msgs = 1..last + 1 /\ Len(msgs) = last + 1
    /\ DropAll(msgs, last) /\ \A k \in 1..last : contexts[k] = NoCall
    /\ msgs[last + 1] = [cmd |-> "subscribe", query |-> query, from |-> from]
    /\ contexts[last + 1] = [kind |-> "subscribe", object |-> nextSubscription]

\* Deleting m_subscription unsubscribes all the client has.
LEMMA AllUnsubscribed ==
    ASSUME ClientSide
    PROVE  /\ IdsOf(subscription) = DOMAIN clientSubscriptions
           /\ \E gone : /\ gone = Unsubscribes(subscription) /\ IsSeq(gone)
                        /\ DropAll(gone, Len(gone))
<1> DEFINE S == IdsOf(subscription)
           ids == SetToSeq(S)
           n == Cardinality(S)
           gone == [i \in DOMAIN ids |-> DropOf(ids[i])]
<1>1. S = DOMAIN clientSubscriptions
  BY DEF ClientSide, IdsOf
<1>2. IsFiniteSet(S)
  <2>1. CASE S = {}
    BY <2>1, FS_EmptySet
  <2>2. ASSUME NEW s \in S PROVE IsFiniteSet(S)
    <3>1. S = {s}
      BY <1>1, <2>2 DEF ClientSide
    <3> HIDE DEF S
    <3> QED
      BY <3>1, FS_Singleton
  <2> QED
    BY <2>1, <2>2
<1> HIDE DEF S
<1>3. /\ ids \in [1..n -> S] /\ n \in Nat
      /\ \A x \in S : \E i \in 1..n : ids[i] = x
  BY <1>2, Listed
<1> HIDE DEF ids, n
<1>4. gone \in [1..n -> {DropOf(s) : s \in S}]
  BY <1>3
<1>5. IsSeq(gone) /\ Len(gone) = n /\ \A i \in 1..n : gone[i] = DropOf(ids[i])
  BY <1>3, <1>4, ListsAre
<1>6. Unsubscribes(subscription) = gone
  BY DEF Unsubscribes, ids, S, DropOf
<1> HIDE DEF gone
<1>7. /\ \A k \in 1..n : \E s \in S : gone[k] = DropOf(s)
      /\ \A s \in S : \E k \in 1..n : gone[k] = DropOf(s)
  BY <1>3, <1>5
<1>8. DropAll(gone, Len(gone))
  BY <1>1, <1>5, <1>7 DEF DropAll
<1> QED
  BY <1>1, <1>5, <1>6, <1>8 DEF S

\* What subscribe() sends after m_subscription was deleted, and what of it is
\* waited for.
LEMMA ResubscribeMeans ==
    ASSUME ClientSide, NEW query, NEW from, NEW others,
           Resubscribe(subscription, <<>>, query, from, others)
    PROVE  \E msgs, contexts, last :
               Post(msgs, contexts, others) /\ AskAnew(msgs, contexts, last, query, from)
<1> DEFINE gone == Unsubscribes(subscription)
           ask == [cmd |-> "subscribe", query |-> query, from |-> from]
           wait == [kind |-> "subscribe", object |-> nextSubscription]
           none == [i \in DOMAIN gone |-> NoCall]
           last == Len(gone)
           msgs == Append(gone, ask)
           contexts == Append(none, wait)
<1>1. IsSeq(gone) /\ DropAll(gone, last)
  BY AllUnsubscribed
<1>2. last \in Nat /\ DOMAIN gone = 1..last
  BY <1>1 DEF IsSeq
<1>3. Post(Append(<<>> \o gone, ask), Append([i \in DOMAIN (<<>> \o gone) |-> NoCall], wait),
           others)
  BY DEF Resubscribe
<1>4. <<>> \o gone = gone
  <2> HIDE DEF gone
  <2> QED
    BY <1>1 DEF IsSeq
<1>5. Post(msgs, contexts, others)
  BY <1>3, <1>4
<1> HIDE DEF gone, ask, wait
<1>6. none \in [1..last -> {NoCall}]
  BY <1>2
<1>7. IsSeq(none) /\ Len(none) = last /\ \A k \in 1..last : none[k] = NoCall
  BY <1>2, <1>6, ListsAre
<1> HIDE DEF none
<1>8. /\ IsSeq(msgs) /\ DOMAIN msgs = 1..last + 1 /\ Len(msgs) = last + 1
      /\ \A k \in 1..last : msgs[k] = gone[k]
      /\ msgs[last + 1] = ask
  BY <1>1, AppendedOne
<1>9. /\ \A k \in 1..last : contexts[k] = none[k]
      /\ contexts[last + 1] = wait
  BY <1>7, AppendedOne
<1> HIDE DEF msgs, contexts, last
<1>10. DropAll(msgs, last)
  BY <1>1, <1>8 DEF DropAll
<1>11. AskAnew(msgs, contexts, last, query, from)
  BY <1>2, <1>7, <1>8, <1>9, <1>10 DEF AskAnew, ask, wait
<1> QED
  BY <1>5, <1>11

\* The answer to find.
LEMMA FoundReceived ==
    ASSUME NEW m, NEW r, Receiving(m, r), OnFound(m)
    PROVE  SubscriptionInv'
<1> DEFINE from == LatestRevision(m.data.records)
<1>1. /\ Answers(m, "find") /\ UNCHANGED <<target, socketVars>>
      /\ subscription' = nextSubscription
      /\ Resubscribe(subscription, <<>>, target, from, Without(m.reply_to))
  BY DEF OnFound
<1> HIDE DEF from
<1>2. UNCHANGED <<peer, socket, letIn, isConnected>>
  BY <1>1 DEF socketVars
<1>3. /\ ServerSide /\ ClientSide /\ Objects /\ InSession /\ link[peer] = "open"
      /\ UNCHANGED <<change, link, authenticated, subscriptions, nextSubscriptionId>>
      /\ Takes(1, r) /\ 1 \in DOMAIN ToClient /\ m = ToClient[1]
      /\ nextCall \in Nat \ {0} /\ DOMAIN calls \subseteq 1..nextCall - 1
      /\ nextSubscriptionId[peer] \in Nat \ {0}
      /\ DOMAIN subscriptions[peer] \subseteq 1..nextSubscriptionId[peer] - 1
      /\ nextSubscription \in Nat \ {0}
  BY <1>2, ReceivingMeans DEF ClientSide
<1>4. letIn /\ InTurn /\ Linked /\ Expected(m)
  BY <1>1, GreetedFirst DEF Waits, Answers
<1>5. IsReply(m, "find")
  BY <1>1, <1>4 DEF Expected, Answers, Answer, Waits
<1>6. PICK msgs, contexts, last :
          /\ Post(msgs, contexts, Without(m.reply_to))
          /\ AskAnew(msgs, contexts, last, target, from)
  BY <1>1, <1>3, ResubscribeMeans
<1>7. /\ IsSeq(msgs) /\ last \in Nat /\ DOMAIN msgs = 1..last + 1 /\ Len(msgs) = last + 1
      /\ \A k \in 1..last : contexts[k] = NoCall
      /\ contexts[last + 1] = [kind |-> "subscribe", object |-> nextSubscription]
  BY <1>6 DEF AskAnew
<1>8. r = m.reply_to /\ Sends(msgs) /\ Calls(msgs, contexts, r) /\ Forgets(r)
  BY <1>1, <1>6, <1>7, CallEnds
<1>9. /\ nextSubscription' = nextSubscription + 1
      /\ DOMAIN clientSubscriptions' = {}
      /\ pendingSubscriptions' = {nextSubscription}
  <2>1. IdsOf(subscription) = DOMAIN clientSubscriptions
    BY <1>3, AllUnsubscribed
  <2>2. pendingSubscriptions \ {subscription} = {}
    BY <1>3 DEF ClientSide
  <2> QED
    BY <1>1, <2>1, <2>2 DEF Resubscribe, Restrict
<1>10. /\ nextCall' = nextCall + last + 1
       /\ DOMAIN calls' = {nextCall + last} \cup {id \in DOMAIN calls : id # r}
       /\ calls'[nextCall + last].kind = "subscribe"
       /\ calls'[nextCall + last].object = nextSubscription
       /\ \A id \in DOMAIN calls' : id \in DOMAIN calls => calls'[id] = calls[id]
  <2>1. {k \in DOMAIN msgs : contexts[k] # NoCall} = {last + 1}
    <3>1. contexts[last + 1].kind = "subscribe" /\ NoCall.kind = "none"
      BY <1>7 DEF NoCall
    <3>2. contexts[last + 1] # NoCall
      BY <3>1
    <3> QED
      BY <1>7, <3>2
  <2>2. {nextCall + k - 1 : k \in {last + 1}} = {nextCall + last}
    BY <1>3, <1>7
  <2>3. DOMAIN calls' = {nextCall + last} \cup {id \in DOMAIN calls : id # r}
    BY <1>8, <2>1, <2>2 DEF Calls
  <2>4. (nextCall + last) - nextCall + 1 = last + 1 /\ nextCall + last >= nextCall
    BY <1>3, <1>7
  <2>5. calls'[nextCall + last] = contexts[last + 1]
    BY <1>8, <2>3, <2>4 DEF Calls
  <2>6. \A id \in DOMAIN calls : ~(id >= nextCall)
    BY <1>3
  <2>7. \A id \in DOMAIN calls' : id \in DOMAIN calls => calls'[id] = calls[id]
    BY <1>8, <2>6 DEF Calls
  <2>8. nextCall' = nextCall + last + 1
    BY <1>3, <1>7, <1>8 DEF Sends
  <2> QED
    BY <1>7, <2>3, <2>5, <2>7, <2>8
<1>11. ClientSide'
  <2>1. nextCall' \in Nat \ {0} /\ DOMAIN calls' \subseteq 1..nextCall' - 1
    BY <1>3, <1>7, <1>10
  <2>2. subscription' \in 0..nextSubscription' - 1 /\ nextSubscription' \in Nat \ {0}
    BY <1>1, <1>3, <1>9
  <2> QED
    BY <1>1, <1>2, <1>3, <1>9, <2>1, <2>2 DEF ClientSide
<1>12. Objects'
  <2> DEFINE new == nextCall + last
  <2>1. /\ DOMAIN calls' = {new} \cup {id \in DOMAIN calls : id # r}
        /\ calls'[new].object = nextSubscription
        /\ \A id \in DOMAIN calls' : id \in DOMAIN calls => calls'[id] = calls[id]
    BY <1>10
  <2> HIDE DEF new
  <2>2. \A id \in DOMAIN calls' : id # new => id \in DOMAIN calls /\ calls'[id] = calls[id]
    BY <2>1
  <2>3. \A id \in DOMAIN calls' : id # new /\ calls'[id].kind = "subscribe" =>
            calls'[id].object \in 1..nextSubscription - 1
    BY <1>3, <2>2 DEF Objects
  <2>4. \A id \in DOMAIN calls' : calls'[id].kind = "subscribe" =>
            calls'[id].object \in 1..nextSubscription' - 1
    BY <1>3, <1>9, <2>1, <2>3
  <2>5. \A a, b \in DOMAIN calls' :
            /\ calls'[a].kind = "subscribe" /\ calls'[b].kind = "subscribe"
            /\ calls'[a].object = calls'[b].object
            => a = b
    <3>1. nextSubscription \notin 1..nextSubscription - 1
      BY <1>3
    <3> QED
      BY <1>3, <2>1, <2>2, <2>3, <3>1 DEF Objects
  <2> QED
    BY <2>4, <2>5 DEF Objects
<1>13. ServerSide'
  BY <1>3, <1>8, ServerSideStays, ReceivingMeans DEF Receiving
<1>14. PICK sent : /\ Turn(1, r, sent) /\ DOMAIN sent = DOMAIN msgs
                   /\ \A k \in DOMAIN msgs : Stamps(msgs[k], sent[k], nextCall + k - 1)
  BY <1>2, <1>3, <1>7, <1>8, SendsTurn
<1>15. /\ \A k \in 1..last : \E s \in DOMAIN clientSubscriptions : Drops(sent[k], s)
       /\ \A s \in DOMAIN clientSubscriptions : \E k \in 1..last : Drops(sent[k], s)
  <2>1. \A k \in 1..last : \A s : msgs[k] = DropOf(s) => Drops(sent[k], s)
    <3> SUFFICES ASSUME NEW k \in 1..last, NEW s, msgs[k] = DropOf(s)
                 PROVE  Drops(sent[k], s)
      OBVIOUS
    <3>1. k \in DOMAIN msgs
      BY <1>7
    <3>2. /\ "cmd" \in DOMAIN msgs[k] /\ msgs[k].cmd = "unsubscribe"
          /\ "subscription" \in DOMAIN msgs[k] /\ msgs[k].subscription = s
      BY DEF DropOf
    <3> QED
      BY <1>14, <3>1, <3>2 DEF Stamps, Drops
  <2> QED
    BY <1>6, <2>1 DEF AskAnew, DropAll
<1>16. /\ sent[last + 1].cmd = "subscribe" /\ sent[last + 1].query = target
       /\ sent[last + 1].msgId = nextCall + last
       /\ \A k \in 1..last : sent[k].cmd = "unsubscribe" /\ sent[k].msgId = nextCall + k - 1
  <2>1. /\ "cmd" \in DOMAIN msgs[last + 1] /\ msgs[last + 1].cmd = "subscribe"
        /\ "query" \in DOMAIN msgs[last + 1] /\ msgs[last + 1].query = target
    BY <1>6 DEF AskAnew
  <2>2. last + 1 \in DOMAIN msgs /\ nextCall + (last + 1) - 1 = nextCall + last
    BY <1>3, <1>7
  <2>3. /\ sent[last + 1].cmd = "subscribe" /\ sent[last + 1].query = target
        /\ sent[last + 1].msgId = nextCall + last
    BY <1>14, <2>1, <2>2 DEF Stamps
  <2>4. \A k \in 1..last : sent[k].cmd = "unsubscribe"
    BY <1>15 DEF Drops
  <2>5. \A k \in 1..last : k \in DOMAIN msgs
    BY <1>7
  <2> QED
    BY <1>14, <2>3, <2>4, <2>5 DEF Stamps
<1>17. StartsAnew(sent, last)
  BY <1>7, <1>14, <1>15, <1>16 DEF StartsAnew
<1>18. Asks(sent)
  <2>1. \A k \in 1..last : nextCall + k - 1 \notin DOMAIN calls'
    BY <1>3, <1>7, <1>10
  <2>2. \A k \in 1..last : Requests(sent[k])'
    BY <1>16, <2>1 DEF Requests
  <2>3. Requests(sent[last + 1])'
    BY <1>10, <1>16 DEF Requests, Waits
  <2>4. \A k \in DOMAIN sent : k \in 1..last \/ k = last + 1
    BY <1>7, <1>14
  <2> QED
    BY <2>2, <2>3, <2>4 DEF Asks
<1>19. InTurn' /\ Requested' /\ Awaited'
  BY <1>4, <1>14, <1>18, TurnInTurn, TurnAwaits DEF Linked
<1>20. Ids'
  <2>1. ~IsReply(m, "subscribe")
    BY <1>5 DEF IsReply
  <2> QED
    BY <1>3, <1>4, <1>9, <1>14, <1>17, <2>1, TurnResubscribes DEF Linked
<1>21. Loaded'
  <2> DEFINE k == last + 1
  <2>1. k \in DOMAIN sent
    BY <1>7, <1>14
  <2>2. AskedFor(sent[k])'
    BY <1>1, <1>10, <1>16 DEF AskedFor
  <2>3. subscription' \in pendingSubscriptions'
    BY <1>1, <1>9
  <2> HIDE DEF k
  <2> QED
    BY <1>14, <2>1, <2>2, <2>3, TurnAsks
<1>22. Linked'
  BY <1>2, <1>3, <1>4, <1>19, <1>20, <1>21 DEF Linked
<1> QED
  BY <1>2, <1>4, <1>11, <1>12, <1>13, <1>19, <1>22 DEF SubscriptionInv, Protocol

\* The answer to authenticate: the model asks for its rows, once and as often as
\* it was told to reload.
LEMMA AuthenticatedReceived ==
    ASSUME NEW m, NEW r, Receiving(m, r), OnConnected(m), pendingReloads \in Nat
    PROVE  SubscriptionInv'
<1> DEFINE n == 1 + pendingReloads
           msgs == [i \in 1..n |-> FindMessage(target)]
           contexts == [i \in 1..n |-> [kind |-> "find"]]
<1>1. /\ Answers(m, "authenticate") /\ OnAuthenticated(m, msgs, contexts)
      /\ UNCHANGED <<target, subscription, subscriptionVars>>
  BY DEF OnConnected, OnAuthenticated
<1>2. UNCHANGED <<pendingSubscriptions, clientSubscriptions, nextSubscription>>
  BY <1>1 DEF subscriptionVars
<1>3. /\ ServerSide /\ ClientSide /\ Objects /\ InSession /\ link[peer] = "open"
      /\ UNCHANGED <<change, link, authenticated, subscriptions, nextSubscriptionId>>
      /\ peer' = peer => Takes(1, r)
      /\ 1 \in DOMAIN ToClient /\ m = ToClient[1] /\ peer \in Connection
      /\ nextCall \in Nat \ {0} /\ DOMAIN calls \subseteq 1..nextCall - 1
      /\ DOMAIN subscriptions[peer] \subseteq 1..nextSubscriptionId[peer] - 1
  BY ReceivingMeans
<1>4. ~letIn
  <2>1. letIn => Expected(m)
    BY GreetedFirst
  <2> QED
    BY <1>1, <2>1 DEF Expected, Waits, Answer, Answers, IsReply
<1>5. /\ InTurn /\ nextSubscriptionId[peer] = 1 /\ ToServer = <<>> /\ DOMAIN ToClient = {1}
      /\ m.cmd = "reply" => authenticated[peer] /\ change # {}
  BY <1>4, GreetedFirst DEF Greeting
<1>6. n \in Nat \ {0}
  OBVIOUS
<1>7. IsSeq(msgs) /\ Len(msgs) = n /\ DOMAIN msgs = 1..n
  <2>1. msgs \in [1..n -> {FindMessage(target)}]
    OBVIOUS
  <2> HIDE DEF msgs, n
  <2> QED
    BY <1>6, <2>1, ListsAre
<1>8. \A i \in 1..n : "cmd" \in DOMAIN msgs[i] /\ msgs[i].cmd = "find"
                      /\ contexts[i] = [kind |-> "find"]
  BY DEF FindMessage
<1> HIDE DEF msgs, contexts, n
<1>9. CASE m.cmd = "error"
  <2>1. /\ Post(<<>>, <<>>, Without(m.reply_to))
        /\ UNCHANGED <<peer, letIn>> /\ socket' = "unconnected" /\ ~isConnected'
        /\ isConnected' \in BOOLEAN
    BY <1>1, <1>9 DEF OnAuthenticated, Unconnect
  <2>2. Sends(<<>>) /\ Calls(<<>>, <<>>, r)
    BY <1>1, <2>1, ShortSequences, CallEnds
  <2>3. /\ nextCall' = nextCall /\ DOMAIN calls' \subseteq DOMAIN calls
        /\ \A c \in DOMAIN calls' : calls'[c] = calls[c]
    BY <1>3, <2>2, CallLess
  <2>4. ClientSide'
    BY <1>1, <1>2, <1>3, <2>1, <2>3 DEF ClientSide
  <2>5. Objects'
    BY <1>2, <1>3, <2>3, ObjectsStay
  <2>6. ServerSide'
    BY <1>3, <2>2, ServerSideStays DEF Receiving
  <2> QED
    BY <2>1, <2>4, <2>5, <2>6 DEF SubscriptionInv, InSession
<1>10. CASE m.cmd = "reply"
  <2>1. /\ Post(msgs, contexts, Without(m.reply_to))
        /\ letIn' = TRUE /\ isConnected' = TRUE /\ UNCHANGED <<peer, socket>>
    BY <1>1, <1>10 DEF OnAuthenticated
  <2>2. r = m.reply_to /\ Sends(msgs) /\ Calls(msgs, contexts, r) /\ Forgets(r)
    BY <1>1, <1>7, <2>1, CallEnds
  <2>3. /\ nextCall' = nextCall + n
        /\ DOMAIN calls' = {nextCall + k - 1 : k \in 1..n} \cup {id \in DOMAIN calls : id # r}
        /\ \A k \in 1..n : /\ nextCall + k - 1 \in DOMAIN calls'
                           /\ calls'[nextCall + k - 1].kind = "find"
        /\ \A id \in DOMAIN calls' : \/ id \in DOMAIN calls /\ calls'[id] = calls[id]
                                     \/ calls'[id].kind # "subscribe"
    <3>1. {k \in DOMAIN msgs : contexts[k] # NoCall} = 1..n
      <4>1. \A k \in 1..n : contexts[k].kind = "find" /\ NoCall.kind = "none"
        BY <1>8 DEF NoCall
      <4> QED
        BY <1>7, <4>1
    <3>2. DOMAIN calls' = {nextCall + k - 1 : k \in 1..n}
                          \cup {id \in DOMAIN calls : id # r}
      BY <2>2, <3>1 DEF Calls
    <3>3. \A k \in 1..n : (nextCall + k - 1) - nextCall + 1 = k
                          /\ nextCall + k - 1 >= nextCall
      BY <1>3, <1>6
    <3>4. ASSUME NEW k \in 1..n
          PROVE  /\ nextCall + k - 1 \in DOMAIN calls'
                 /\ calls'[nextCall + k - 1] = [kind |-> "find"]
      <4> DEFINE id == nextCall + k - 1
      <4>1. id \in DOMAIN calls' /\ id - nextCall + 1 = k /\ id >= nextCall
        BY <3>2, <3>3
      <4> HIDE DEF id
      <4>2. calls'[id] = contexts[k]
        BY <2>2, <4>1 DEF Calls
      <4>3. calls'[id] = [kind |-> "find"]
        BY <1>8, <4>2
      <4> QED
        BY <4>1, <4>3 DEF id
    <3>5. \A id \in DOMAIN calls : ~(id >= nextCall)
      BY <1>3
    <3>6. \A id \in DOMAIN calls' : id \in DOMAIN calls => calls'[id] = calls[id]
      BY <2>2, <3>5 DEF Calls
    <3>7. nextCall' = nextCall + n
      BY <1>7, <2>2 DEF Sends
    <3>8. \A k \in 1..n : calls'[nextCall + k - 1].kind = "find"
      BY <3>4
    <3>9. ASSUME NEW id \in DOMAIN calls', id \notin DOMAIN calls
          PROVE  calls'[id].kind # "subscribe"
      <4>1. PICK k \in 1..n : id = nextCall + k - 1
        BY <3>2, <3>9
      <4> QED
        BY <3>8, <4>1
    <3> QED
      BY <3>2, <3>4, <3>6, <3>7, <3>8, <3>9
  <2>4. ClientSide'
    <3>1. nextCall' \in Nat \ {0} /\ DOMAIN calls' \subseteq 1..nextCall' - 1
      BY <1>3, <1>6, <2>3
    <3>2. isConnected' = (socket' = "connected" /\ letIn')
      BY <2>1 DEF Receiving
    <3> QED
      BY <1>1, <1>2, <1>3, <2>1, <3>1, <3>2 DEF ClientSide
  <2>5. Objects'
    BY <1>2, <1>3, <2>3, ObjectsStay
  <2>6. ServerSide'
    BY <1>3, <2>2, ServerSideStays DEF Receiving
  <2>7. PICK sent : /\ Turn(1, r, sent) /\ DOMAIN sent = DOMAIN msgs
                    /\ \A k \in DOMAIN msgs : Stamps(msgs[k], sent[k], nextCall + k - 1)
    BY <1>3, <1>7, <2>1, <2>2, SendsTurn
  <2>8. \A k \in 1..n : sent[k].cmd = "find" /\ sent[k].msgId = nextCall + k - 1
    BY <1>7, <1>8, <2>7 DEF Stamps
  <2>9. InTurn'
    BY <1>5, <2>7, TurnInTurn
  <2>10. \A i \in DOMAIN ToClient' : FALSE
    <3>1. \A i \in DOMAIN ToClient' : i \in Nat \ {0} /\ i + 1 \in {1}
      BY <1>5, <2>7 DEF Turn, Takes
    <3> QED
      BY <3>1
  <2>11. /\ \A i \in DOMAIN ToServer' : \E k \in 1..n : ToServer'[i] = sent[k]
         /\ \E i \in DOMAIN ToServer' : ToServer'[i] = sent[1]
    <3>1. DOMAIN ToServer = {} /\ DOMAIN sent = 1..n /\ 1 \in 1..n
      BY <1>5, <1>6, <1>7, <2>7
    <3> QED
      BY <2>7, <3>1 DEF Turn, Longer
  <2>12. Requested'
    <3>1. \A k \in 1..n : Requests(sent[k])'
      BY <2>3, <2>8 DEF Requests, Waits
    <3> QED
      BY <2>11, <3>1 DEF Requested
  <2>13. Awaited'
    BY <2>10 DEF Awaited
  <2>14. Finding'
    BY <1>6, <2>8, <2>11 DEF Finding
  <2>15. Ids'
    <3>1. nextSubscriptionId'[peer'] = 1 /\ DOMAIN subscriptions'[peer'] = {}
      BY <1>3, <1>5, <2>1
    <3>2. \A i \in DOMAIN ToServer' : ToServer'[i].cmd = "find"
      BY <2>8, <2>11
    <3>3. ~Begun'
      BY <3>1, <3>2 DEF Begun
    <3>4. \A s : ~Given(s)'
      BY <2>10 DEF Given
    <3>5. \A s : \A i \in DOMAIN ToServer' : ~Drops(ToServer'[i], s)
      BY <3>2 DEF Drops
    <3> QED
      BY <2>10, <3>1, <3>3, <3>4, <3>5 DEF Ids
  <2>16. Linked'
    BY <1>3, <1>5, <1>10, <2>1, <2>12, <2>13, <2>14, <2>15 DEF Linked
  <2> QED
    BY <2>1, <2>4, <2>5, <2>6, <2>9, <2>16 DEF SubscriptionInv, Protocol
<1> QED
  BY <1>1, <1>9, <1>10 DEF OnAuthenticated

\* What ClientReceives does.
LEMMA ClientStep ==
    SubscriptionInv /\ pendingReloads \in Nat /\ ClientReceives => SubscriptionInv'
<1> SUFFICES ASSUME SubscriptionInv, pendingReloads \in Nat, ClientReceives
             PROVE  SubscriptionInv'
  OBVIOUS
<1>1. PICK m \in Received :
          /\ Taken /\ UNCHANGED <<vars, link, session>>
          /\ \/ OnConnected(m) \/ OnFound(m) \/ OnSubscribed(m) \/ OnWritten(m)
             \/ OnPush(m) \/ OnIgnored(m)
  BY DEF ClientReceives, Receive
<1>2. PICK r : Ends(m, r)
  BY DEF Ends
<1>3. Receiving(m, r)
  BY <1>1, <1>2 DEF Receiving, Received, ToClient
<1> QED
  BY <1>1, <1>3, OtherReceived, WrittenReceived, SubscribedReceived, FoundReceived,
     AuthenticatedReceived

-----------------------------------------------------------------------------
(* The socket. *)

\* Between two sessions only the tables matter.
LEMMA Offline ==
    ASSUME SubscriptionInv, ServerSide', socket' # "connected", isConnected' = FALSE,
           UNCHANGED <<peer, dispatchVars, subscription>>
    PROVE  SubscriptionInv'
<1>1. UNCHANGED <<nextCall, calls, pendingSubscriptions, clientSubscriptions,
                  nextSubscription>>
  BY DEF dispatchVars, subscriptionVars
<1>2. ClientSide' /\ Objects'
  BY <1>1 DEF SubscriptionInv, ClientSide, Objects
<1> QED
  BY <1>2 DEF SubscriptionInv, InSession

\* The server's end when nothing happens there.
LEMMA ServerSideSame ==
    ASSUME ServerSide, UNCHANGED <<phase, link, session, inbox, outbox>>
    PROVE  ServerSide'
BY DEF ServerSide, ServerEnd, session

\* The bytes under way to the client are lost.
LEMMA Unread ==
    ASSUME SubscriptionInv, outbox' = [outbox EXCEPT ![peer] = <<>>],
           UNCHANGED <<vars, link, session, inbox>>
    PROVE  ServerSide'
<1>1. /\ ServerSide /\ IsSeq(<<>>)
      /\ UNCHANGED <<phase, authenticated, subscriptions, nextSubscriptionId>>
  BY ShortSequences DEF SubscriptionInv, vars, session
<1>2. /\ outbox' = [d \in Connection |-> outbox'[d]]
      /\ \A d \in Connection : outbox'[d] = outbox[d] \/ outbox'[d] = <<>>
  BY <1>1 DEF ServerSide
<1> QED
  BY <1>1, <1>2 DEF ServerSide, ServerEnd

\* A session begins.
LEMMA SessionBegins ==
    ASSUME SubscriptionInv, Established, UNCHANGED rowVars
    PROVE  SubscriptionInv'
<1>1. PICK c : c = CHOOSE d \in Connection : link[d] = "new"
  OBVIOUS
<1> DEFINE m == [cmd |-> "authenticate", pwd |-> password, msgId |-> nextCall]
           hello == <<m>>
<1>2. c \in Connection /\ link[c] = "new"
  BY <1>1 DEF Established
<1>3. /\ socket = "connecting" /\ Accepted(c)
      /\ socket' = "connected" /\ peer' = c /\ letIn' = FALSE
      /\ inbox' = [inbox EXCEPT ![c] = hello]
      /\ nextCall' = nextCall + 1
      /\ calls' = With(calls, nextCall, [kind |-> "authenticate"])
      /\ UNCHANGED <<isConnected, subscriptionVars, engineVars, phase, authenticated,
                     subscriptions, nextSubscriptionId, outbox, subscription>>
  BY <1>1 DEF Established, rowVars
<1>4. /\ IsSeq(hello) /\ DOMAIN hello = {1} /\ hello[1] = m
      /\ m.cmd = "authenticate" /\ m.msgId = nextCall
  BY ShortSequences
<1> HIDE DEF m, hello
<1>5. /\ ServerSide /\ ClientSide /\ Objects /\ nextCall \in Nat \ {0}
      /\ DOMAIN calls \subseteq 1..nextCall - 1 /\ nextCall \notin DOMAIN calls
  BY DEF SubscriptionInv, ClientSide
<1>6. /\ phase = "up" /\ link' = [link EXCEPT ![c] = "open"]
      /\ UNCHANGED <<pendingSubscriptions, clientSubscriptions, nextSubscription>>
  BY <1>3 DEF Accepted, subscriptionVars
<1>7. /\ outbox[c] = <<>> /\ nextSubscriptionId[c] = 1
  BY <1>2, <1>5 DEF ServerSide, ServerEnd
<1>8. ServerSide'
  <2>1. /\ link' = [d \in Connection |-> link'[d]]
        /\ inbox' = [d \in Connection |-> inbox'[d]]
        /\ \A d \in Connection : d # c => link'[d] = link[d] /\ inbox'[d] = inbox[d]
        /\ link'[c] = "open" /\ inbox'[c] = hello
    BY <1>2, <1>3, <1>5, <1>6 DEF ServerSide
  <2>2. ASSUME NEW d \in Connection PROVE ServerEnd(d)'
    <3>1. ServerEnd(d)
      BY <1>5 DEF ServerSide
    <3> QED
      BY <1>3, <1>4, <1>6, <2>1, <3>1 DEF ServerEnd
  <2> QED
    BY <1>3, <1>5, <2>1, <2>2 DEF ServerSide
<1>9. /\ DOMAIN calls' = DOMAIN calls \cup {nextCall}
      /\ calls'[nextCall] = [kind |-> "authenticate"]
      /\ \A id \in DOMAIN calls : calls'[id] = calls[id]
  BY <1>3, <1>5 DEF With
<1>10. ClientSide'
  <2>1. isConnected' = FALSE
    BY <1>3, <1>5 DEF ClientSide
  <2>2. nextCall' \in Nat \ {0} /\ DOMAIN calls' \subseteq 1..nextCall' - 1
    BY <1>3, <1>5, <1>9
  <2> QED
    BY <1>2, <1>3, <1>5, <1>6, <2>1, <2>2 DEF ClientSide
<1>11. Objects'
  <2>1. calls'[nextCall].kind # "subscribe"
    BY <1>9
  <2> QED
    BY <1>5, <1>6, <1>9, <2>1, ObjectsStay
<1>12. ToServer' = hello /\ ToClient' = <<>>
  BY <1>2, <1>3, <1>5, <1>7 DEF ToServer, ToClient, ServerSide
<1>13. InTurn'
  <2>1. \A i \in DOMAIN ToServer' : i = 1 /\ ToServer'[i].msgId = nextCall
    BY <1>4, <1>12
  <2>2. \A i \in DOMAIN ToClient' : FALSE
    BY <1>12
  <2>3. nextCall \in 1..nextCall' - 1
    BY <1>3, <1>5
  <2> QED
    BY <2>1, <2>2, <2>3 DEF InTurn
<1>14. Greeting'
  <2>1. nextCall \in DOMAIN calls' /\ calls'[nextCall].kind = "authenticate"
    BY <1>9
  <2>2. ToServer'[1].cmd = "authenticate" /\ ToServer'[1].msgId = nextCall
    BY <1>4, <1>12
  <2>3. nextSubscriptionId'[peer'] = 1
    BY <1>3, <1>7
  <2> QED
    BY <1>4, <1>12, <2>1, <2>2, <2>3 DEF Greeting, Waits
<1> QED
  BY <1>3, <1>8, <1>10, <1>11, <1>13, <1>14 DEF SubscriptionInv, Protocol

\* Whatever the socket does.
LEMMA SocketMoves == SubscriptionInv /\ SocketActs => SubscriptionInv'
<1> SUFFICES ASSUME SubscriptionInv, SocketActs PROVE SubscriptionInv'
  OBVIOUS
<1>1. SocketStep /\ UNCHANGED <<rowVars, subscription>>
  BY DEF SocketActs, rowVars
<1>2. ServerSide /\ ClientSide
  BY DEF SubscriptionInv
<1>3. ASSUME UNCHANGED allServerVars PROVE ServerSide'
  <2>1. UNCHANGED <<phase, link, session, inbox, outbox>>
    BY <1>3 DEF allServerVars, vars, serverVars
  <2> QED
    BY <1>2, <2>1, ServerSideSame
<1>4. ASSUME ConnectToHost, UNCHANGED <<peer, isConnected, dispatchVars, allServerVars>>
      PROVE  SubscriptionInv'
  <2>1. socket' # "connected" /\ isConnected' = FALSE
    BY <1>2, <1>4 DEF ConnectToHost, ClientSide
  <2> QED
    BY <1>1, <1>3, <1>4, <2>1, Offline
<1>5. ASSUME NEW pwd, UserConnects(pwd) PROVE SubscriptionInv'
  BY <1>4, <1>5 DEF UserConnects
<1>6. CASE ReconnectNow
  BY <1>4, <1>6 DEF ReconnectNow
<1>7. CASE NotEstablished
  <2>1. /\ socket' # "connected" /\ isConnected' = FALSE
        /\ UNCHANGED <<peer, dispatchVars, allServerVars>>
    BY <1>2, <1>7 DEF NotEstablished, ClientSide
  <2> QED
    BY <1>1, <1>3, <2>1, Offline
<1>8. CASE Lost \/ UserDisconnects
  <2>1. /\ socket' # "connected" /\ isConnected' = FALSE
        /\ outbox' = [outbox EXCEPT ![peer] = <<>>]
        /\ UNCHANGED <<peer, dispatchVars, vars, link, session, inbox>>
    BY <1>8 DEF Lost, UserDisconnects, Unconnect
  <2> QED
    BY <1>1, <2>1, Unread, Offline
<1>9. CASE Established
  BY <1>1, <1>9, SessionBegins
<1> QED
  BY <1>1, <1>5, <1>6, <1>7, <1>8, <1>9 DEF SocketStep

-----------------------------------------------------------------------------
(* The server. *)

\* The two ends when nothing happens at the client.
LEMMA ClientRests ==
    ASSUME SubscriptionInv, Idle
    PROVE  ClientSide' /\ Objects'
<1>1. UNCHANGED <<socket, peer, isConnected, letIn, nextCall, calls,
                  pendingSubscriptions, clientSubscriptions, nextSubscription,
                  target, subscription>>
  BY IdleMeans
<1> QED
  BY <1>1 DEF SubscriptionInv, ClientSide, Objects

\* The connections `gone' are closed and forgotten.
Closes(gone) ==
    /\ link' = [d \in Connection |-> IF d \in gone THEN "closed" ELSE link[d]]
    /\ authenticated' = [d \in Connection |-> d \notin gone /\ authenticated[d]]
    /\ subscriptions' = [d \in Connection |-> IF d \in gone THEN <<>> ELSE subscriptions[d]]
    /\ nextSubscriptionId' = [d \in Connection |-> IF d \in gone THEN 1
                                                   ELSE nextSubscriptionId[d]]
    /\ inbox' = [d \in Connection |-> IF d \in gone THEN <<>> ELSE inbox[d]]

\* The others are pushed what `pushed' says.
Tells(gone, pushed) ==
    outbox' = [d \in Connection |-> IF d \in gone THEN <<>> ELSE outbox[d] \o pushed[d]]

\* Changes are pushed to the connections that stay.
LEMMA OthersTold ==
    ASSUME SubscriptionInv, Idle, NEW gone, Closes(gone), NEW pushed, Pushing(pushed),
           Tells(gone, pushed), phase' = phase, change # {} => change' # {}
    PROVE  SubscriptionInv'
<1>1. /\ ServerSide /\ ClientSide /\ peer \in Connection /\ UNCHANGED <<peer, socket>>
      /\ IsSeq(<<>>) /\ DOMAIN <<>> = {}
  BY IdleMeans, ShortSequences DEF SubscriptionInv, ClientSide
<1>2. ASSUME NEW d \in Connection, d \notin gone PROVE OnlyPushed(d)
  <2>1. Grows(d, pushed[d])
    BY <1>2 DEF Grows, Tells
  <2> QED
    BY <1>1, <2>1, PushedIsTold
<1>3. \A d \in Connection \ gone : link'[d] = link[d] /\ inbox'[d] = inbox[d]
                                   /\ authenticated'[d] = authenticated[d] /\ Untouched(d)
  BY <1>1 DEF Closes, Untouched, ServerSide
<1>4. ASSUME NEW d \in Connection PROVE ServerEnd(d)'
  <2>1. CASE d \in gone
    BY <1>1, <2>1 DEF Closes, Tells, ServerEnd
  <2>2. CASE d \notin gone
    <3>1. ServerEnd(d)
      BY <1>1 DEF ServerSide
    <3>2. IsSeq(outbox'[d]) /\ (link[d] # "open" => outbox'[d] = outbox[d])
      BY <1>2, <2>2 DEF OnlyPushed
    <3> QED
      BY <1>3, <2>2, <3>1, <3>2 DEF ServerEnd, Untouched
  <2> QED
    BY <2>1, <2>2
<1>5. ServerSide'
  <2>1. /\ authenticated' \in [Connection -> BOOLEAN]
        /\ nextSubscriptionId' \in [Connection -> Nat \ {0}]
    BY <1>1 DEF Closes, ServerSide
  <2>2. /\ link' = [d \in Connection |-> link'[d]]
        /\ inbox' = [d \in Connection |-> inbox'[d]]
        /\ subscriptions' = [d \in Connection |-> subscriptions'[d]]
    BY DEF Closes
  <2>3. outbox' = [d \in Connection |-> outbox'[d]]
    <3> DEFINE z(d) == IF d \in gone THEN <<>> ELSE outbox[d] \o pushed[d]
    <3>1. outbox' = [d \in Connection |-> z(d)]
      BY DEF Tells
    <3> HIDE DEF z
    <3> QED
      BY <3>1
  <2> QED
    BY <1>4, <2>1, <2>2, <2>3 DEF ServerSide
<1>6. InSession' => InSession /\ peer \notin gone
  BY <1>1, <1>3 DEF InSession, Closes
<1>7. InSession' => Protocol'
  <2> SUFFICES ASSUME InSession' PROVE Protocol'
    OBVIOUS
  <2>1. /\ Protocol /\ OnlyPushed(peer) /\ Untouched(peer) /\ inbox'[peer] = inbox[peer]
        /\ authenticated'[peer] = authenticated[peer]
    BY <1>1, <1>2, <1>3, <1>6 DEF SubscriptionInv
  <2>2. change # {} => change' # {}
    OBVIOUS
  <2> QED
    BY <1>1, <2>1, <2>2, PushesAreHarmless
<1> QED
  BY <1>5, <1>7, ClientRests DEF SubscriptionInv

\* Another client writes.
LEMMA OthersWriteStep ==
    ASSUME SubscriptionInv, Idle, OthersWrite
    PROVE  SubscriptionInv'
<1>1. PICK ch : /\ outbox' = [d \in Connection |-> outbox[d] \o Pushes(d, ch)]
                /\ change' # {} /\ phase' = phase
  BY WritesLog DEF OthersWrite, Create, Update, Delete
<1>2. ServerSide /\ UNCHANGED <<link, authenticated, subscriptions,
                                nextSubscriptionId, inbox>>
  BY DEF OthersWrite, session, SubscriptionInv
<1>3. Closes({})
  BY <1>2 DEF Closes, ServerSide
<1> DEFINE pushed == Broadcast(ch)
<1>4. /\ Pushing(pushed)
      /\ Tells({}, pushed)
  BY <1>1, PushingNothing DEF Broadcast, Tells
<1> HIDE DEF pushed
<1> QED
  BY <1>1, <1>3, <1>4, OthersTold

\* A connection is closed.
LEMMA DisconnectStep ==
    ASSUME SubscriptionInv, Idle, NEW c \in Connection, Disconnect(c)
    PROVE  SubscriptionInv'
<1> DEFINE k == <<ClientTable, clientRecordId[c]>>
           Sent(pushed) == outbox' = [d \in Connection |->
                               IF d = c THEN <<>> ELSE outbox[d] \o pushed[d]]
<1>1. \/ Delete(k) /\ Sent(Broadcast(DeleteChange(k)))
      \/ Sent(Nothing) /\ UNCHANGED <<engineVars, phase>>
      \/ /\ \E pushed \in PushedInVain(DeleteChange(k), c) : Sent(pushed)
         /\ UNCHANGED <<engineVars, phase>>
  BY DEF Disconnect
<1> HIDE DEF k, Sent
<1>2. /\ \E pushed : Pushing(pushed) /\ Sent(pushed)
      /\ phase' = phase
      /\ change # {} => change' # {}
  <2>1. CASE Delete(k) /\ Sent(Broadcast(DeleteChange(k)))
    BY <2>1, PushingNothing, WritesLog DEF Delete
  <2>2. CASE Sent(Nothing) /\ UNCHANGED <<engineVars, phase>>
    BY <2>2, PushingNothing DEF engineVars
  <2>3. CASE /\ \E pushed \in PushedInVain(DeleteChange(k), c) : Sent(pushed)
             /\ UNCHANGED <<engineVars, phase>>
    BY <2>3, PushingInVain DEF engineVars
  <2> QED
    BY <1>1, <2>1, <2>2, <2>3
<1>3. PICK pushed : Pushing(pushed) /\ Sent(pushed)
  BY <1>2
<1>4. Closes({c})
  BY DEF Disconnect, Forgotten, Closes
<1>5. Tells({c}, pushed)
  BY <1>3 DEF Sent, Tells
<1> QED
  BY <1>2, <1>3, <1>4, <1>5, OthersTold

\* While the server is down or starts there is no session.
LEMMA RestartStep ==
    ASSUME SubscriptionInv, Idle, ServerStop \/ ServerStart
    PROVE  SubscriptionInv'
<1>1. ServerSide /\ peer \in Connection /\ peer' = peer /\ IsSeq(<<>>) /\ DOMAIN <<>> = {}
  BY IdleMeans, ShortSequences DEF SubscriptionInv, ClientSide
<1>2. CASE ServerStop
  <2> DEFINE gone == {d \in Connection : link[d] = "open"}
  <2>1. Closes(gone) /\ outbox' = Nothing
    BY <1>2 DEF ServerStop, Forgotten, Closes
  <2>2. \A d \in Connection : link'[d] # "open"
    BY <2>1 DEF Closes
  <2>3. ASSUME NEW d \in Connection PROVE ServerEnd(d)'
    <3>1. ServerEnd(d) /\ outbox'[d] = <<>>
      BY <1>1, <2>1 DEF ServerSide, Nothing
    <3>2. CASE d \in gone
      BY <1>1, <2>1, <2>2, <3>1, <3>2 DEF Closes, ServerEnd
    <3>3. CASE d \notin gone
      BY <1>1, <2>1, <2>2, <3>1, <3>3 DEF Closes, ServerEnd
    <3> QED
      BY <3>2, <3>3
  <2>4. /\ authenticated' \in [Connection -> BOOLEAN]
        /\ nextSubscriptionId' \in [Connection -> Nat \ {0}]
    BY <1>1, <2>1 DEF Closes, ServerSide
  <2>5. ServerSide'
    BY <2>1, <2>3, <2>4 DEF Closes, Nothing, ServerSide
  <2> QED
    BY <1>1, <2>2, <2>5, ClientRests DEF SubscriptionInv, InSession
<1>3. CASE ServerStart
  <2>1. phase # "up" /\ UNCHANGED <<link, authenticated, subscriptions,
                                    nextSubscriptionId, inbox, outbox>>
    BY <1>3 DEF ServerStart, PurgeClients, PurgeClientChanges, serverVars, session
  <2>2. \A d \in Connection : link[d] # "open"
    BY <1>1, <2>1 DEF ServerSide, ServerEnd
  <2>3. ServerSide'
    BY <1>1, <2>1, <2>2 DEF ServerSide, ServerEnd
  <2> QED
    BY <1>1, <2>1, <2>2, <2>3, ClientRests DEF SubscriptionInv, InSession
<1> QED
  BY <1>2, <1>3

\* The server handles a message.
LEMMA HandleStep ==
    ASSUME SubscriptionInv, Idle, NEW c \in Connection, Handle(c)
    PROVE  SubscriptionInv'
<1>1. PICK m : m = Head(inbox[c]) /\ Command(c, m)
  BY DEF Handle
<1>2. /\ ServerSide /\ ClientSide /\ peer \in Connection /\ UNCHANGED <<peer, socket>>
      /\ IsSeq(inbox[c])
  BY IdleMeans DEF SubscriptionInv, ClientSide, ServerSide, ServerEnd
<1>3. PICK pushed, a : Send(pushed, c, a) /\ Pushing(pushed) /\ Replies(c, m, a)
  BY <1>1, <1>2, CommandMeans
<1>4. Serves(c, m) /\ OnlyOf(c) /\ (change # {} => change' # {})
  BY <1>1, <1>2, CommandMeans
<1>5. /\ phase = "up" /\ link[c] = "open" /\ inbox[c] # <<>>
      /\ inbox' = [inbox EXCEPT ![c] = Tail(inbox[c])]
      /\ UNCHANGED <<phase, link>>
  BY DEF Handle
<1>6. PICK rest : rest = Tail(inbox[c])
  OBVIOUS
<1>7. Rest(inbox[c], rest) /\ m = inbox[c][1] /\ IsSeq(rest)
  BY <1>1, <1>2, <1>5, <1>6, TailIsRest DEF Rest
<1>8. /\ inbox' = [d \in Connection |-> inbox'[d]]
      /\ inbox'[c] = rest /\ \A d \in Connection \ {c} : inbox'[d] = inbox[d]
  BY <1>2, <1>5, <1>6 DEF ServerSide
<1>9. PICK n : Answered(c, a, n)
  BY <1>2, <1>3, SendIsAnswered
<1>10. \A d \in Connection \ {c} : OnlyPushed(d)
  BY <1>2, <1>3, SendIsTold
<1>11. ServerSide'
  <2>1. ASSUME NEW d \in Connection PROVE ServerEnd(d)'
    <3>1. ServerEnd(d)
      BY <1>2 DEF ServerSide
    <3>2. CASE d = c
      BY <1>4, <1>5, <1>7, <1>8, <1>9, <3>2 DEF ServerEnd, Answered, Serves
    <3>3. CASE d # c
      BY <1>4, <1>5, <1>8, <1>10, <3>1, <3>3 DEF ServerEnd, OnlyPushed, OnlyOf, Untouched
    <3> QED
      BY <3>2, <3>3
  <2>2. outbox' = [d \in Connection |-> outbox'[d]]
    <3> DEFINE z(d) == outbox[d] \o pushed[d] \o IF d = c THEN <<a>> ELSE <<>>
    <3>1. outbox' = [d \in Connection |-> z(d)]
      BY <1>3 DEF Send
    <3> HIDE DEF z
    <3> QED
      BY <3>1
  <2> QED
    BY <1>2, <1>4, <1>5, <1>8, <2>1, <2>2 DEF ServerSide, OnlyOf
<1>12. InSession' => Protocol'
  <2> SUFFICES ASSUME InSession' PROVE Protocol'
    OBVIOUS
  <2>1. Protocol
    BY <1>2, <1>5 DEF InSession, SubscriptionInv
  <2>2. CASE c = peer
    <3>1. Serving(m, a, n)
      BY <1>2, <1>3, <1>4, <1>7, <1>8, <1>9, <2>2 DEF Serving, ToServer
    <3> QED
      BY <2>1, <3>1, ServedSession
  <2>3. CASE c # peer
    <3>1. /\ OnlyPushed(peer) /\ Untouched(peer) /\ inbox'[peer] = inbox[peer]
          /\ authenticated'[peer] = authenticated[peer]
      BY <1>2, <1>4, <1>8, <1>10, <2>3 DEF OnlyOf
    <3> QED
      BY <1>2, <1>4, <2>1, <3>1, PushesAreHarmless
  <2> QED
    BY <2>2, <2>3
<1> QED
  BY <1>11, <1>12, ClientRests DEF SubscriptionInv

-----------------------------------------------------------------------------
(* Once no message is under way, all is settled. *)

\* With nothing under way, no id is given or dropped: all is settled.
LEMMA SettledSubscriptions == SubscriptionInv => OneSubscriptionLeft
<1> SUFFICES ASSUME SubscriptionInv, isConnected, link[peer] = "open",
                    ToServer = <<>>, ToClient = <<>>
             PROVE  /\ pendingSubscriptions = {}
                    /\ Range(clientSubscriptions) = {subscription}
                    /\ DOMAIN subscriptions[peer] = DOMAIN clientSubscriptions
                    /\ \A id \in DOMAIN subscriptions[peer] :
                           subscriptions[peer][id].query = target
  BY DEF OneSubscriptionLeft, Quiet, ToServer, ToClient
<1>1. ClientSide /\ InSession /\ letIn
  BY DEF SubscriptionInv, ClientSide, InSession
<1>2. Linked
  BY <1>1 DEF SubscriptionInv, Protocol
<1>3. DOMAIN ToServer = {} /\ DOMAIN ToClient = {}
  OBVIOUS
<1>4. ~Finding /\ \A s : ~Given(s) /\ ~Dropped(s)
  BY <1>3 DEF Finding, Given, Dropped
<1>5. PICK s \in DOMAIN clientSubscriptions : Listening(s)
  BY <1>2, <1>3, <1>4 DEF Linked, Loaded
<1>6. /\ pendingSubscriptions = {}
      /\ DOMAIN clientSubscriptions = {s}
      /\ clientSubscriptions[s] = subscription
  BY <1>1, <1>5 DEF ClientSide
<1>7. Range(clientSubscriptions) = {subscription}
  BY <1>6 DEF Range
<1>8. DOMAIN subscriptions[peer] = {s}
  BY <1>2, <1>4, <1>5, <1>6 DEF Linked, Ids, Listening
<1> QED
  BY <1>5, <1>6, <1>7, <1>8 DEF Listening

-----------------------------------------------------------------------------
(* Every run. *)

\* Whatever the server does.
LEMMA ServerStep ==
    SubscriptionInv /\ (ServerHandles \/ ServerActs) => SubscriptionInv'
<1> SUFFICES ASSUME SubscriptionInv, ServerHandles \/ ServerActs PROVE SubscriptionInv'
  OBVIOUS
<1>1. Idle
  BY DEF ServerHandles, ServerActs, Idle
<1>2. ASSUME NEW c \in Connection, Handle(c) PROVE SubscriptionInv'
  BY <1>1, <1>2, HandleStep
<1>3. CASE OthersWrite
  BY <1>1, <1>3, OthersWriteStep
<1>4. ASSUME NEW c \in Connection, Disconnect(c) PROVE SubscriptionInv'
  BY <1>1, <1>4, DisconnectStep
<1>5. CASE ServerStop \/ ServerStart
  BY <1>1, <1>5, RestartStep
<1> QED
  BY <1>2, <1>3, <1>4, <1>5 DEF ServerHandles, ServerActs, ServerNotices, ServerRestarts

\* The reloads that wait for the connection are counted.
LEMMA ReloadsCounted ==
    pendingReloads \in Nat /\ [ModelNext]_modelVars => pendingReloads' \in Nat
<1> SUFFICES ASSUME pendingReloads \in Nat, [ModelNext]_modelVars
             PROVE  pendingReloads' \in Nat
  OBVIOUS
<1>1. CASE UNCHANGED modelVars
  BY <1>1 DEF modelVars, rowVars
<1>2. CASE ServerHandles \/ SocketActs \/ ServerActs
  BY <1>2 DEF ServerHandles, SocketActs, ServerActs, rowVars
<1>3. ASSUME NEW m, \/ OnConnected(m) \/ OnFound(m) \/ OnSubscribed(m) \/ OnWritten(m)
                    \/ OnPush(m) \/ OnIgnored(m)
      PROVE  pendingReloads' \in Nat
  BY <1>3 DEF OnConnected, OnFound, OnSubscribed, OnWritten, OnPush, OnIgnored, Listen,
              rowVars
<1>4. CASE ClientReceives
  BY <1>3, <1>4 DEF ClientReceives, Receive
<1>5. \A action, q : ReloadFor(action, q) => pendingReloads' \in Nat
  BY DEF ReloadFor
<1>6. CASE UserActs
  <2>1. /\ Reload => pendingReloads' \in Nat
        /\ \A q : SetTarget(q) => pendingReloads' \in Nat
    BY <1>5 DEF Reload, SetTarget
  <2>2. /\ Add => pendingReloads' \in Nat
        /\ \A k, f, value : SetData(k, f, value) => pendingReloads' \in Nat
        /\ \A k : RemoveRow(k) => pendingReloads' \in Nat
    BY DEF Add, SetData, RemoveRow, rowVars
  <2> QED
    BY <1>6, <2>1, <2>2 DEF UserActs, User
<1> QED
  BY <1>1, <1>2, <1>4, <1>6 DEF ModelNext

\* Every step of the system.
LEMMA ModelStep ==
    SubscriptionInv /\ pendingReloads \in Nat /\ [ModelNext]_modelVars => SubscriptionInv'
<1> SUFFICES ASSUME SubscriptionInv, pendingReloads \in Nat, [ModelNext]_modelVars
             PROVE  SubscriptionInv'
  OBVIOUS
<1>1. CASE UNCHANGED modelVars
  <2>1. UNCHANGED <<change, phase, link, authenticated, subscriptions, nextSubscriptionId,
                    inbox, outbox, socket, peer, letIn, isConnected, nextCall, calls,
                    pendingSubscriptions, clientSubscriptions, nextSubscription, target,
                    subscription>>
    BY <1>1 DEF modelVars, allServerVars, vars, serverVars, session, socketVars,
                dispatchVars, subscriptionVars, rowVars
  <2>2. ServerSide' /\ ClientSide' /\ Objects'
    BY <2>1 DEF SubscriptionInv, ServerSide, ServerEnd, ClientSide, Objects
  <2>3. (InTurn' <=> InTurn) /\ (Greeting' <=> Greeting)
    BY <2>1 DEF InTurn, Greeting, ToServer, ToClient, Waits
  <2>4. (Requested' <=> Requested) /\ (Awaited' <=> Awaited)
    BY <2>1 DEF Requested, Requests, Awaited, Expected, ToServer, ToClient, Waits
  <2>5. \A s : (Given(s)' <=> Given(s)) /\ (Dropped(s)' <=> Dropped(s))
    BY <2>1 DEF Given, Dropped, ToServer, ToClient
  <2>6. Begun' <=> Begun
    BY <2>1 DEF Begun, ToServer
  <2>7. \A i, s : Harmless(i, s)' <=> Harmless(i, s)
    BY <2>1, <2>5 DEF Harmless, ToServer
  <2>8. Ids' <=> Ids
    BY <2>1, <2>5, <2>6, <2>7 DEF Ids, ToServer, ToClient
  <2>9. Finding' <=> Finding
    BY <2>1 DEF Finding, ToServer, ToClient
  <2>10. Loaded' <=> Loaded
    BY <2>1 DEF Loaded, AskedFor, GrantedBy, Listening, ToServer, ToClient
  <2>11. Linked' <=> Linked
    BY <2>1, <2>4, <2>8, <2>9, <2>10 DEF Linked
  <2> QED
    BY <2>1, <2>2, <2>3, <2>11 DEF SubscriptionInv, Protocol, InSession
<1> QED
  BY <1>1, ServerStep, ClientStep, UserStep, SocketMoves DEF ModelNext

\* The client starts let in and has asked for the rows of its target.
LEMMA ModelStarts == ModelInit => SubscriptionInv /\ pendingReloads \in Nat
<1> SUFFICES ASSUME ModelInit PROVE SubscriptionInv /\ pendingReloads \in Nat
  OBVIOUS
<1>1. PICK c \in Connection :
          /\ ServesFirst(c, {<<target.table, 1>>})
          /\ inbox = [Nothing EXCEPT ![c] = <<With(FindMessage(target), "msgId", 1)>>]
          /\ Connected(c)
          /\ pendingSubscriptions = {} /\ clientSubscriptions = <<>>
          /\ nextSubscription = 1
          /\ calls = <<[kind |-> "find"]>> /\ nextCall = 2
          /\ subscription = 0 /\ pendingReloads = 0
  BY DEF ModelInit
<1> DEFINE m == With(FindMessage(target), "msgId", 1)
<1>2. m.cmd = "find" /\ m.msgId = 1
  BY DEF With, FindMessage
<1> HIDE DEF m
<1>3. /\ socket = "connected" /\ peer = c /\ letIn = TRUE /\ isConnected = TRUE
  BY <1>1 DEF Connected
<1>4. /\ phase = "up"
      /\ link = [d \in Connection |-> IF d = c THEN "open" ELSE "new"]
      /\ authenticated = [d \in Connection |-> d = c]
      /\ subscriptions = [d \in Connection |-> <<>>]
      /\ nextSubscriptionId = [d \in Connection |-> 1]
      /\ outbox = [d \in Connection |-> <<>>]
      /\ change # {}
  BY <1>1 DEF ServesFirst, Nothing
<1>5. /\ inbox = [d \in Connection |-> IF d = c THEN <<m>> ELSE <<>>]
      /\ IsSeq(<<>>) /\ IsSeq(<<m>>) /\ DOMAIN <<m>> = {1} /\ <<m>>[1] = m
      /\ DOMAIN <<>> = {}
  BY <1>1, ShortSequences DEF Nothing, m
<1>6. ServerSide
  <2>1. ASSUME NEW d \in Connection PROVE ServerEnd(d)
    BY <1>4, <1>5 DEF ServerEnd
  <2> QED
    BY <1>4, <1>5, <2>1 DEF ServerSide
<1>7. DOMAIN calls = {1} /\ calls[1].kind = "find"
  BY <1>1
<1>8. ClientSide
  <2>1. DOMAIN clientSubscriptions = {} /\ pendingSubscriptions = {}
    BY <1>1, <1>5
  <2>2. nextSubscription = 1 /\ nextCall = 2 /\ subscription = 0
    BY <1>1
  <2>3. DOMAIN calls \subseteq 1..nextCall - 1 /\ subscription \in 0..nextSubscription - 1
    BY <1>7, <2>2
  <2>4. peer \in Connection /\ isConnected = (socket = "connected" /\ letIn)
    BY <1>3
  <2> QED
    BY <2>1, <2>2, <2>3, <2>4 DEF ClientSide
<1>9. Objects
  BY <1>7 DEF Objects
<1>10. DOMAIN ToServer = {1} /\ ToServer[1] = m /\ DOMAIN ToClient = {}
  BY <1>3, <1>4, <1>5 DEF ToServer, ToClient
<1>11. InTurn
  BY <1>1, <1>2, <1>10 DEF InTurn
<1>12. Requested /\ Awaited /\ Finding
  BY <1>2, <1>7, <1>10 DEF Requested, Requests, Awaited, Finding, Waits
<1>13. Ids
  <2>1. DOMAIN subscriptions[peer] = {} /\ DOMAIN clientSubscriptions = {}
    BY <1>1, <1>3, <1>4, <1>5
  <2>2. \A s : ~Given(s) /\ \A i \in DOMAIN ToServer : ~Drops(ToServer[i], s)
    BY <1>2, <1>10 DEF Given, Drops
  <2> QED
    BY <1>10, <2>1, <2>2 DEF Ids
<1>14. Linked
  BY <1>3, <1>4, <1>12, <1>13 DEF Linked
<1> QED
  BY <1>1, <1>3, <1>6, <1>8, <1>9, <1>11, <1>14 DEF SubscriptionInv, Protocol

\* Whatever the order in which reloads, changes of target, lost connections,
\* reconnections, refusals and the writes of others come about, what server and
\* client know of each other's subscriptions fits together.
THEOREM SubscriptionsFit == ModelSpec => []SubscriptionInv
<1>1. ModelInit => SubscriptionInv /\ pendingReloads \in Nat
  BY ModelStarts
<1>2. SubscriptionInv /\ pendingReloads \in Nat /\ [ModelNext]_modelVars =>
          (SubscriptionInv /\ pendingReloads \in Nat)'
  BY ModelStep, ReloadsCounted
<1> QED
  BY <1>1, <1>2, PTL DEF ModelSpec

\* Once no message is under way server and client agree on one subscription,
\* that of m_subscription for the present target (AbstractRecordModel.cpp:
\* 129-165, ServerConnection.cpp:297-330).
THEOREM SubscriptionsSettle == ModelSpec => []OneSubscriptionLeft
BY SubscriptionsFit, SettledSubscriptions, PTL

-----------------------------------------------------------------------------
(* Reconnections. *)

\* Why a queued reconnection finds the socket free: while it is queued the
\* client should be connected, so connectToServer refuses, and it is not, so
\* there is nothing to disconnect from.
ReconnectInv ==
    reconnectQueued => /\ socket = "unconnected"
                       /\ shouldBeConnected
                       /\ ~isConnected

LEMMA ReconnectInit == ModelInit => ReconnectInv
  BY DEF ModelInit, Connected, ReconnectInv

\* What the socket does, the user's menu entries included.
LEMMA SocketStepKeeps == ReconnectInv /\ SocketStep => ReconnectInv'
<1> SUFFICES ASSUME ReconnectInv, SocketStep PROVE ReconnectInv'
  OBVIOUS
<1> USE DEF ReconnectInv
<1>1. ASSUME NEW pwd \in Passwords, UserConnects(pwd) PROVE ReconnectInv'
  BY <1>1 DEF UserConnects
<1>2. CASE Established
  BY <1>2 DEF Established
<1>3. CASE NotEstablished
  BY <1>3 DEF NotEstablished
<1>4. CASE Lost
  BY <1>4 DEF Lost, Unconnect
<1>5. CASE UserDisconnects
  BY <1>5 DEF UserDisconnects, Unconnect
<1>6. CASE ReconnectNow
  BY <1>6 DEF ReconnectNow
<1> QED
  BY <1>1, <1>2, <1>3, <1>4, <1>5, <1>6 DEF SocketStep

\* A message is received only over a connected socket, for which no
\* reconnection is queued; none of the slots of a message queues one.
LEMMA ReceiveKeeps == ReconnectInv /\ Receive => ReconnectInv'
<1> SUFFICES ASSUME ReconnectInv, Receive PROVE ReconnectInv'
  OBVIOUS
<1>1. PICK m \in Received : \/ OnConnected(m) \/ OnFound(m) \/ OnSubscribed(m)
                            \/ OnWritten(m) \/ OnPush(m) \/ OnIgnored(m)
  BY DEF Receive
<1>2. ~reconnectQueued
  BY <1>1 DEF Received, ReconnectInv
<1>3. CASE OnConnected(m)
  <2>1. reconnectQueued' \in {reconnectQueued, FALSE}
    BY <1>3 DEF OnConnected, OnAuthenticated, Unconnect
  <2> QED
    BY <1>2, <2>1 DEF ReconnectInv
<1>4. CASE OnFound(m) \/ OnSubscribed(m) \/ OnWritten(m) \/ OnPush(m) \/ OnIgnored(m)
  BY <1>2, <1>4 DEF OnFound, OnSubscribed, OnWritten, OnPush, OnIgnored, Listen,
                    socketVars, ReconnectInv
<1> QED
  BY <1>1, <1>3, <1>4

\* However losses, restarts, refusals and the user's entries follow each
\* other, the queued call of connectToHost (ServerConnection.cpp:172) does not
\* throw.
THEOREM ReconnectionIsSafe == ModelSpec => []ReconnectNeverThrows
<1>1. ReconnectInv /\ [ModelNext]_modelVars => ReconnectInv'
  <2> SUFFICES ASSUME ReconnectInv, [ModelNext]_modelVars PROVE ReconnectInv'
    OBVIOUS
  <2>1. CASE ClientReceives
    BY <2>1, ReceiveKeeps DEF ClientReceives
  <2>2. CASE SocketActs
    BY <2>2, SocketStepKeeps DEF SocketActs
  <2>3. CASE ServerHandles \/ UserActs \/ ServerActs \/ UNCHANGED modelVars
    BY <2>3 DEF ServerHandles, UserActs, ServerActs, modelVars, socketVars,
                ReconnectInv
  <2> QED
    BY <2>1, <2>2, <2>3 DEF ModelNext
<1>2. ReconnectInv => ReconnectNeverThrows
  BY DEF ReconnectInv, ReconnectNeverThrows
<1> QED
  BY <1>1, <1>2, ReconnectInit, PTL DEF ModelSpec
=============================================================================
