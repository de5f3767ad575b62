-------------------------- MODULE ServerConnection --------------------------
(***************************************************************************)
(* A client's connection to the server (clientlib/ServerConnection.cpp and *)
(* Async.cpp): connecting, authenticating, reconnecting, and the dispatch  *)
(* of answers to futures and of pushes to subscriptions.  Futures, message *)
(* ids and subscriptions belong to the ServerConnection and outlive the    *)
(* socket; the server's Connection does not, so every session of the       *)
(* client is a new connection of DatabaseServer, which numbers its         *)
(* subscriptions from 1 again.                                             *)
(*                                                                         *)
(* The client has one thread and an event loop: a signal of the socket,    *)
(* with all slots and callbacks it leads to, is one action.  The states    *)
(* HostLookup and Closing, in which nothing is sent, are passed at once.   *)
(***************************************************************************)
EXTENDS DatabaseServer

CONSTANTS
    UserActions,        \* what the user does: "connect", "disconnect", ...
    Passwords,          \* the passwords users type: "right", "wrong"
    MaxPendingReloads   \* bound: reloads asked for while not connected

ASSUME ReloadsAssumption == MaxPendingReloads \in Nat
\* The records that are there when a run starts have used two revisions.
ASSUME RoomAssumption == MaxRevision >= 2

VARIABLES
    socket,                 \* "unconnected", "connecting", "connected"
    peer,                   \* the server's end of the latest connection
    shouldBeConnected,
    letIn,                  \* m_authenticated
    isConnected,
    reconnectQueued,        \* a call of connectToHost is in the event queue
    password,
    nextCall,               \* m_nextMsgId
    calls,                  \* m_futures not completed: msgId -> what the
                            \* callback needs
    pendingSubscriptions,   \* Subscribtion objects the server has not answered
    clientSubscriptions,    \* m_subscriptions: id -> Subscribtion object
    nextSubscription        \* the next Subscribtion object

socketVars == <<socket, peer, shouldBeConnected, letIn, isConnected,
                reconnectQueued, password>>
subscriptionVars == <<pendingSubscriptions, clientSubscriptions, nextSubscription>>
dispatchVars == <<nextCall, calls, subscriptionVars>>
allServerVars == <<vars, serverVars>>

-----------------------------------------------------------------------------
(* Futures.  Each message is given the next msgId; `contexts' is what the    *)
(* callbacks of the futures keep, one per message, NoCall if none is kept.   *)
(* What is sent to a server that has closed the connection is lost.          *)

NoCall == [kind |-> "none"]

Post(msgs, contexts, others) ==
    LET kept == {i \in DOMAIN msgs : contexts[i] # NoCall}
    IN  /\ inbox' = IF link[peer] # "open" THEN inbox
                    ELSE [inbox EXCEPT ![peer] = @ \o
                             [i \in DOMAIN msgs |->
                                 With(msgs[i], "msgId", nextCall + i - 1)]]
        /\ nextCall' = nextCall + Len(msgs)
        /\ calls' = [id \in {nextCall + i - 1 : i \in kept} \cup DOMAIN others |->
                        IF id >= nextCall THEN contexts[id - nextCall + 1]
                                          ELSE others[id]]

\* receivedMessage(): the callback of call `id' has run.  then() makes a future
\* hold itself, so that it stays in m_futures, but none is answered twice.
Without(id) == Restrict(calls, DOMAIN calls \ {id})

\* An answer somebody waits for.
Answers(m, kind) ==
    m.cmd # "changes" /\ m.reply_to \in DOMAIN calls /\ calls[m.reply_to].kind = kind

-----------------------------------------------------------------------------
(* Subscriptions. *)

IdsOf(object) == {id \in DOMAIN clientSubscriptions :
                     clientSubscriptions[id] = object}

\* The slot of Subscribtion::destroyed: an id that is known is unsubscribed.
Unsubscribes(object) ==
    LET ids == SetToSeq(IdsOf(object))
    IN  [i \in DOMAIN ids |-> [cmd |-> "unsubscribe", subscription |-> ids[i]]]

\* subscribe() after the object `old', 0 if there is none, was deleted.
Resubscribe(old, before, query, from, others) ==
    LET gone == before \o Unsubscribes(old)
    IN  /\ nextSubscription' = nextSubscription + 1
        /\ pendingSubscriptions' =
               (pendingSubscriptions \ {old}) \cup {nextSubscription}
        /\ clientSubscriptions' =
               Restrict(clientSubscriptions, DOMAIN clientSubscriptions \ IdsOf(old))
        /\ Post(Append(gone, [cmd |-> "subscribe", query |-> query, from |-> from]),
                Append([i \in DOMAIN gone |-> NoCall],
                       [kind |-> "subscribe", object |-> nextSubscription]),
                others)

\* Mutant of Registered: an object deleted meanwhile is not noticed.
RegisteredAnyway(m) ==
    LET object == calls[m.reply_to].object
    IN  /\ Answers(m, "subscribe")
        /\ clientSubscriptions' = With(clientSubscriptions, m.data.subscription, object)
        /\ pendingSubscriptions' = pendingSubscriptions \ {object}
        /\ Post(<<>>, <<>>, Without(m.reply_to))
        /\ UNCHANGED nextSubscription

\* The answer to subscribe, whose object may have been deleted meanwhile.
Registered(m) ==
    LET object == calls[m.reply_to].object
        id == m.data.subscription
    IN  /\ Answers(m, "subscribe")
        /\ \/ /\ object \in pendingSubscriptions
              /\ clientSubscriptions' = With(clientSubscriptions, id, object)
              /\ pendingSubscriptions' = pendingSubscriptions \ {object}
              /\ Post(<<>>, <<>>, Without(m.reply_to))
           \/ /\ object \notin pendingSubscriptions
              /\ Post(<<[cmd |-> "unsubscribe", subscription |-> id]>>,
                      <<NoCall>>, Without(m.reply_to))
              /\ UNCHANGED <<clientSubscriptions, pendingSubscriptions>>
        /\ UNCHANGED nextSubscription

\* The Subscribtion object that message m triggers, if any.  Pushes for an id
\* the client does not know (any more) are dropped.
Triggers(m) ==
    IF m.cmd = "changes"
    THEN {clientSubscriptions[id] : id \in DOMAIN clientSubscriptions \cap {m.reply_to}}
    ELSE IF Answers(m, "subscribe")
    THEN {calls[m.reply_to].object} \cap pendingSubscriptions
    ELSE {}

\* The changes of record k, and the last of some changes.
About(changes, k) == {ch \in changes : ch.record.key = k}
Latest(changes) ==
    CHOOSE ch \in changes : \A d \in changes : d.revision <= ch.revision

-----------------------------------------------------------------------------
(* The socket. *)

\* connectToHost(); it throws if the socket is in use.
ConnectToHost == socket = "unconnected" /\ socket' = "connecting"

\* Mutant of UserConnects: asks whether the client is connected, not whether
\* it should be.
UserConnectsIfIdle(pwd) ==
    /\ "connect" \in UserActions /\ ~isConnected
    /\ ConnectToHost
    /\ shouldBeConnected' = TRUE
    /\ password' = pwd
    /\ UNCHANGED <<peer, letIn, isConnected, reconnectQueued, dispatchVars,
                   allServerVars>>

\* connectToServer(), from the menu entry that is enabled while not connected.
\* It refuses, with AlreadyConnectedException, when m_shouldBeConnected.
UserConnects(pwd) ==
    /\ "connect" \in UserActions /\ ~isConnected
    /\ ~shouldBeConnected
    /\ ConnectToHost
    /\ shouldBeConnected' = TRUE
    /\ password' = pwd
    /\ UNCHANGED <<peer, letIn, isConnected, reconnectQueued, dispatchVars,
                   allServerVars>>

\* The slots of stateChanged(Connected) and connected().
Established ==
    LET c == CHOOSE d \in Connection : link[d] = "new"
    IN  /\ socket = "connecting" /\ \E d \in Connection : link[d] = "new"
        /\ Accepted(c)
        /\ socket' = "connected"
        /\ peer' = c
        /\ letIn' = FALSE
        /\ inbox' = [inbox EXCEPT ![c] = <<[cmd |-> "authenticate", pwd |-> password,
                                            msgId |-> nextCall]>>]
        /\ nextCall' = nextCall + 1
        /\ calls' = With(calls, nextCall, [kind |-> "authenticate"])
        /\ UNCHANGED <<shouldBeConnected, isConnected, reconnectQueued, password,
                       subscriptionVars, engineVars, phase, authenticated,
                       subscriptions, nextSubscriptionId, outbox, nextMsgId>>

\* The attempt fails: the previous state was not Connected, so nothing is
\* queued, and m_shouldBeConnected stays.
NotEstablished ==
    /\ socket = "connecting"
    /\ phase # "up" \/ "unreachable" \in Faults
    /\ socket' = "unconnected"
    /\ UNCHANGED <<peer, shouldBeConnected, letIn, isConnected, reconnectQueued,
                   password, dispatchVars, allServerVars>>

\* stateChanged(Unconnected) after Connected.
Unconnect(should) ==
    /\ socket' = "unconnected"
    /\ shouldBeConnected' = should
    /\ isConnected' = FALSE
    /\ reconnectQueued' = should
    /\ UNCHANGED <<peer, letIn, password>>

\* The connection breaks, or the server has closed it.
Lost ==
    /\ socket = "connected"
    /\ "lost" \in Faults \/ link[peer] = "closed"
    /\ Unconnect(shouldBeConnected)
    /\ outbox' = [outbox EXCEPT ![peer] = <<>>]
    /\ UNCHANGED <<dispatchVars, vars, link, session, inbox, nextMsgId>>

\* disconnectFromServer(), from the menu entry that is enabled while connected.
UserDisconnects ==
    /\ "disconnect" \in UserActions /\ isConnected
    /\ Unconnect(FALSE)
    /\ outbox' = [outbox EXCEPT ![peer] = <<>>]
    /\ UNCHANGED <<dispatchVars, vars, link, session, inbox, nextMsgId>>

\* The queued call of connectToHost.
ReconnectNow ==
    /\ reconnectQueued
    /\ reconnectQueued' = FALSE
    /\ ConnectToHost
    /\ UNCHANGED <<peer, shouldBeConnected, letIn, isConnected, password,
                   dispatchVars, allServerVars>>

\* The answer to authenticate.  The slots of connectedChanged(true) send
\* `msgs'.  After an error the client leaves and does not come back.
OnAuthenticated(m, msgs, contexts) ==
    /\ Answers(m, "authenticate")
    /\ \/ /\ m.cmd = "reply"
          /\ letIn' = TRUE
          /\ isConnected' = TRUE
          /\ Post(msgs, contexts, Without(m.reply_to))
          /\ UNCHANGED <<socket, peer, shouldBeConnected, reconnectQueued, password>>
       \/ /\ m.cmd = "error"
          /\ Unconnect(FALSE)
          /\ Post(<<>>, <<>>, Without(m.reply_to))
    /\ UNCHANGED subscriptionVars

\* The message received() is called with next, if there is one.
Received == IF socket = "connected" /\ outbox[peer] # <<>>
            THEN {Head(outbox[peer])} ELSE {}
Taken == outbox' = [outbox EXCEPT ![peer] = Tail(@)]

\* What the socket does by itself, or the user to it.
SocketStep ==
    \/ \E pwd \in Passwords : UserConnects(pwd)
    \/ Established \/ NotEstablished \/ Lost \/ UserDisconnects \/ ReconnectNow

-----------------------------------------------------------------------------
(* The surroundings: the server and its other clients. *)

\* The server executes a write of another client.
OthersWrite ==
    LET Pushed(ch) == outbox' = [d \in Connection |-> outbox[d] \o Pushes(d, ch)]
    IN  /\ \/ \E t \in Table \ {ClientTable}, values \in [Field -> Value] :
                  Create(t, values) /\ Pushed(CreateChange(t, values))
           \/ \E k \in Key \ ClientKey, values \in Partial :
                  Update(k, values) /\ Pushed(UpdateChange(k, values))
           \/ \E k \in Key \ ClientKey :
                  Delete(k) /\ Pushed(DeleteChange(k))
        /\ UNCHANGED <<link, session, inbox, nextMsgId>>

\* The server learns that the client is gone, or takes it for gone.
ServerNotices ==
    \E c \in Connection :
        /\ "lost" \in Faults \/ ~(socket = "connected" /\ peer = c)
        /\ Disconnect(c)

ServerRestarts == "stop" \in Faults /\ (ServerStop \/ ServerStart)

\* A server whose tables hold the records `before' and that serves one client,
\* let in at c.
ServesFirst(c, before) ==
    LET keys == before \cup {<<ClientTable, 1>>}
    IN  /\ row = [k \in Key |-> IF k \in Seed \cup keys
                                THEN [status |-> "live", values |-> Blank]
                                ELSE Absent]
        /\ change = {[revision |-> IF k[1] = ClientTable THEN 2 ELSE 1,
                      type |-> "Create", key |-> k, fields |-> {}] : k \in keys}
        /\ lastId = [t \in Table |-> IF <<t, 1>> \in Seed \cup keys THEN 1 ELSE 0]
        /\ lastRevision = 2
        /\ phase = "up"
        /\ link = [d \in Connection |-> IF d = c THEN "open" ELSE "new"]
        /\ authenticated = [d \in Connection |-> d = c]
        /\ clientRecordId = [d \in Connection |-> IF d = c THEN 1 ELSE 0]
        /\ subscriptions = [d \in Connection |-> <<>>]
        /\ nextSubscriptionId = [d \in Connection |-> 1]
        /\ outbox = Nothing
        /\ nextMsgId = [d \in Connection |-> 0]

\* The client at the start of a run: connected to c and let in.
Connected(c) ==
    /\ socket = "connected" /\ peer = c /\ password = "right"
    /\ shouldBeConnected = TRUE /\ letIn = TRUE /\ isConnected = TRUE
    /\ reconnectQueued = FALSE

-----------------------------------------------------------------------------
(* Properties. *)

\* The connection is connected, to those who ask (ServerConnection.cpp:332-339),
\* exactly when its socket is and the server has let it in; futures and
\* Subscribtion objects in the tables are ones that have been handed out.
ConnectionTypeOK ==
    /\ socket \in {"unconnected", "connecting", "connected"}
    /\ peer \in Connection
    /\ shouldBeConnected \in BOOLEAN /\ letIn \in BOOLEAN
    /\ isConnected = (socket = "connected" /\ letIn)
    /\ reconnectQueued \in BOOLEAN
    /\ DOMAIN calls \subseteq 0..nextCall - 1
    /\ pendingSubscriptions \subseteq 1..nextSubscription - 1
    /\ Range(clientSubscriptions) \subseteq 1..nextSubscription - 1

\* The queued reconnection never finds the socket in use, whatever the user
\* does while it is queued: connectToHost would throw out of the event loop
\* (ServerConnection.cpp:57, 172).
ReconnectNeverThrows == reconnectQueued => socket = "unconnected"

\* connectToServer refuses with "Already connected to server"
\* (ServerConnection.h:29, ServerConnection.cpp:229) only a client that is
\* connected or on its way.
RefusalMeansConnected ==
    shouldBeConnected => socket # "unconnected" \/ reconnectQueued
=============================================================================
