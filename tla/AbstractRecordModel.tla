------------------------- MODULE AbstractRecordModel -------------------------
(***************************************************************************)
(* A list of records in a client (clientlib/AbstractRecordModel.cpp): the   *)
(* copy of a table that its views show, on top of ServerConnection and of  *)
(* the server.  The copy is loaded with a find, whenever the client gets   *)
(* connected, and kept up to date by a subscription that starts at the     *)
(* newest revision found; edits and removals show at once and are taken    *)
(* back if the server refuses them.                                        *)
(*                                                                         *)
(* One client with one model; the other clients are present as the writes  *)
(* the server executes for them.                                           *)
(***************************************************************************)
EXTENDS ServerConnection

VARIABLES
    shown,                  \* m_rows, by key
    target,                 \* m_target, with the table
    subscription,           \* m_subscription: a Subscribtion object, 0 if null
    pendingReloads,         \* slots that reload() left on connectedChanged
    rolledBack              \* history: keys an error callback put back since
                            \* the rows were last loaded

rowVars == <<shown, target, subscription, pendingReloads, rolledBack>>
modelVars == <<allServerVars, socketVars, dispatchVars, rowVars>>

-----------------------------------------------------------------------------
(* The rows. *)

\* set(): add or replace one row.
SetRow(rs, record) == With(rs, record.key, record)
DropRow(rs, k) == Restrict(rs, DOMAIN rs \ {k})
AsRows(records) == [k \in {r.key : r \in records} |->
                        CHOOSE r \in records : r.key = k]

\* Mutant of Triggered: the first change of a record decides.
TriggeredOnce(rs, changes) ==
    LET told == {ch.record.key : ch \in changes}
        First(k) == CHOOSE ch \in About(changes, k) :
                        \A d \in About(changes, k) : ch.revision <= d.revision
        gone == {k \in told : First(k).type = "Delete"}
    IN  [k \in (DOMAIN rs \cup told) \ gone |->
            IF k \in told THEN First(k).record ELSE rs[k]]

\* Mutant of Triggered: a deleted record is not taken out.
TriggeredKeeping(rs, changes) ==
    LET told == {ch.record.key : ch \in changes}
    IN  [k \in DOMAIN rs \cup told |->
            IF k \in told THEN Latest(About(changes, k)).record ELSE rs[k]]

\* subscriptionsTriggered(): the rows after the changes of one response.  They
\* come in the order of their revisions, so the last one of a record decides.
Triggered(rs, changes) ==
    LET told == {ch.record.key : ch \in changes}
        gone == {k \in told : Latest(About(changes, k)).type = "Delete"}
    IN  [k \in (DOMAIN rs \cup told) \ gone |->
            IF k \in told THEN Latest(About(changes, k)).record ELSE rs[k]]

\* Mutant of LatestRevision: one too far.
NextRevision(records) == Max({0} \cup {r.latestRevision : r \in records}) + 1

LatestRevision(records) == Max({0} \cup {r.latestRevision : r \in records})

-----------------------------------------------------------------------------
(* The user.  The central widget is enabled only while connected; reload and *)
(* setTarget are also called by the program itself.                         *)

\* The user may send something more.
UserMay(action) ==
    action \in UserActions /\ isConnected /\ nextCall <= MaxRequests

FindMessage(q) == [cmd |-> "find", query |-> q]

\* reload(), for the target q.  While not connected it waits for it.
ReloadFor(action, q) ==
    \/ /\ UserMay(action)
       /\ Post(<<FindMessage(q)>>, <<[kind |-> "find"]>>, calls)
       /\ UNCHANGED pendingReloads
    \/ /\ action \in UserActions /\ ~isConnected
       /\ pendingReloads < MaxPendingReloads
       /\ pendingReloads' = pendingReloads + 1
       /\ UNCHANGED <<inbox, nextCall, calls>>

Reload ==
    /\ ReloadFor("reload", target)
    /\ UNCHANGED <<shown, target, subscription, rolledBack>>

SetTarget(q) ==
    /\ q # target
    /\ target' = q
    /\ ReloadFor("setTarget", q)
    /\ UNCHANGED <<shown, subscription, rolledBack>>

\* setData(): only the changed field is sent, the whole row is remembered.
SetData(k, f, value) ==
    /\ UserMay("setData")
    /\ k \in DOMAIN shown /\ shown[k].values[f] # value
    /\ shown' = [shown EXCEPT ![k].values[f] = value]
    /\ Post(<<[cmd |-> "update", key |-> k, values |-> [g \in {f} |-> value]]>>,
            <<[kind |-> "undo", record |-> shown[k]]>>, calls)
    /\ UNCHANGED <<target, subscription, pendingReloads, rolledBack>>

RemoveRow(k) ==
    /\ UserMay("remove") /\ k \in DOMAIN shown
    /\ shown' = DropRow(shown, k)
    /\ Post(<<[cmd |-> "delete", key |-> k]>>,
            <<[kind |-> "undo", record |-> shown[k]]>>, calls)
    /\ UNCHANGED <<target, subscription, pendingReloads, rolledBack>>

Add ==
    /\ UserMay("add")
    /\ Post(<<[cmd |-> "create", table |-> target.table, values |-> Blank]>>,
            <<NoCall>>, calls)
    /\ UNCHANGED rowVars

-----------------------------------------------------------------------------
(* Receiving.  find and subscribe of an authenticated client are never       *)
(* refused (LogIsNeverEmptyForClients), so their error callbacks, which only *)
(* clear m_loading, do not appear.                                          *)

\* Mutant of OnConnected: only reloads that were asked for are made up for.
OnConnectedLazily(m) ==
    /\ OnAuthenticated(m, [i \in 1..pendingReloads |-> FindMessage(target)],
                       [i \in 1..pendingReloads |-> [kind |-> "find"]])
    /\ pendingReloads' = IF m.cmd = "reply" THEN 0 ELSE pendingReloads
    /\ UNCHANGED <<shown, target, subscription, rolledBack>>

\* connectedChanged(true): the constructor's slot and those reload() left.
OnConnected(m) ==
    LET n == 1 + pendingReloads
    IN  /\ OnAuthenticated(m, [i \in 1..n |-> FindMessage(target)],
                           [i \in 1..n |-> [kind |-> "find"]])
        /\ pendingReloads' = IF m.cmd = "reply" THEN 0 ELSE pendingReloads
        /\ UNCHANGED <<shown, target, subscription, rolledBack>>

\* Mutant of OnFound: the new subscription is not told from the next.
OnFoundSameObject(m) ==
    /\ Answers(m, "find")
    /\ shown' = AsRows(m.data.records)
    /\ rolledBack' = {}
    /\ subscription' = nextSubscription
    /\ pendingSubscriptions' = pendingSubscriptions \cup {nextSubscription}
    /\ Post(<<[cmd |-> "subscribe", query |-> target,
              from |-> LatestRevision(m.data.records)]>>,
            <<[kind |-> "subscribe", object |-> nextSubscription]>>,
            Without(m.reply_to))
    /\ UNCHANGED <<target, pendingReloads, socketVars, clientSubscriptions,
                   nextSubscription>>

\* The answer to find: the new subscription starts at the newest revision
\* found, for the target as it is by now.
OnFound(m) ==
    /\ Answers(m, "find")
    /\ shown' = AsRows(m.data.records)
    /\ rolledBack' = {}
    /\ subscription' = nextSubscription
    /\ Resubscribe(subscription, <<>>, target, LatestRevision(m.data.records),
                   Without(m.reply_to))
    /\ UNCHANGED <<target, pendingReloads, socketVars>>

\* subscriptionsTriggered() if m triggers m_subscription.
Listen(m, changes) ==
    /\ shown' = IF subscription \in Triggers(m) THEN Triggered(shown, changes)
                                                ELSE shown
    /\ UNCHANGED <<target, subscription, pendingReloads, rolledBack, socketVars>>

OnSubscribed(m) == Registered(m) /\ Listen(m, m.data.changes)

\* Mutant of OnWritten: the old row comes back on success as well.
OnWrittenUndone(m) ==
    /\ Answers(m, "undo")
    /\ shown' = SetRow(shown, calls[m.reply_to].record)
    /\ Post(<<>>, <<>>, Without(m.reply_to))
    /\ UNCHANGED <<target, subscription, pendingReloads, rolledBack, socketVars,
                   subscriptionVars>>

\* The answer to an update or a delete: on an error the row as it was when the
\* user acted is shown again.
OnWritten(m) ==
    LET record == calls[m.reply_to].record
    IN  /\ Answers(m, "undo")
        /\ \/ /\ m.cmd = "error"
              /\ shown' = SetRow(shown, record)
              /\ rolledBack' = rolledBack \cup {record.key}
           \/ m.cmd = "reply" /\ UNCHANGED <<shown, rolledBack>>
        /\ Post(<<>>, <<>>, Without(m.reply_to))
        /\ UNCHANGED <<target, subscription, pendingReloads, socketVars,
                       subscriptionVars>>

\* A push, for m_subscription, for another object or for none.
OnPush(m) ==
    /\ m.cmd = "changes"
    /\ Listen(m, m.changes)
    /\ UNCHANGED <<inbox, dispatchVars>>

\* Answers nobody waits for are dropped.
OnIgnored(m) ==
    /\ m.cmd # "changes" /\ m.reply_to \notin DOMAIN calls
    /\ UNCHANGED <<inbox, dispatchVars, rowVars, socketVars>>

Receive ==
    \E m \in Received :
        /\ Taken
        /\ \/ OnConnected(m) \/ OnFound(m) \/ OnSubscribed(m) \/ OnWritten(m)
           \/ OnPush(m) \/ OnIgnored(m)

-----------------------------------------------------------------------------
(* The system. *)

User ==
    \/ Reload \/ Add
    \/ \E q \in Queries : SetTarget(q)
    \/ \E k \in DOMAIN shown, f \in Field, value \in Value : SetData(k, f, value)
    \/ \E k \in DOMAIN shown : RemoveRow(k)

\* An earlier run of the server left a record in the table of the target; this
\* client is the first of this run, and its model has asked for its rows.
ModelInit ==
    \E c \in Connection :
        /\ c = CHOOSE d \in Connection : TRUE
        /\ target \in Queries
        /\ ServesFirst(c, {<<target.table, 1>>})
        /\ inbox = [Nothing EXCEPT ![c] = <<With(FindMessage(target), "msgId", 1)>>]
        /\ Connected(c)
        /\ pendingSubscriptions = {} /\ clientSubscriptions = <<>>
        /\ nextSubscription = 1
        /\ calls = <<[kind |-> "find"]>> /\ nextCall = 2
        /\ shown = <<>> /\ rolledBack = {}
        /\ subscription = 0 /\ pendingReloads = 0

ClientReceives == Receive /\ UNCHANGED <<vars, link, session, nextMsgId>>

UserActs ==
    /\ User
    /\ UNCHANGED <<vars, link, session, outbox, nextMsgId, socketVars,
                   subscriptionVars>>

SocketActs == SocketStep /\ UNCHANGED rowVars

\* The event loop of the server, whose clients these are.
ServerHandles ==
    /\ \E c \in Connection : Handle(c)
    /\ UNCHANGED <<socketVars, dispatchVars, rowVars>>

ServerActs ==
    /\ OthersWrite \/ ServerNotices \/ ServerRestarts
    /\ UNCHANGED <<socketVars, dispatchVars, rowVars>>

ModelNext ==
    \/ ServerHandles \/ ClientReceives \/ UserActs \/ SocketActs \/ ServerActs

\* Both event loops run on; nothing obliges a user, another client or the
\* network to act.
ModelSpec == /\ ModelInit /\ [][ModelNext]_modelVars
             /\ WF_modelVars(ServerHandles) /\ WF_modelVars(ClientReceives)

-----------------------------------------------------------------------------
(* Properties. *)

\* A row is one whole record under its own id, and m_subscription, if any, an
\* object that subscribe() returned, the latest it did (AbstractRecordModel.cpp:153).
ModelTypeOK ==
    /\ \A k \in DOMAIN shown :
           shown[k] \in [key : {k}, values : [Field -> Value],
                         latestRevision : 0..MaxRevision]
    /\ target \in Queries
    /\ subscription \in 0..nextSubscription - 1
    /\ pendingReloads \in 0..MaxPendingReloads
    /\ ConnectionTypeOK

\* The client is connected and no message is under way.
Quiet == /\ isConnected /\ link[peer] = "open"
         /\ inbox[peer] = <<>> /\ outbox[peer] = <<>>

\* Once no message is under way every record of the target is shown, as it is,
\* unless an error callback put the row back (AbstractRecordModel.cpp:60-62,
\* 124-126): nothing falls between find and subscribe, nor between reloads.
NothingMissing ==
    Quiet => \A r \in Find(target) : r.key \in rolledBack \/ r \in Range(shown)

\* And nothing else is shown.
NothingForeign ==
    Quiet => \A k \in DOMAIN shown : k \in rolledBack \/ shown[k] \in Find(target)

\* However reloads and changes of target overlap, once no message is under way
\* server and client agree on one subscription, that of m_subscription for the
\* present target; none is left behind on either side.
OneSubscriptionLeft ==
    Quiet => /\ pendingSubscriptions = {}
             /\ Range(clientSubscriptions) = {subscription}
             /\ DOMAIN subscriptions[peer] = DOMAIN clientSubscriptions
             /\ \A id \in DOMAIN subscriptions[peer] :
                    subscriptions[peer][id].query = target

\* A row shown is not replaced by an older state of the record, unless an
\* error callback puts it back.
RowsNeverGoBack ==
    [][\A k \in DOMAIN shown \cap DOMAIN shown' :
           \/ shown[k].latestRevision <= shown'[k].latestRevision
           \/ k \in rolledBack']_modelVars

\* When writes cease and the connection stays, the rows shown become those of
\* the target for good, whatever had been cut off before.
EventuallyCurrent ==
    <>[](isConnected /\ link[peer] = "open") => <>[](Range(shown) = Find(target))
=============================================================================
