---------------------------- MODULE RecordObject ----------------------------
(***************************************************************************)
(* One record in a client (clientlib/RecordObject.cpp), new or read from   *)
(* the server: edits show at once and are taken back as a whole if the     *)
(* server refuses them, and once the record exists a subscription on its   *)
(* id keeps it up to date.                                                 *)
(*                                                                         *)
(* The connection stays: after a reconnection a RecordObject subscribes no *)
(* more.  The other clients are the writes the server executes for them.   *)
(***************************************************************************)
EXTENDS ServerConnection

CONSTANT ObjectTable    \* the table of the record

ASSUME ObjectTableAssumption == ObjectTable \in Table \ {ClientTable}

NoKey == <<ObjectTable, 0>>     \* of a record that is not persisted

VARIABLES
    record,         \* m_record
    subscription,   \* m_subscription: a Subscribtion object, 0 if null
    undone,         \* history: the record is what an error callback put back
    orphaned        \* history: an error callback has taken the object's id away

objectVars == <<record, subscription, undone, orphaned>>
allObjectVars == <<allServerVars, socketVars, dispatchVars, objectVars>>

-----------------------------------------------------------------------------
(* What the program asks of the object.  It waits for created() or error()  *)
(* before it calls create() again.                                          *)

UserMay(action) == action \in UserActions /\ nextCall <= MaxRequests

CreateObject ==
    /\ UserMay("create") /\ record.key = NoKey
    /\ \A id \in DOMAIN calls : calls[id].kind # "create"
    /\ Post(<<[cmd |-> "create", table |-> ObjectTable, values |-> record.values]>>,
            <<[kind |-> "create"]>>, calls)
    /\ UNCHANGED objectVars

\* setValues(): all fields of the record are sent, not only those changed.
SetValues(values) ==
    /\ UserMay("setValues")
    /\ record' = [record EXCEPT !.values = values @@ @]
    /\ Post(<<[cmd |-> "update", key |-> record.key, values |-> record'.values]>>,
            <<[kind |-> "undo", original |-> record]>>, calls)
    /\ UNCHANGED <<subscription, undone, orphaned>>

DeleteObject ==
    /\ UserMay("delete") /\ record.key # NoKey
    /\ Post(<<[cmd |-> "delete", key |-> record.key]>>, <<[kind |-> "delete"]>>,
            calls)
    /\ UNCHANGED objectVars

-----------------------------------------------------------------------------
(* Answers and pushes. *)

ChangesOfObject(k, from) ==
    [cmd |-> "subscribe", from |-> from,
     query |-> [table |-> k[1], ids |-> {k[2]}, accepts |-> [f \in Field |-> Value]]]

\* Mutant of SetupSubscription: it starts one revision late.
SetupNextSubscription(rec, others) ==
    /\ subscription' = nextSubscription
    /\ nextSubscription' = nextSubscription + 1
    /\ pendingSubscriptions' = pendingSubscriptions \cup {nextSubscription}
    /\ Post(<<ChangesOfObject(rec.key, rec.latestRevision + 1)>>,
            <<[kind |-> "subscribe", object |-> nextSubscription]>>, others)
    /\ UNCHANGED clientSubscriptions

\* setupChangeSubscription(); a Subscribtion there was before is not deleted.
SetupSubscription(rec, others) ==
    /\ subscription' = nextSubscription
    /\ nextSubscription' = nextSubscription + 1
    /\ pendingSubscriptions' = pendingSubscriptions \cup {nextSubscription}
    /\ Post(<<ChangesOfObject(rec.key, rec.latestRevision)>>,
            <<[kind |-> "subscribe", object |-> nextSubscription]>>, others)
    /\ UNCHANGED clientSubscriptions

Ignore(m) ==
    /\ Post(<<>>, <<>>, Without(m.reply_to))
    /\ UNCHANGED subscriptionVars

OnCreated(m) ==
    /\ Answers(m, "create")
    /\ \/ /\ m.cmd = "reply"
          /\ record' = m.data.record /\ undone' = FALSE /\ UNCHANGED orphaned
          /\ SetupSubscription(m.data.record, Without(m.reply_to))
       \/ m.cmd = "error" /\ Ignore(m) /\ UNCHANGED objectVars

\* An error takes back everything since that edit, the id included.
OnUpdated(m) ==
    LET original == calls[m.reply_to].original
    IN
    /\ Answers(m, "undo")
    /\ \/ m.cmd = "reply" /\ UNCHANGED <<record, undone, orphaned>>
       \/ /\ m.cmd = "error"
          /\ record' = original /\ undone' = TRUE
          /\ orphaned' = (orphaned \/ record.key \notin {NoKey, original.key})
    /\ Ignore(m)
    /\ UNCHANGED subscription

\* Mutant of OnDeleted: it does not look whether the answer is an error.
OnDeletedAnyhow(m) ==
    /\ Answers(m, "delete")
    /\ record' = [record EXCEPT !.key = NoKey]
    /\ Ignore(m)
    /\ UNCHANGED <<subscription, undone, orphaned>>

\* The Subscribtion is deleted, m_subscription left as it is.
OnDeleted(m) ==
    LET gone == Unsubscribes(subscription)
    IN  /\ Answers(m, "delete")
        /\ \/ /\ m.cmd = "reply"
              /\ record' = [record EXCEPT !.key = NoKey]
              /\ Post(gone, [i \in DOMAIN gone |-> NoCall], Without(m.reply_to))
              /\ pendingSubscriptions' = pendingSubscriptions \ {subscription}
              /\ clientSubscriptions' = Restrict(clientSubscriptions,
                     DOMAIN clientSubscriptions \ IdsOf(subscription))
              /\ UNCHANGED <<subscription, undone, orphaned, nextSubscription>>
           \/ m.cmd = "error" /\ Ignore(m) /\ UNCHANGED objectVars

\* The slot of triggered(), for a response: an update is taken as a whole, a
\* delete only unsets the id and is the last change of its record.
Followed(rec, changes) ==
    LET updates == {ch \in changes : ch.type = "Update"}
        last == IF updates = {} THEN rec ELSE Latest(updates).record
    IN  IF \E ch \in changes : ch.type = "Delete" THEN [last EXCEPT !.key = NoKey]
                                                  ELSE last

\* It is connected to every Subscribtion the object has set up.
Listen(m, changes) ==
    LET heard == IF Triggers(m) = {} THEN {} ELSE changes
    IN  /\ record' = Followed(record, heard)
        /\ undone' = (undone /\ \A ch \in heard : ch.type = "Create")
        /\ UNCHANGED <<subscription, orphaned>>

OnSubscribed(m) == Registered(m) /\ Listen(m, m.data.changes)

OnPush(m) ==
    /\ m.cmd = "changes"
    /\ Listen(m, m.changes)
    /\ UNCHANGED <<inbox, dispatchVars>>

OnIgnored(m) ==
    /\ m.cmd # "changes" /\ m.reply_to \notin DOMAIN calls
    /\ UNCHANGED <<inbox, dispatchVars, objectVars>>

Receive ==
    \E m \in Received :
        /\ Taken
        /\ \/ OnCreated(m) \/ OnUpdated(m) \/ OnDeleted(m) \/ OnSubscribed(m)
           \/ OnPush(m) \/ OnIgnored(m)

-----------------------------------------------------------------------------
(* The system. *)

\* Record 1 of the table is there; the object is that record, just read, or a
\* new one.
ObjectInit ==
    \E c \in Connection :
        /\ c = CHOOSE d \in Connection : TRUE
        /\ ServesFirst(c, {<<ObjectTable, 1>>})
        /\ Connected(c)
        /\ undone = FALSE /\ orphaned = FALSE
        /\ \/ /\ record = [key |-> NoKey, values |-> Blank, latestRevision |-> 0]
              /\ inbox = Nothing /\ calls = <<>> /\ nextCall = 1
              /\ subscription = 0 /\ pendingSubscriptions = {} /\ nextSubscription = 1
           \/ /\ record = [key |-> <<ObjectTable, 1>>, values |-> Blank,
                           latestRevision |-> 1]
              /\ inbox = [Nothing EXCEPT ![c] =
                     <<With(ChangesOfObject(record.key, 1), "msgId", 1)>>]
              /\ calls = <<[kind |-> "subscribe", object |-> 1]>> /\ nextCall = 2
              /\ subscription = 1 /\ pendingSubscriptions = {1} /\ nextSubscription = 2
        /\ clientSubscriptions = <<>>

ServerHandles ==
    /\ \E c \in Connection : Handle(c)
    /\ UNCHANGED <<socketVars, dispatchVars, objectVars>>

ClientReceives ==
    Receive /\ UNCHANGED <<vars, link, session, nextMsgId, socketVars>>

UserActs ==
    /\ \/ CreateObject \/ DeleteObject
       \/ \E values \in Partial : SetValues(values)
    /\ UNCHANGED <<vars, link, session, outbox, nextMsgId, socketVars,
                   subscriptionVars>>

OthersAct == OthersWrite /\ UNCHANGED <<socketVars, dispatchVars, objectVars>>

ObjectNext == ServerHandles \/ ClientReceives \/ UserActs \/ OthersAct

\* Both event loops run on.
ObjectSpec == /\ ObjectInit /\ [][ObjectNext]_allObjectVars
              /\ WF_allObjectVars(ServerHandles) /\ WF_allObjectVars(ClientReceives)

-----------------------------------------------------------------------------
(* Properties. *)

Quiet == \A c \in Connection : inbox[c] = <<>> /\ outbox[c] = <<>>

\* Once no message is under way the object is the record as the server has it,
\* or knows that it is deleted, unless an error callback put an old state back
\* (RecordObject.cpp:49-54): between create and subscribe nothing is lost, and
\* of edits that cross those of others the server's order decides.
ObjectCurrent ==
    Quiet /\ ~undone /\ record.key # NoKey =>
        row[record.key].status = "live" /\ record = Found(record.key)

\* The object becomes another record, or none, only once its record is deleted
\* (RecordObject.cpp:66-71, 75-91), unless the undo of an edit made before the
\* record was created has taken the id away (RecordObject.cpp:51).
ForgetsOnlyTheDead ==
    [][\/ record.key \in {NoKey, record'.key} \/ row[record.key].status = "deleted"
       \/ orphaned']_allObjectVars

\* Every future is completed while the connection stays: the server answers
\* each message, what it refuses and what fails included, and an answer finds
\* its future.
FuturesComplete == <>[](calls = <<>>)
=============================================================================
