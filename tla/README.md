# A verification project for sportsed

sportsed is a client/server program (C++, Qt) for running sports competitions.
A server owns an SQL database of records (profiles, competitions, stages,
courses, classes, connected clients, ...); clients edit records, subscribe to
changes and keep live copies of tables in their views. These modules model the
path a change takes: from a client's editor, over a connection that may break,
through the server and its database, to the views and editors of all other
clients.

All paths are relative to `src/`; `clientlib/` stands for `clients/clientlib/`.

## 1. The system

| Component | State | Operations | Talks to |
|---|---|---|---|
| `DatabaseEngine` (server/) | record tables with a `_deleted_` mark; the `change` table whose ids are the global revisions | create, update, delete_, find, read, changes; the constructor wipes the client list | calls the change callback inside the transaction of every write |
| `DatabaseServer` (server/) | `m_connections`; per connection: authenticated, clientRecordId, subscriptions, nextSubscriptionId | authenticate and nine more commands; connect, disconnect; `handleChange` | engine (calls), clients (messages) |
| Start-up and schema (server/main.cpp, DatabaseMigration.cpp) | tables that exist; the version in `meta` | prepare: create, upgrade or check | runs before the engine |
| `MessageSocket` (commonlib/) | receive buffer and expected size | send, dataReady, setDevice | frames messages on a byte stream |
| `ServerConnection`, `Future` (clientlib/) | socket state, m_shouldBeConnected, m_authenticated, m_nextMsgId, m_futures, m_subscriptions, m_pendingSubscriptions | connectToServer, disconnectFromServer, one method per command, subscribe; `received`; a queued reconnection | server (messages), models (callbacks, signals) |
| `AbstractRecordModel` (clientlib/) | m_rows, m_target, m_subscription | reload, setTarget, setData, add, remove; answers and pushes | ServerConnection |
| `RecordObject` (clientlib/) | one record and its subscription | create, setValues, delete_ | ServerConnection |
| `InterfaceSync` (clientlib/) | which editor is bound to which field | ItemSync, ViewSync: widget to record and back | RecordObject, AbstractRecordModel |
| `Validators`, `Record`, `TableQuery`, `ChangeQuery` (commonlib/) | none | validate, coerce, match, convert | used by both ends |
| `ClientMainWindow`, dialogs, admin and printer client | widgets | load and store a profile, choose a competition | models, ServerConnection |
| apiserver, checkout, live, registration, si_remote, speaker | none | empty programs | |

Each process has one thread and a Qt event loop: a received message, with every
slot and callback it leads to, is handled to its end before the next one (the
exception, a slot that waits in an event loop of its own, is a subject of
`MessageSocket`). Concurrency is between processes: messages cross, and answers
and pushes of changes share one ordered stream per direction and connection.
What is hard:

- the engine tells subscribers of a change *before* it commits; the telling may
  fail half-way, and the commit after all of it;
- the constructor wipes the client list and its changes in two transactions,
  and the schema may be created statement by statement;
- a copy is loaded by one message (find) and kept by another (subscribe), with
  writes in between, reloads overlapping and subscriptions deleted before the
  server's answer registers them;
- edits and removals show in the client before the server accepts them, and
  are undone when it does not;
- commands fail on states (an empty change table, an id never assigned) that
  only the protocol around them can exclude;
- reconnection: the client's subscriptions, futures, message ids and partial
  frames survive the connection they belong to, the server's state does not;
- editors write what they show when the user leaves a row, those on a view are
  not told of what others enter, and some of the others signal a change from
  the server as if the user had made it.

What makes each component correct:

- engine: rows and changes agree; deletion is final; changes appear only at the
  end of the log; no engine works on half a schema;
- server: a subscription gets each change of its query, once and in order;
  what is acknowledged is committed; the client list is the list of clients;
- connection: messages are whole and in order; futures are completed; the
  reconnection never throws; the client refuses to connect only if it is
  connected or on its way;
- copies: a model shows one consistent past state of its target, comes to the
  present state, never goes back, and leaves no subscription behind; an object
  is what the server has;
- editors: what was loaded can be sent back, nothing is written into a record
  that belongs to another or that nobody has touched, and all clients come to
  hold what is stored.

`PROJECT.json` lists every hazard with its line and the properties that cover
it, or why none does.

## 2. Modules

    Validators       RecordLifecycle
        |                  ^ (implements)
    InterfaceSync    DatabaseEngine <-- Startup
                           |
                     DatabaseServer
                           |
                     ServerConnection
                       /         \
       AbstractRecordModel     RecordObject        MessageSocket
               |
       RecordModelHistory

Lines are EXTENDS. An `MC...` module gives constants to TLC, a `..._proofs`
module holds theorems about the module it is named after.

**DatabaseEngine** (DatabaseEngine.cpp). `row` maps <<table, id>> to a row that
is absent, live or deleted; `change` is the set of rows of the change table;
`lastId` and `lastRevision` are what the database counts from. `Create`,
`Update`, `Delete` are create(), update() and delete_() with insertChange(). An
operation that throws is rolled back and is no step here; the server's actions
include its error answer. `Stop` is the end of the process at any point;
`PurgeClients` and `PurgeClientChanges` are the two DELETEs of the constructor.
`Find` and `Changes` are find() and changes(), LIMIT included. A query is a
table, possibly an id, and per field the set of values accepted, which covers
all six comparison operators. Whether ids of physically removed rows are used
again depends on the id column the database library declares, which is outside
the repository: the constant `AutoIncrement` covers both, and the theorems hold
for both. **RecordLifecycle** is the abstract specification of one record's
life (absent, live, deleted, with a growing version); the engine, read through
its change table alone, implements it.

**Startup** (main.cpp, DatabaseMigration.cpp) runs before and around the
engine. `tables` counts the tables that exist, `versionRow` is meta's version.
`BeginCreation`, `CreateTable` and `InsertVersion` are create() one statement
at a time, `Upgrade` and `Check` the other two ways through prepare(); `Crash`
ends the process at any point before the engine is built and takes the tables
back only where DDL is transactional (external: not on MySQL). `EngineActs` is
the whole life of the engine.

**DatabaseServer** (DatabaseServer.cpp, ChangeQuery::matches). `inbox[c]` and
`outbox[c]` are the two directions of connection c, message by message.
`Handle(c)` takes one message and performs one command to its end: the engine's
operation, the pushes of handleChange() and the answer, in that order.
`WriteFails` is a write that throws: in the database (fault "db"), or after its
first push (fault "rollback"), be it in the callback because a connection could
not be written to after others had been, or in the commit after all of them.
`CreateUnread` is a record that is created, but that the query after the commit
fails to read back (DatabaseEngine.cpp:176), so that the sender is told of an
error. The pushes of one connection go out in any order, as the hash
table of its subscriptions has none. `Accept` leaves clientRecordId with an
arbitrary value, as the code does. `Disconnect` is the disconnect slot, `ServerStop` and `ServerStart`
the process. In the runs of this module alone clients are any that authenticate
first and once, with the right or the wrong password, and then send any of
`Commands`; with `ClientsWait` they wait to be let in. Nothing leaves `outbox`
there, so that properties can speak of all a connection was ever sent.

**ServerConnection** (ServerConnection.cpp, Async.cpp) is one client with a
socket that breaks and is connected again. Each session is a new connection of
`DatabaseServer`, which numbers its subscriptions from 1 again, while
`nextCall` (m_nextMsgId), `calls` (the futures not completed, with what their
callbacks need), `clientSubscriptions` and `pendingSubscriptions` go on.
`UserConnects`, `Established`, `NotEstablished`, `Lost`, `ReconnectNow`,
`UserDisconnects` and `OnAuthenticated` are the slots of the socket's signals
and the methods of the menu; `Post` sends, `Registered` and `Triggers` dispatch.
Other clients are present through their effect: `OthersWrite` is a write the
server performs for them, with its pushes. `ServerNotices` is the server's end
noticing, at any later time, that the client is gone.

**AbstractRecordModel** (AbstractRecordModel.cpp). `shown` is m_rows, by key.
`Reload`, `SetTarget`, `SetData`, `RemoveRow` and `Add` are the user's actions;
`Receive` takes one message and runs the callback of its future (`OnFound`,
`OnSubscribed`, `OnWritten`), the slots of connectedChanged (`OnConnected`) or
of a subscription (`OnPush`). The history variable `rolledBack` collects the
keys error callbacks put back. **RecordModelHistory** adds the history of what
the target has been.

**RecordObject** (RecordObject.cpp). `record` is m_record; `CreateObject`,
`SetValues` and `DeleteObject` are the methods, `OnCreated`, `OnUpdated`,
`OnDeleted` the callbacks and `Listen` the slot of the subscription. The history
variable `undone` says that an error callback put an old record back, `orphaned`
that one has taken the object's id away.

**MessageSocket** (MessageSocket.cpp). Bytes are known by message and place.
`Send` puts a frame on the wire, `Arrive` delivers any number of its bytes,
`DataReady` is one turn of the loop of dataReady(), `SetDevice` replaces the
device. A slot of message() may wait for ever in an event loop of its own, as
`FutureImpl::get` does; the device then does not emit readyRead again.

**Validators** (Validators.cpp) has no state: which QVariant types a field
takes (`Accepted`), what coerce() makes of a value read from JSON (`MetaType`,
`Coercible`, `Coerced`). A string that is the text of an IP address is an
"Address", apart from the others, because validateField() parses it. **InterfaceSync** (InterfaceSync.cpp) extends it: two or more
clients, each with one editor of a column, on a RecordObject ("item"), on the
current row of a view, or on that of a combo box. `UserEdits`, `SelectsRow`,
`SelectsItem` are the user, `Receives` a push with what the editor makes of
it; `Serves` is a server that puts updates in one order and pushes each to all.
`Told` says which editors hear of a push: only those on a RecordObject. The
dataChanged() of a model names, for a push, a last column the model has not
(AbstractRecordModel.cpp:193), which makes an invalid index of row -1, and the
slots for views and combo boxes (InterfaceSync.cpp:89, 120) then never find the
current row in the range. So an editor on a view goes on showing the old value,
and leaving the row writes it over the new one: the model does that too. `ip` is
what the server has stored for the address of a client. The history variables
`entered` and `past` hold what users entered where, and what each record has
been.

## 3. Runs

| Run (cfg) | Checks | Shows |
|---|---|---|
| engine (`MCStartup`) | TypeOK, LogTellsRows, TombstonesAreFinal, LogGrowsAtTheEnd, LifecycleSpec, ServesCompleteSchema, CreationIsAllOrNothing | from the creation of the schema on, rows and changes agree and every record has a proper life, through crashes and reused ids |
| server_feed (`MCServerFeed`) | FeedIsExact, OwnPushComesFirst | catch-up and pushes together are each change once and in order; one's own push precedes the answer |
| server_faults (`MCServerFaults`) | ServerTypeOK, FeedMissesNothing, AcknowledgedIsCommitted | what survives writes, broadcasts and commits that fail, and answers cut by the LIMIT |
| server_clients (`MCServerClients`) | NoGhostClients, LogIsNeverEmptyForClients | the client list, and why changes() never meets an empty table |
| server_client_list (`MCServerClientList`) | ConnectedClientsAreListed | **violated**, see below |
| model_edits (`MCModelEdits`) | ModelTypeOK, NothingForeign, RowsNeverGoBack | optimistic edits and removals against the writes of others |
| model_targets (`MCModelTargets`) | NothingMissing, OneSubscriptionLeft | overlapping loads and changes of target, with filters and a reconnection |
| model_reconnect (`MCModelReconnect`) | ShownTogetherOnce, ReconnectNeverThrows, EventuallyCurrent | a reader over a connection that breaks, a server that restarts and a user who disconnects: never a mixture of two moments, and the present one in the end |
| connection_refusal (`MCConnectionRefusal`) | RefusalMeansConnected | **violated**, see below |
| record_object (`MCRecordObject`) | ObjectCurrent, ForgetsOnlyTheDead, FuturesComplete | one record against the writes of others and writes that fail |
| message_socket (`MCMessageSocket`) | WholeAndInOrder, EveryMessageArrives | frames cut anywhere, waiting slots, replaced devices |
| interface_sync (`MCInterfaceSync`) | HeldIsValid, WritesBelong, EditorsSettle | editors of two clients: what is loaded can be sent, what is written belongs to its record, and the clients settle |

Every property of a passing run has a mutant in `PROJECT.json`: a plausible bug
in one operator that makes TLC find the property violated.

**The violated runs.**

- server_client_list: a connection that was never authenticated has an
  uninitialised clientRecordId (server/DatabaseServer.cpp:32), and the
  disconnect slot deletes the client record of that id anyway (line 213). One
  client authenticates and is listed; another connects and goes without
  authenticating; the first is no longer listed, while the test "clients-list"
  (tests/tst_client_server_tests.cpp:147) counts on every connected client
  being there.
- connection_refusal: only the loss of an established connection queues an
  attempt to connect (ServerConnection.cpp:170). After one attempt that fails
  nothing is queued and m_shouldBeConnected is still set, so connectToServer
  answers "Already connected to server" (ServerConnection.h:29) to an idle
  client, and the menu offers "disconnect" only to one that is connected.

### Bounds

`MaxId` and `MaxRevision` bound ids and revisions: an operation that would
exceed them is not a step (in the server its request stays unhandled), which
is why the runs set CHECK_DEADLOCK FALSE; they also set it because clients may
simply fall silent. `MaxRequests` bounds the messages a client sends on its own
account; what callbacks send is not bounded by it.

- engine: two tables of records (the two the constructor and the schema treat
  specially), two ids each, five revisions, three CREATE TABLE statements: a
  record created, updated, deleted, wiped and its id used again, with another
  record beside it, after a creation that died anywhere.
- server runs: two connections (three for the client list), one of which may
  watch while the other writes; the tables are the client list, which
  authentication writes, and `meta`, which has a row from the start, so that
  updates and deletes need no create before them. Connections are symmetric:
  no property or action orders them.
- model runs: two or three ids and four or five revisions, two of them there at
  the start; so two or three writes, by anyone, race with two to three requests
  of the user and the messages these lead to. Two sessions of the client (one
  in model_edits): the one that breaks and the one after it. model_edits leaves
  out reconnections and model_reconnect edits, which keeps each exhaustive.
- record_object: one field with two values, three ids (one there at the start)
  and five revisions; four messages of the program, so that three edits are
  under way with a delete, or the object is created twice; writes of others and
  failing writes.
- message_socket: four messages of one to three bytes with headers of four,
  delivered in any pieces, over three devices; bytes that are no header may be
  taken for a negative, an empty, a small or a huge size.
- interface_sync: two clients, two records, two values in any place, three
  updates that users bring about, by entering a value or by leaving a row whose
  editor is out of date; every table and field of the schema whose records load,
  and a client with and without an address. The editors (line edits, a combo
  box and check boxes on objects, views and combo boxes, in any pair) are on a
  text and on a truth value; the other types of field differ only in what
  Validators says of them. The longest run: some 800,000 states, under three
  minutes with two workers.
- `ChangesLimit` is 100 as in the code, and not reached, in all runs but
  server_faults, where it is 2, so that answers are cut off. What the LIMIT cuts
  off is never sent: FeedMissesNothing says that nothing else is missing, and
  that a cut answer is full and ends before what is missing. The properties of
  the copies are checked below the limit.

### Fairness

- `EventuallyCurrent` and `FuturesComplete` assume weak fairness of
  `ServerHandles` and `ClientReceives`: both are event loops that take the next
  message as long as there is one, from a TCP connection. Nothing is assumed of
  users, other clients, losses or restarts; `EventuallyCurrent` speaks only of
  behaviours in which the connection stays in the end, and record_object has
  a connection that stays.
- `EveryMessageArrives` assumes that bytes under way arrive and that a loop of
  dataReady() that has begun goes on. A slot that waits need not return: the
  property excepts the messages behind it.
- `EditorsSettle` assumes that clients and server take what has arrived. Users
  need do nothing.

Writes cease because revisions and edits are bounded; the properties say
nothing of a system that never rests.

## 4. Proofs

All theorems hold for any values of the constants that meet the ASSUMEs of the
modules (which TLC evaluates on every run): any number of connections, clients,
tables and records, and no use is made of the bounds being small.

| Module | Theorem | Property |
|---|---|---|
| `DatabaseEngine_proofs` | TypeCorrect | TypeOK |
| | LogTold | LogTellsRows |
| | TombstonesStay | TombstonesAreFinal |
| | LogGrows | LogGrowsAtTheEnd |
| | ImplementsLifecycle | LifecycleSpec (refinement of RecordLifecycle) |
| `Startup_proofs` | StartupImplementsEngine | StartupSpec => Spec of the engine |
| | CompleteSchemaServed | ServesCompleteSchema |
| | CreationNeverHalfDone | CreationIsAllOrNothing |
| `DatabaseServer_proofs` | ServerTypeCorrect | ServerTypeOK |
| | ServerImplementsEngine | ServerSpec => Spec of the engine |
| | NoGhosts | NoGhostClients, if no query, push or commit of a write fails |
| | LogNeverEmpty | LogIsNeverEmptyForClients, likewise |
| `ServerFeed_proofs` | AcknowledgedHolds | AcknowledgedIsCommitted |
| | FeedComplete | FeedMissesNothing |
| | FeedOrdered | FeedIsExact, if nothing is rolled back after a push of it |
| | OwnPushFirst | OwnPushComesFirst |
| `MessageSocket_proofs` | MessagesWholeAndInOrder | WholeAndInOrder |
| `ModelSubscription_proofs` | ReconnectionIsSafe | ReconnectNeverThrows |
| | SubscriptionsFit | SubscriptionInv, the invariant behind the next |
| | SubscriptionsSettle | OneSubscriptionLeft |
| `ModelRows_proofs` | RowsTyped | ModelTypeOK, if nothing is rolled back after a push of it |
| | RowsAdvance | RowsNeverGoBack, likewise, for targets other than the client list |
| | RowsComplete | NothingMissing, likewise, while no answer comes to the LIMIT |
| | RowsExact | NothingForeign, likewise, for targets that ask for ids only |
| | RowsCompleteInShortRuns | NothingMissing, if nothing is rolled back after a push of it and there are fewer revisions than the LIMIT |
| `InterfaceSync_proofs` | HeldStaysValid | HeldIsValid |
| | WritesStayWithRecords | WritesBelong |

**Engine.** The inductive invariant is
`IInv == TypeOK /\ CountersAhead /\ PurgedRows /\ LogTellsRows`. LogTellsRows is
not inductive alone: a new row could take the id of an old one or a change the
revision of another unless the counters are ahead of all ids and revisions in
use (`CountersAhead`), and at the second DELETE the changes of clients may go
only because their rows have gone already (`PurgedRows`). There is one lemma per
action; what `InsertChange` leaves alone (`ToldUntouched`,
`ChangesAfterInsert`) is shared. The refinement maps life and version of a
record to what its changes say (`LifeOf`, `Newest`); that the newest revision
is what `Max` says needs `BoundedSetHasMax`, proved by well-founded induction
on the integers, and `LifeTold` relates the changes to the row.

**Start-up.** Each step is a step of the engine or leaves it alone, so the
engine's theorems hold of the whole life of the process. The schema invariant
adds what is known while the schema is being created: no version row, and no
engine.

**Server.** `ServerTypes` adds to ServerTypeOK what its proof needs of messages
and counters. `CommandIsEngineStep` shows that each command is one operation
of the engine or none, so `ServerSpec => Spec`, and with it all theorems about
the engine hold behind any number of connections and under the faults. The
client list needs four facts at once, `ClientList`: an authentication not yet
handled is the first message of a connection not yet authenticated
(`FirstAndOnce`), or a second one would orphan the first record; only open
connections of a running server are authenticated (`OnlyOpen`); their ids
differ and are ids already used (`OwnIds`), or the next record would belong to
two; and each live client record is owned (`Owned`), which after a restart
rests on `PurgedRows` of the engine. `NoFaults` is an assumption of these
theorems because without it the code does leave records behind: a disconnect
slot whose delete fails only logs it.

**Feed.** `Base` puts the invariants of engine and server together and adds
two facts. No two changes have the same revision (`OnePerRevision`), without
which nothing could be said to be sent once. And `FeedShape`: nothing is under way to
or from a connection that is not open, whatever names a subscription names one
that was handed out, and no subscription starts from a revision still to come.
The steps of the server are many, but what one of them does to one connection is
one of five things (`StepMoves`): it is gone or not yet there (`Silent`), it is
answered without news and may lose subscriptions (`Unheard`), it hears of a
write, its own or another's, pushes before the answer (`Hears`), it subscribes
(`Joins`), or it hears of a write that is then rolled back (`Misled`). Each
theorem has one case for each of these and none for the commands.

- FeedComplete: a subscription joins with the answer of changes(), which misses
  a due change only if it is full and ends before it (`AnswerIsOldest`, which
  counts the changes the LIMIT takes); from then on every change that is due to it
  is one it hears of.
- FeedOrdered needs that what is sent is newer than all in the log before, which a
  rolled-back push breaks: the next change takes its revision again. So it
  assumes that neither a further push nor the commit fails after the first
  push (`"rollback" \notin Faults`); no other theorem of the module does.
- OwnPushFirst rests on the answers being last in what one step sends, and on an
  acknowledgement naming a revision no earlier message can name.

**Byte stream.** WholeAndInOrder says nothing of what is under way. `SocketInv`
adds that the bytes in the device and on the wire are a suffix of the frames of
consecutive messages (`Framed`), and that buffer and stream fit together: either
the next byte begins a frame (`Between`), or the buffer holds the first bytes
of a message that the next byte goes on with (`Inside`), or a slot waits and
nothing is read (`Stuck`). A sequence of frames is described by where each byte
lies in its frame and what follows it (`FrameAt`), not as a concatenation of
frames, so that no induction over their number is needed. A message has at
least one byte (`SizeAssumption`: it is a JSON object), or the payloads of two
messages could be the same and their order would not show.

**Reconnection.** ReconnectNeverThrows is not inductive: that connecting by hand
and the queued call exclude each other rests on m_shouldBeConnected being set
while one is queued, and that a message handled meanwhile changes nothing on
there being none to handle over an unconnected socket (`ReconnectInv`).

**Subscriptions.** OneSubscriptionLeft speaks of the moments at which no message
is under way; `SubscriptionInv` says of every other moment why it will come
true. It describes the tables of server and client (`ServerSide`, `ClientSide`),
that no two calls are about one Subscribtion object (`Objects`) and, for a
connection both ends hold open, the protocol: messages are answered in the order
they were sent (`InTurn`), each by what its sender waits for (`Requested`,
`Awaited`); every subscription of the server is the client's, is being told to
it, or is being dropped (`Ids`); and a load is under way or m_subscription has
been asked for, is granted, or is there, for the present target (`Finding`,
`Loaded`). The ids of the session before are the delicate part: after a
reconnection the client unsubscribes an id the new connection may give to
another subscription. It is `Harmless` because no subscribe comes before it on
the wire. Steps are treated by what they do to the two streams, not one
by one: pushes (`PushesAreHarmless`), an answer of the server (`ServedSession`),
and a turn of the client, which takes a message, forgets a call and sends some
(`Turn`). The theorem assumes no fault away, and nothing of the bounds.

**Editors.** There are two invariants. `ValidInv` is about types: `CoercedFits`
shows that for every type coerce() gives what validateField() takes, of all that
the server sends but JSON and a client without an address, so every value held
and every editor's value fits its field and no program ends (`Valid`). `SyncInv`
is about what writes say. WritesBelong needs to know where a value on its way
came from: what a client holds or shows of a record was entered there by its
user or has been stored in it (`Remembered`), and a record for which nobody has
entered anything is the same on all clients, in all editors and in no update
(`Quiet`), so that leaving it writes nothing. The three user actions and
`Receives` change one client only and share `ClientMoves`.

**Types of the rows.** That a row is one whole record under its own id depends
on every answer and push that is under way having whole records, on no two of
its changes having one revision, and on what callbacks put back being records
(`DataInv`, with `Letters` for the streams). `TypesInv` is that with the
engine's invariant and SubscriptionInv. `TriggeredMeans` says what a response
does to one row: the last change of the record decides, and a row no change is
about stays. `"rollback" \notin Faults` is assumed from here on: a change pushed and
then rolled back shares its revision with the next one, and with it nothing of
the following is true.

**Rows do not go back.** A push of an edit may be on its way behind the answer
to a find that has read it already, or before the changes of a subscription that
tell it again. `AgesInv` is why the row never gets older all the same: what is
held (shown, or to be put back) is no newer than the tables, and each message
under way tells a record no older than what is held of it and what the messages
before tell (`InOrder`). Queries about the client list are left out, because the
wipe at a restart gives its revisions away (`NoClients`).

**The copy.** NothingMissing and NothingForeign speak of moments at which no
message is under way; `CopyInv` says at every other moment, for each record,
what will make it right. The last find is for the present target
(`FindsTarget`); its answer is right but for what has changed since the
revision the next subscription will start from (`FoundRightly`); so are the rows
while that subscription is asked for (`AsksRightly`); once it is granted or
there, the last message that mentions a record tells it rightly, or none
mentions it and its row is right (`GrantsRightly`, `ListensRightly`, `Follows`);
and a row with an edit under way, or a refusal of one, may be wrong until that
is settled (`Excused`). Server steps change what is right
(`Right`) and tell it in one step; a turn of the client takes the first message
and applies it. The proof needs of the answer to subscribe that it is not cut
off: `NoFullAnswer` says that no subscription under way would be answered with
`ChangesLimit` changes (DatabaseEngine.cpp:96). It is a hypothesis on the
run, `[]NoFullAnswer`, and not a weakening of the invariant: with 100 changes
or more between find and subscribe the code does lose the others, as the model
never asks for the rest. RowsCompleteInShortRuns replaces it by a bound on the
revisions under which it always holds (`FewChanges`, an injection of the changes
into the revisions).

Only model-checked, and why:

- ShownTogetherOnce, which relates rows to a history; ObjectCurrent and
  ForgetsOnlyTheDead of the RecordObject, whose argument is that of the copy
  again for one record.
- RefusalMeansConnected and ConnectedClientsAreListed, which the code violates.
- EventuallyCurrent, FuturesComplete, EveryMessageArrives, EditorsSettle:
  liveness is out of the prover's reach.

## 5. Not modelled, and limits of what is said

- ClientMainWindow and dialogs, the printer client and the empty programs:
  widget code without a protocol of its own. Storing a profile, which has one
  (find, then create or update), never gets past validation: the profile's data
  is a QString where the field wants an object, so create() throws.
- The embedded connection of a build without network, the differences of the
  transports, command line options, malformed messages.
- Conversions from and to JSON, other than what they do to types: both ends use
  the same code. Texts that convert() cannot parse.
- Filters that join other tables ('>'): every pushed change of the table matches
  them (ChangeQuery.cpp:52), so nothing exact could be claimed.
- With a filter on a field changes() sends rows outside the target, and a row
  that leaves the filter is not pushed (TODO at DatabaseEngine.cpp:82): with
  filters only missing rows are checked, not foreign ones.
- Rows and records put back by an error callback may be stale or deleted; they
  are excepted by name (`rolledBack`, `undone`) and nothing else is.
- An edit made between create() and created() updates the id 0 and is refused;
  its undo takes away the id of the record created meanwhile, whose
  subscription lives on (RecordObject.cpp:51, 75). If the object is then created
  again, it follows two records and either may replace the other:
  ForgetsOnlyTheDead excepts an object this has happened to (`orphaned`).
- Where a push or the commit fails a subscriber may have been told of a change
  that was then rolled back, and the next change takes the same revision: only
  FeedMissesNothing, AcknowledgedIsCommitted and OwnPushComesFirst are claimed
  there.
- A commit that fails leaves nothing behind; one that reports an error and has
  happened all the same is not modelled.
- Bytes of a frame kept by the MessageSocket of a ServerConnection over a
  reconnection are in MessageSocket only.
- The record of a client whose socket has no address says "local" or "Embedded"
  for its IP, which loads and which no update may send
  (DatabaseServer.cpp:105, 124; Validators.cpp:152): HeldIsValid excepts it.
- Editors on a view show what they did when the row was selected, whatever is
  pushed, and write that back when the user leaves the row: what others entered
  meanwhile is lost. WritesBelong says what can be said of such a write, and
  EditorsSettle leaves what these editors show out.
- One model per connection: two would swap pushes after a reconnection that
  hands out their ids in the other order, until their finds are answered.
- A RecordObject subscribes once, so after a reconnection it gets no changes
  and ObjectCurrent would be false: it is modelled over one connection. Futures
  of a lost connection are never completed and stay in `calls`.
- setData between the loss of the connection and the disabling of the editors
  (AbstractRecordModel.cpp:60) throws after m_rows has changed; the user of the
  models acts only while connected.
- `InTurns`: a combo box on a RecordObject writes each change it is told of.
  When two users change such a field at once their updates can echo for ever;
  EditorsSettle is checked for users who wait for each other there, and for all
  others without that.
- The editor of a stage's date is left out of `Forms`: its value is a DateTime,
  which a Date field refuses with an exception. Editors on a combo box hear
  nothing of what others enter (the box gets its model after they are
  connected, CompetitionEditWidget.cpp:35) and are excepted by EditorsSettle.
- On MySQL a start that died in the creation leaves a database on which every
  later start throws: ServesCompleteSchema covers it, CreationIsAllOrNothing is
  stated for transactional DDL.

## 6. What is left

1. Proofs of ObjectCurrent and ForgetsOnlyTheDead. What is proved of the
   server and of the connection under a model holds under an object too, and
   would have to move from `ModelSubscription_proofs` and `ModelRows_proofs` to
   a module about ServerConnection.
2. A proof of ShownTogetherOnce for readers, from CopyInv: what is shown is
   the past state of the target at the revision the messages under way start
   from.
3. An abstract specification `LaggingView` (a copy that is some past state of
   the table), which RecordModelHistory implements.
4. A second model on the connection, with the exchange of subscription ids
   after a reconnection; a run at the LIMIT of changes(), one with joins.
