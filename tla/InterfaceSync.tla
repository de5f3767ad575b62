---------------------------- MODULE InterfaceSync ----------------------------
(***************************************************************************)
(* The editors of the clients (clientlib/InterfaceSync.cpp), each kept     *)
(* equal to one field of a record: of a RecordObject (ItemSync), of the    *)
(* current row of a view, or of a combo box that lists the rows            *)
(* (ViewSync).  Below them lie the two classes that hold the records,      *)
(* RecordObject and AbstractRecordModel, and a server that puts all        *)
(* updates in one order and pushes each to every client.                   *)
(*                                                                         *)
(* Records are neither added nor removed, the server refuses nothing and   *)
(* connections stay: RecordObject and AbstractRecordModel have all that.   *)
(* A slot that throws ends the program, which catches nothing.             *)
(***************************************************************************)
EXTENDS Validators, Naturals, Sequences

CONSTANTS
    Client,
    Record,         \* the records of the table
    Datum,          \* what a value says, whatever its QVariant type
    Nobody,         \* the current row where there is none
    Empty,          \* what a widget shows that has been set to a null value
    Forms,          \* the editors a client may have: a source and a widget
    Edited,         \* the columns <<table, field>> that have editors
    InTurns,        \* users wait for each other where changes echo
    MaxEdits        \* bound: updates that all users bring about

ASSUME NoneAssumption == Nobody \notin Record /\ Empty \notin Datum
ASSUME SomeAssumption == Record # {} /\ Datum # {}
ASSUME InTurnsAssumption == InTurns \in BOOLEAN

VARIABLES
    column,         \* the <<table, field>> that all is about
    ip,             \* what the server has written into the ip of a client
    form,           \* form[c].source: "item", "view", "combo" or "none"
    stored,         \* the server's value of the field, by record
    held,           \* m_record, or m_rows: its value and its QVariant type
    current,        \* the current row; the object's record
    shows,          \* what the widget shows
    alive,          \* the program has not been ended by an exception
    up, down,       \* updates to the server, pushes from it
    past,           \* history: what has been stored in each record
    entered,        \* history: what the user of each client entered, and where
    edits           \* updates the users have brought about

kinds == <<column, ip, form>>
syncVars == <<kinds, stored, held, current, shows, alive, up, down, past,
              entered, edits>>

-----------------------------------------------------------------------------
(* Widgets. *)

\* The type of what the getter returns; the data of an item of a combo box
\* that is not editable is a string in every use.
Getter(widget) ==
    CASE widget = "QDateTimeEdit" -> "DateTime"
      [] widget = "QSpinBox" -> "Int"
      [] widget = "QCheckBox" -> "Bool"
      [] OTHER -> "String"

\* The signal the editor listens to comes also when the program sets a value.
Signals(widget) == widget \notin {"QLabel", "QLineEdit"}

\* What a widget shows once it has been set to a null value.
Blanked(widget, before) == IF widget = "QDateTimeEdit" THEN before ELSE Empty

-----------------------------------------------------------------------------
(* The records in a client. *)

\* The type of a field in what the server sends.
Sent(table, field) ==
    IF TypeOf(table, field) = "IP" THEN ip ELSE MetaType(TypeOf(table, field))

\* And what a client makes of a record, and of a value, that arrives.
LoadedTypes(table) ==
    CoercedRecord(table, [f \in DOMAIN FieldsOf[table] |-> InJson(Sent(table, f))])
Loaded(datum) == [of |-> datum, type |-> LoadedTypes(column[1])[column[2]]]

\* An editor's slot with a value that is to be written into record r.  Without
\* a current row it does nothing, nor does setData() with the value that is
\* there; setValue() of a RecordObject always writes and sends.
Writes(c, rows, r, datum) ==
    /\ r # Nobody
    /\ form[c].source = "item" \/ rows[r].of # datum

Written(c, rows, r, datum) ==
    IF Writes(c, rows, r, datum)
    THEN [rows EXCEPT ![r] = [of |-> datum, type |-> Getter(form[c].widget)]]
    ELSE rows

\* The types of a record that has been loaded but for the field of the editor.
TypesWith(variant) == [LoadedTypes(column[1]) EXCEPT ![column[2]] = variant]

\* ServerConnection::update() throws for a type a field does not take; a model
\* sends the field that changed, a RecordObject all there are.
Throws(c, rows, r, datum) ==
    /\ Writes(c, rows, r, datum)
    /\ IF form[c].source = "item"
       THEN ~ValidRecord(column[1], TypesWith(Getter(form[c].widget)))
       ELSE ~ValidField(column[1], column[2], Getter(form[c].widget))

Updates(c, rows, r, datum) ==
    IF Writes(c, rows, r, datum) /\ ~Throws(c, rows, r, datum)
    THEN <<[record |-> r, of |-> datum]>> ELSE <<>>

\* The editor is told of a push: updated() names every field the writer sent.
\* The dataChanged() of a model ends, for a push, in a column the model has not
\* (AbstractRecordModel.cpp:193); that index is invalid and its row -1, so that
\* no slot finds the current row before it (:89, :120).
Told(c, m) == m.record = current[c] /\ form[c].source = "item"

-----------------------------------------------------------------------------
(* Actions. *)

Echoes(f) == f.source = "item" /\ f.widget # "QLineEdit"
UnderWay == \E c \in Client : up[c] # <<>> \/ down[c] # <<>>

\* A user may bring an update about.
InTurn ==
    /\ edits < MaxEdits
    /\ InTurns /\ UnderWay => \A d \in Client : ~Echoes(form[d])

\* The user enters another value: the editor's signal.
UserEdits(c, datum) ==
    /\ alive[c] /\ form[c].source # "none"
    /\ current[c] # Nobody          \* the editor is disabled otherwise
    /\ InTurn /\ shows[c] # datum
    /\ edits' = edits + 1
    /\ entered' = entered \cup {<<c, current[c], datum>>}
    /\ shows' = [shows EXCEPT ![c] = datum]
    /\ held' = [held EXCEPT ![c] = Written(c, @, current[c], datum)]
    /\ alive' = [alive EXCEPT ![c] = ~Throws(c, held[c], current[c], datum)]
    /\ up' = [up EXCEPT ![c] = @ \o Updates(c, held[c], current[c], datum)]
    /\ UNCHANGED <<kinds, stored, current, down, past>>

\* The setter has run: a widget that signals it comes to its slot once more.
Shown(c, rows, datum) ==
    LET resounds == Signals(form[c].widget) /\ shows[c] # datum
    IN  /\ shows' = [shows EXCEPT ![c] = datum]
        /\ held' = [held EXCEPT ![c] =
               IF resounds THEN Written(c, rows, current[c], datum) ELSE rows]
        /\ alive' = [alive EXCEPT ![c] =
               ~(resounds /\ Throws(c, rows, current[c], datum))]
        /\ up' = [up EXCEPT ![c] =
               @ \o IF resounds THEN Updates(c, rows, current[c], datum) ELSE <<>>]

\* The client takes a push.
Receives(c) ==
    LET m == Head(down[c])
        rows == [held[c] EXCEPT ![m.record] = Loaded(m.of)]
    IN  /\ alive[c] /\ down[c] # <<>>
        /\ down' = [down EXCEPT ![c] = Tail(@)]
        /\ \/ Told(c, m) /\ Shown(c, rows, m.of)
           \/ /\ ~Told(c, m)
              /\ held' = [held EXCEPT ![c] = rows]
              /\ UNCHANGED <<shows, alive, up>>
        /\ UNCHANGED <<kinds, stored, current, past, entered, edits>>

\* Mutant of SelectsRow: the setter runs before the getter.
SelectsRowLate(c, r) ==
    LET from == current[c]
        now == IF r = Nobody THEN shows[c] ELSE held[c][r].of
        writes == Writes(c, held[c], from, now)
    IN  /\ alive[c] /\ form[c].source = "view" /\ r # from
        /\ writes => InTurn
        /\ edits' = IF writes THEN edits + 1 ELSE edits
        /\ current' = [current EXCEPT ![c] = r]
        /\ held' = [held EXCEPT ![c] = Written(c, @, from, now)]
        /\ up' = [up EXCEPT ![c] = @ \o Updates(c, held[c], from, now)]
        /\ alive' = [alive EXCEPT ![c] = ~Throws(c, held[c], from, now)]
        /\ shows' = [shows EXCEPT ![c] = now]
        /\ UNCHANGED <<kinds, stored, down, past, entered>>

\* currentRowChanged(): what the widget shows goes into the previous row, then
\* it gets the value of the new one.  Its signal then finds that value there.
SelectsRow(c, r) ==
    LET from == current[c]
        writes == Writes(c, held[c], from, shows[c])
    IN  /\ alive[c] /\ form[c].source = "view" /\ r # from
        /\ writes => InTurn
        /\ edits' = IF writes THEN edits + 1 ELSE edits
        /\ current' = [current EXCEPT ![c] = r]
        /\ held' = [held EXCEPT ![c] = Written(c, @, from, shows[c])]
        /\ up' = [up EXCEPT ![c] = @ \o Updates(c, held[c], from, shows[c])]
        /\ alive' = [alive EXCEPT ![c] = ~Throws(c, held[c], from, shows[c])]
        /\ shows' = [shows EXCEPT ![c] =
               IF r = Nobody THEN Blanked(form[c].widget, @) ELSE held[c][r].of]
        /\ UNCHANGED <<kinds, stored, down, past, entered>>

\* currentIndexChanged() of a combo box: the widget gets the new value.
SelectsItem(c, r) ==
    /\ alive[c] /\ form[c].source = "combo" /\ r # current[c]
    /\ current' = [current EXCEPT ![c] = r]
    /\ shows' = [shows EXCEPT ![c] =
           IF r = Nobody THEN Blanked(form[c].widget, @) ELSE held[c][r].of]
    /\ UNCHANGED <<kinds, stored, held, alive, up, down, past, entered, edits>>

\* Mutant of Serves: the writer is left out.
ServesOthers(c) ==
    /\ up[c] # <<>>
    /\ up' = [up EXCEPT ![c] = Tail(@)]
    /\ stored' = [stored EXCEPT ![Head(up[c]).record] = Head(up[c]).of]
    /\ down' = [d \in Client |->
           IF alive[d] /\ d # c THEN Append(down[d], Head(up[c])) ELSE down[d]]
    /\ past' = past \cup {<<Head(up[c]).record, Head(up[c]).of>>}
    /\ UNCHANGED <<kinds, held, current, shows, alive, entered, edits>>

\* The server: each update that arrives is pushed to everyone.
Serves(c) ==
    /\ up[c] # <<>>
    /\ up' = [up EXCEPT ![c] = Tail(@)]
    /\ stored' = [stored EXCEPT ![Head(up[c]).record] = Head(up[c]).of]
    /\ down' = [d \in Client |->
           IF alive[d] THEN Append(down[d], Head(up[c])) ELSE down[d]]
    /\ past' = past \cup {<<Head(up[c]).record, Head(up[c]).of>>}
    /\ UNCHANGED <<kinds, held, current, shows, alive, entered, edits>>

\* Every client has read the records (a table loads if coerce() makes something
\* of each field) and shows one, in an editor of a type that the field takes.
\* A client is stored with the address of its socket or, if it has none, with a
\* word for it.
SyncInit ==
    LET first == CHOOSE r \in Record : TRUE
    IN
    \E table \in ValidatedTable : \E field \in DOMAIN FieldsOf[table] :
        /\ column = <<table, field>>
        /\ ip \in IF table = "client" THEN StringVariant ELSE {"Address"}
        /\ \A f \in DOMAIN FieldsOf[table] :
               Coercible(table, f, InJson(Sent(table, f)))
        /\ form \in [Client -> {f \in Forms :
               \/ f.source = "none"
               \/ column \in Edited /\ Getter(f.widget) \in Accepted(TypeOf(table, field))}]
        /\ stored \in [Record -> Datum]
        /\ held = [c \in Client |-> [r \in Record |-> Loaded(stored[r])]]
        /\ current = [c \in Client |-> first]
        /\ shows = [c \in Client |-> stored[first]]
        /\ alive = [c \in Client |-> TRUE]
        /\ up = [c \in Client |-> <<>>] /\ down = [c \in Client |-> <<>>]
        /\ past = {<<r, stored[r]>> : r \in Record}
        /\ entered = {} /\ edits = 0

ServerActs == \E c \in Client : Serves(c)
ClientsReceive == \E c \in Client : Receives(c)

UsersAct ==
    \E c \in Client :
        \/ \E datum \in Datum : UserEdits(c, datum)
        \/ \E r \in Record \cup {Nobody} : SelectsRow(c, r) \/ SelectsItem(c, r)

SyncNext == ServerActs \/ ClientsReceive \/ UsersAct

\* The event loops of the programs run on; the users need not do anything.
SyncSpec == /\ SyncInit /\ [][SyncNext]_syncVars
            /\ WF_syncVars(ServerActs) /\ WF_syncVars(ClientsReceive)

-----------------------------------------------------------------------------
(* Properties. *)

\* Whatever a client holds of a record passes the validation of the next
\* update: a RecordObject sends the fields it has loaded along with the one the
\* user changed (RecordObject.cpp:46-49), and an exception there ends the
\* program.  So coerce() must give back what validateField() takes.  It does for
\* every table that loads but that of the clients: the record of a client whose
\* socket has no address says "local" or "Embedded" (DatabaseServer.cpp:105,
\* 124), which loads and which no update may send (Validators.cpp:152).
HeldIsValid ==
    (column[1] = "client" => ip = "Address") =>
        \A c \in Client :
            /\ alive[c]
            /\ \A r \in Record : ValidRecord(column[1], TypesWith(held[c][r].type))

\* An update says what the user of that client entered for that record.  There
\* are two exceptions: leaving a row writes back what its editor shows
\* (InterfaceSync.cpp:94-96), however old, and an editor on a RecordObject that
\* signals every change sends what it is told of (:439).  Even they send only
\* what that very record has held before, and only once somebody has entered
\* something for it: going from row to row neither mixes records up nor writes
\* where no one has.
WritesBelong ==
    \A c \in Client : \A i \in DOMAIN up[c] :
        LET r == up[c][i].record
        IN  \/ <<c, r, up[c][i].of>> \in entered
            \/ /\ form[c].source = "view" \/ Echoes(form[c])
               /\ <<r, up[c][i].of>> \in past
               /\ \E d \in Client : \E datum \in Datum : <<d, r, datum>> \in entered

\* In the end, when the users bring no more updates about, no update goes round
\* for ever, every client holds what is stored, and so shows every editor on a
\* RecordObject.  The editors on a view and on a combo box are not told of what
\* others enter.
EditorsSettle ==
    <>[](\A c \in Client :
            /\ up[c] = <<>> /\ down[c] = <<>>
            /\ \A r \in Record : held[c][r].of = stored[r]
            /\ form[c].source = "item" => shows[c] = stored[current[c]])
=============================================================================
