------------------------- MODULE InterfaceSync_proofs -------------------------
(***************************************************************************)
(* Proofs about InterfaceSync, for any clients, records, values and        *)
(* editors, and any number of edits.                                       *)
(***************************************************************************)
EXTENDS InterfaceSync, TLAPS

Showable == Datum \cup {Empty}
Update == [record : Record, of : Showable]

\* The types a client may hold a value with.
Kinds == {Getter(form[c].widget) : c \in Client} \cup {LoadedTypes(column[1])[column[2]]}
Rows == [Record -> [of : Showable, type : Kinds]]

SyncTypes ==
    /\ held \in [Client -> Rows]
    /\ stored \in [Record -> Showable]
    /\ current \in [Client -> Record \cup {Nobody}]
    /\ shows \in [Client -> Showable]
    /\ up \in [Client -> Seq(Update)]
    /\ down \in [Client -> Seq(Update)]

\* Client c has the value v of record r from its user or from the server.
Known(c, r, v) == <<r, v>> \in past \/ <<c, r, v>> \in entered

Remembered ==
    \A c \in Client :
        /\ \A r \in Record : Known(c, r, held[c][r].of)
        /\ current[c] # Nobody => Known(c, current[c], shows[c])
        /\ \A i \in DOMAIN down[c] : <<down[c][i].record, down[c][i].of>> \in past

\* The records for which somebody has entered something.
Touched ==
    {r \in Record : \E d \in Client : \E datum \in Datum : <<d, r, datum>> \in entered}

\* A record for which nobody has is the same everywhere.
Quiet ==
    \A r \in Record : \A c \in Client :
        r \notin Touched =>
            /\ held[c][r].of = stored[r]
            /\ current[c] = r => shows[c] = stored[r]
            /\ \A i \in DOMAIN up[c] : up[c][i].record # r
            /\ \A i \in DOMAIN down[c] : down[c][i].record # r

SyncInv == SyncTypes /\ Remembered /\ Quiet /\ WritesBelong

-----------------------------------------------------------------------------
(* Updates and rows. *)

\* What a sequence is longer by.
LEMMA Appended ==
    ASSUME NEW s \in Seq(Update), NEW t, NEW u \in Update, t = <<>> \/ t = <<u>>
    PROVE  /\ s \o t \in Seq(Update)
           /\ \A i \in DOMAIN (s \o t) :
                  \/ i \in DOMAIN s /\ (s \o t)[i] = s[i]
                  \/ t = <<u>> /\ (s \o t)[i] = u
<1>1. CASE t = <<>>
  BY <1>1
<1>2. CASE t = <<u>>
  <2>1. s \o t \in Seq(Update) /\ DOMAIN (s \o t) = 1..Len(s) + 1
    BY <1>2
  <2>2. ASSUME NEW i \in DOMAIN (s \o t)
        PROVE  \/ i \in DOMAIN s /\ (s \o t)[i] = s[i]
               \/ (s \o t)[i] = u
    <3>1. CASE i <= Len(s)
      BY <1>2, <2>1, <3>1
    <3>2. CASE i = Len(s) + 1
      BY <1>2, <3>2
    <3> QED
      BY <2>1, <3>1, <3>2
  <2> QED
    BY <1>2, <2>1, <2>2
<1> QED
  BY <1>1, <1>2

LEMMA HeadTail ==
    ASSUME NEW s \in Seq(Update), s # <<>>
    PROVE  /\ Head(s) \in Update /\ Tail(s) \in Seq(Update)
           /\ 1 \in DOMAIN s /\ Head(s) = s[1]
           /\ \A i \in DOMAIN Tail(s) : i + 1 \in DOMAIN s /\ Tail(s)[i] = s[i + 1]
OBVIOUS

\* What an editor's slot makes of the rows and sends.
LEMMA WrittenRows ==
    ASSUME NEW c \in Client, NEW rows \in Rows, NEW r \in Record \cup {Nobody},
           NEW datum \in Showable
    PROVE  /\ Written(c, rows, r, datum) \in Rows
           /\ \A x \in Record :
                  \/ Written(c, rows, r, datum)[x].of = rows[x].of
                  \/ /\ x = r /\ Writes(c, rows, r, datum)
                     /\ Written(c, rows, r, datum)[x].of = datum
           /\ \/ Updates(c, rows, r, datum) = <<>>
              \/ /\ Writes(c, rows, r, datum) /\ r \in Record
                 /\ Updates(c, rows, r, datum) = <<[record |-> r, of |-> datum]>>
<1>1. Getter(form[c].widget) \in Kinds
  BY DEF Kinds
<1>2. /\ Written(c, rows, r, datum) \in Rows
      /\ \A x \in Record :
             \/ Written(c, rows, r, datum)[x].of = rows[x].of
             \/ /\ x = r /\ Writes(c, rows, r, datum)
                /\ Written(c, rows, r, datum)[x].of = datum
  <2>1. CASE Writes(c, rows, r, datum)
    <3>1. r \in Record
      BY <2>1 DEF Writes
    <3> QED
      BY <1>1, <2>1, <3>1 DEF Written, Rows
  <2>2. CASE ~Writes(c, rows, r, datum)
    BY <2>2 DEF Written
  <2> QED
    BY <2>1, <2>2
<1>3. \/ Updates(c, rows, r, datum) = <<>>
      \/ /\ Writes(c, rows, r, datum) /\ r \in Record
         /\ Updates(c, rows, r, datum) = <<[record |-> r, of |-> datum]>>
  BY DEF Updates, Writes
<1> QED
  BY <1>2, <1>3

LEMMA RowsKept == UNCHANGED kinds => Kinds' = Kinds /\ Rows' = Rows
  BY DEF kinds, Kinds, Rows, LoadedTypes, CoercedRecord, Coerced, Sent, TypeOf,
         MetaType, InJson, Getter

-----------------------------------------------------------------------------
(* What writes say. *)

\* Client c comes to hold rows, to show v for record r and to send `sent', all
\* of which it may.
LEMMA ClientMoves ==
    ASSUME SyncInv, NEW c \in Client, UNCHANGED <<kinds, stored, past>>,
           entered \subseteq entered',
           NEW rows \in Rows, NEW r \in Record \cup {Nobody}, NEW v \in Showable,
           NEW sent, NEW u \in Update, sent = <<>> \/ sent = <<u>>,
           held' = [held EXCEPT ![c] = rows],
           current' = [current EXCEPT ![c] = r],
           shows' = [shows EXCEPT ![c] = v],
           up' = [up EXCEPT ![c] = up[c] \o sent],
           down' = down \/ (down[c] # <<>> /\ down' = [down EXCEPT ![c] = Tail(down[c])]),
           \A x \in Record : <<x, rows[x].of>> \in past \/ <<c, x, rows[x].of>> \in entered',
           \A x \in Record : x \in Touched' \/ rows[x].of = stored[x],
           r # Nobody =>
               /\ <<r, v>> \in past \/ <<c, r, v>> \in entered'
               /\ r \notin Touched' => v = stored[r],
           sent # <<>> =>
               \/ <<c, u.record, u.of>> \in entered'
               \/ /\ form[c].source = "view" \/ Echoes(form[c])
                  /\ <<u.record, u.of>> \in past,
           sent # <<>> => u.record \in Touched'
    PROVE  SyncInv'
<1>1. Touched \subseteq Touched'
  BY DEF Touched
<1>2. /\ up[c] \o sent \in Seq(Update)
      /\ \A i \in DOMAIN (up[c] \o sent) :
             \/ i \in DOMAIN up[c] /\ (up[c] \o sent)[i] = up[c][i]
             \/ sent = <<u>> /\ (up[c] \o sent)[i] = u
  BY Appended DEF SyncInv, SyncTypes
<1>3. \A d \in Client :
          /\ held'[d] = IF d = c THEN rows ELSE held[d]
          /\ current'[d] = IF d = c THEN r ELSE current[d]
          /\ shows'[d] = IF d = c THEN v ELSE shows[d]
          /\ up'[d] = IF d = c THEN up[c] \o sent ELSE up[d]
  BY DEF SyncInv, SyncTypes
<1>4. /\ down' \in [Client -> Seq(Update)]
      /\ \A d \in Client : \A i \in DOMAIN down'[d] :
             \E j \in DOMAIN down[d] : down'[d][i] = down[d][j]
  <2>1. CASE down' = down
    BY <2>1 DEF SyncInv, SyncTypes
  <2>2. CASE down[c] # <<>> /\ down' = [down EXCEPT ![c] = Tail(down[c])]
    <3>1. down \in [Client -> Seq(Update)]
      BY DEF SyncInv, SyncTypes
    <3>2. /\ Tail(down[c]) \in Seq(Update)
          /\ \A i \in DOMAIN Tail(down[c]) :
                 i + 1 \in DOMAIN down[c] /\ Tail(down[c])[i] = down[c][i + 1]
      BY <2>2, <3>1, HeadTail
    <3> QED
      BY <2>2, <3>1, <3>2
  <2> QED
    BY <2>1, <2>2
<1>5. SyncTypes'
  BY <1>2, <1>4, RowsKept DEF SyncInv, SyncTypes, Update, Showable
<1>6. Remembered'
  <2> SUFFICES ASSUME NEW d \in Client
               PROVE  /\ \A x \in Record : Known(d, x, held[d][x].of)'
                      /\ current'[d] # Nobody => Known(d, current[d], shows[d])'
                      /\ \A i \in DOMAIN down'[d] :
                             <<down'[d][i].record, down'[d][i].of>> \in past
    BY DEF Remembered
  <2>1. \A i \in DOMAIN down'[d] : <<down'[d][i].record, down'[d][i].of>> \in past
    BY <1>4 DEF SyncInv, Remembered
  <2>2. CASE d = c
    BY <1>3, <2>1, <2>2 DEF Known
  <2>3. CASE d # c
    BY <1>3, <2>1, <2>3 DEF SyncInv, Remembered, Known
  <2> QED
    BY <2>2, <2>3
<1>7. Quiet'
  <2> SUFFICES ASSUME NEW x \in Record, NEW d \in Client, x \notin Touched'
               PROVE  /\ held'[d][x].of = stored[x]
                      /\ current'[d] = x => shows'[d] = stored[x]
                      /\ \A i \in DOMAIN up'[d] : up'[d][i].record # x
                      /\ \A i \in DOMAIN down'[d] : down'[d][i].record # x
    BY DEF Quiet
  <2>1. /\ held[d][x].of = stored[x]
        /\ current[d] = x => shows[d] = stored[x]
        /\ \A i \in DOMAIN up[d] : up[d][i].record # x
        /\ \A i \in DOMAIN down[d] : down[d][i].record # x
    BY <1>1 DEF SyncInv, Quiet
  <2>2. \A i \in DOMAIN down'[d] : down'[d][i].record # x
    BY <1>4, <2>1
  <2>3. \A i \in DOMAIN up'[d] : up'[d][i].record # x
    BY <1>2, <1>3, <2>1
  <2>4. CASE d = c
    <3>1. held'[c] = rows
      BY <1>3
    <3>2. rows[x].of = stored[x]
      BY Zenon
    <3>3. ASSUME r = x PROVE v = stored[x]
      BY <3>3, NoneAssumption
    <3> QED
      BY <1>3, <2>2, <2>3, <2>4, <3>1, <3>2, <3>3
  <2>5. CASE d # c
    BY <1>3, <2>1, <2>2, <2>3, <2>5
  <2> QED
    BY <2>4, <2>5
<1>8. WritesBelong'
  <2>1. ASSUME NEW d \in Client, NEW i \in DOMAIN up'[d]
        PROVE  \/ <<d, up'[d][i].record, up'[d][i].of>> \in entered'
               \/ /\ form[d].source = "view" \/ Echoes(form[d])
                  /\ <<up'[d][i].record, up'[d][i].of>> \in past
                  /\ up'[d][i].record \in Touched'
    <3>1. CASE i \in DOMAIN up[d] /\ up'[d][i] = up[d][i]
      <4>1. up[d][i].record \in Record
        <5>1. up[d] \in Seq(Update) /\ \A w \in Update : w.record \in Record
          BY DEF SyncInv, SyncTypes, Update
        <5> QED
          BY <3>1, <5>1
      <4>2. \A x \in Record :
                (\E e \in Client : \E datum \in Datum : <<e, x, datum>> \in entered)
                    => x \in Touched
        BY DEF Touched
      <4>3. \/ <<d, up[d][i].record, up[d][i].of>> \in entered
            \/ /\ form[d].source = "view" \/ Echoes(form[d])
               /\ <<up[d][i].record, up[d][i].of>> \in past
               /\ up[d][i].record \in Touched
        <5>1. \/ <<d, up[d][i].record, up[d][i].of>> \in entered
              \/ /\ form[d].source = "view" \/ Echoes(form[d])
                 /\ <<up[d][i].record, up[d][i].of>> \in past
                 /\ \E e \in Client : \E datum \in Datum :
                        <<e, up[d][i].record, datum>> \in entered
          BY <3>1 DEF SyncInv, WritesBelong
        <5> QED
          BY <4>1, <4>2, <5>1
      <4> QED
        BY <1>1, <3>1, <4>3
    <3>2. CASE d = c /\ sent = <<u>> /\ up'[d][i] = u
      BY <3>2
    <3>3. \/ i \in DOMAIN up[d] /\ up'[d][i] = up[d][i]
          \/ d = c /\ sent = <<u>> /\ up'[d][i] = u
      BY <1>2, <1>3, <2>1
    <3> QED
      BY <3>1, <3>2, <3>3
  <2>2. \A x \in Touched' : \E d \in Client : \E datum \in Datum : <<d, x, datum>> \in entered'
    BY DEF Touched
  <2>3. form' = form /\ past' = past
    BY DEF kinds
  <2> QED
    BY <2>1, <2>2, <2>3 DEF WritesBelong, Echoes
<1> QED
  BY <1>5, <1>6, <1>7, <1>8 DEF SyncInv

\* What Remembered and Quiet say of client c and of the push it takes next.
LEMMA ClientKnows ==
    ASSUME SyncInv, NEW c \in Client
    PROVE  /\ held[c] \in Rows /\ current[c] \in Record \cup {Nobody}
           /\ shows[c] \in Showable /\ up[c] \in Seq(Update)
           /\ \A x \in Record : Known(c, x, held[c][x].of)
           /\ current[c] # Nobody => Known(c, current[c], shows[c])
           /\ \A x \in Record : x \in Touched \/ held[c][x].of = stored[x]
           /\ current[c] # Nobody =>
                  current[c] \in Touched \/ shows[c] = stored[current[c]]
           /\ down[c] # <<>> =>
                  /\ Head(down[c]) \in Update
                  /\ <<Head(down[c]).record, Head(down[c]).of>> \in past
                  /\ Head(down[c]).record \in Touched
<1>1. SyncTypes /\ Remembered /\ Quiet
  BY DEF SyncInv
<1>2. /\ held[c] \in Rows /\ current[c] \in Record \cup {Nobody}
      /\ shows[c] \in Showable /\ up[c] \in Seq(Update) /\ down[c] \in Seq(Update)
  BY <1>1 DEF SyncTypes
<1>3. /\ \A x \in Record : Known(c, x, held[c][x].of)
      /\ current[c] # Nobody => Known(c, current[c], shows[c])
  BY <1>1 DEF Remembered
<1>4. /\ \A x \in Record : x \in Touched \/ held[c][x].of = stored[x]
      /\ current[c] # Nobody => current[c] \in Touched \/ shows[c] = stored[current[c]]
  BY <1>1, <1>2 DEF Quiet
<1>5. ASSUME down[c] # <<>>
      PROVE  /\ Head(down[c]) \in Update
             /\ <<Head(down[c]).record, Head(down[c]).of>> \in past
             /\ Head(down[c]).record \in Touched
  <2>1. Head(down[c]) \in Update /\ 1 \in DOMAIN down[c] /\ Head(down[c]) = down[c][1]
    BY <1>2, <1>5, HeadTail
  <2>2. Head(down[c]).record \in Record
    BY <2>1 DEF Update
  <2> QED
    BY <1>1, <2>1, <2>2 DEF Remembered, Quiet
<1> QED
  BY <1>2, <1>3, <1>4, <1>5

LEMMA UserEditsKeeps ==
    ASSUME SyncInv, NEW c \in Client, NEW datum \in Datum, UserEdits(c, datum)
    PROVE  SyncInv'
<1> DEFINE r == current[c]
           rows == Written(c, held[c], r, datum)
           sent == Updates(c, held[c], r, datum)
           u == [record |-> r, of |-> datum]
<1>1. /\ UNCHANGED <<kinds, stored, past>> /\ down' = down
      /\ entered' = entered \cup {<<c, r, datum>>}
      /\ held' = [held EXCEPT ![c] = rows]
      /\ current' = [current EXCEPT ![c] = r]
      /\ shows' = [shows EXCEPT ![c] = datum]
      /\ up' = [up EXCEPT ![c] = up[c] \o sent]
  BY DEF UserEdits, SyncInv, SyncTypes
<1>2. r \in Record /\ datum \in Showable /\ u \in Update
  BY ClientKnows DEF UserEdits, Showable, Update
<1>3. /\ rows \in Rows
      /\ \A x \in Record :
             rows[x].of = held[c][x].of \/ (x = r /\ rows[x].of = datum)
      /\ sent = <<>> \/ sent = <<u>>
  <2>1. held[c] \in Rows
    BY ClientKnows
  <2> QED
    BY <1>2, <2>1, WrittenRows
<1> HIDE DEF rows, sent
<1>4. r \in Touched' /\ <<c, r, datum>> \in entered'
  BY <1>1, <1>2 DEF Touched
<1>5. Touched \subseteq Touched'
  BY <1>1 DEF Touched
<1>6. \A x \in Record : <<x, rows[x].of>> \in past \/ <<c, x, rows[x].of>> \in entered'
  BY <1>1, <1>3, ClientKnows DEF Known
<1>7. \A x \in Record : x \in Touched' \/ rows[x].of = stored[x]
  <2> SUFFICES ASSUME NEW x \in Record PROVE x \in Touched' \/ rows[x].of = stored[x]
    OBVIOUS
  <2>1. CASE x = r
    BY <1>4, <2>1
  <2>2. CASE x # r
    BY <1>3, <1>5, <2>2, ClientKnows
  <2> QED
    BY <2>1, <2>2
<1> HIDE DEF r, u
<1>8. u.record \in Touched'
  BY <1>4 DEF u
<1>9. u.record = r /\ u.of = datum
  BY DEF u
<1> QED
  BY <1>1, <1>2, <1>3, <1>4, <1>6, <1>7, <1>8, <1>9, ClientMoves

LEMMA ReceivesKeeps ==
    ASSUME SyncInv, NEW c \in Client, Receives(c)
    PROVE  SyncInv'
<1> DEFINE m == Head(down[c])
           r == current[c]
           rows == [held[c] EXCEPT ![m.record] = Loaded(m.of)]
           resounds == Signals(form[c].widget) /\ shows[c] # m.of
<1>1. /\ UNCHANGED <<kinds, stored, past>> /\ entered' = entered
      /\ down[c] # <<>> /\ down' = [down EXCEPT ![c] = Tail(down[c])]
      /\ current' = [current EXCEPT ![c] = r]
  BY DEF Receives, SyncInv, SyncTypes
<1>2. /\ m \in Update /\ m.record \in Record /\ m.of \in Showable
      /\ m = [record |-> m.record, of |-> m.of]
      /\ <<m.record, m.of>> \in past /\ m.record \in Touched
  <2>1. m \in Update /\ <<m.record, m.of>> \in past /\ m.record \in Touched
    BY <1>1, ClientKnows
  <2> QED
    BY <2>1 DEF Update
<1> HIDE DEF m
<1>3. /\ rows \in Rows
      /\ \A x \in Record :
             rows[x].of = held[c][x].of \/ (x = m.record /\ rows[x].of = m.of)
  <2>1. Loaded(m.of) \in [of : Showable, type : Kinds] /\ Loaded(m.of).of = m.of
    BY <1>2 DEF Loaded, Kinds
  <2>2. held[c] \in Rows
    BY ClientKnows
  <2> HIDE DEF Loaded
  <2> QED
    BY <1>2, <2>1, <2>2 DEF Rows
<1>4. Touched \subseteq Touched'
  BY <1>1 DEF Touched
<1>5. m.record \in Touched'
  BY <1>1, <1>2 DEF Touched
<1>6. r \in Record \cup {Nobody} /\ shows[c] \in Showable /\ up[c] \in Seq(Update)
  BY ClientKnows
<1>7. CASE ~Told(c, m) \/ ~resounds
  <2> DEFINE v == IF Told(c, m) THEN m.of ELSE shows[c]
  <2>1. /\ held' = [held EXCEPT ![c] = rows]
        /\ shows' = [shows EXCEPT ![c] = v]
        /\ up' = [up EXCEPT ![c] = up[c] \o <<>>]
    <3>1. up[c] \o <<>> = up[c]
      BY <1>6
    <3>2. [up EXCEPT ![c] = up[c]] = up /\ [shows EXCEPT ![c] = shows[c]] = shows
      BY DEF SyncInv, SyncTypes
    <3> QED
      BY <1>7, <3>1, <3>2 DEF Receives, Shown, m
  <2>2. \A x \in Record : <<x, rows[x].of>> \in past \/ <<c, x, rows[x].of>> \in entered'
    <3>1. \A x \in Record : <<x, held[c][x].of>> \in past \/ <<c, x, held[c][x].of>> \in entered
      BY ClientKnows DEF Known
    <3> HIDE DEF rows
    <3> QED
      BY <1>1, <1>2, <1>3, <3>1
  <2>3. \A x \in Record : x \in Touched' \/ rows[x].of = stored[x]
    <3> SUFFICES ASSUME NEW x \in Record PROVE x \in Touched' \/ rows[x].of = stored[x]
      OBVIOUS
    <3>1. CASE x = m.record
      BY <1>5, <3>1
    <3>2. CASE x # m.record
      BY <1>3, <1>4, <3>2, ClientKnows
    <3> QED
      BY <3>1, <3>2
  <2>4. r # Nobody =>
            /\ <<r, v>> \in past \/ <<c, r, v>> \in entered'
            /\ r \notin Touched' => v = stored[r]
    <3>1. CASE Told(c, m)
      <4>1. r = m.record /\ v = m.of
        BY <3>1 DEF Told
      <4> QED
        BY <1>2, <1>5, <4>1
    <3>2. CASE ~Told(c, m)
      <4>1. v = shows[c]
        BY <3>2
      <4> QED
        BY <1>1, <1>4, <4>1, ClientKnows DEF Known
    <3> QED
      BY <3>1, <3>2
  <2>5. v \in Showable
    BY <1>2, <1>6
  <2> HIDE DEF v, rows, r
  <2> QED
    BY <1>1, <1>2, <1>3, <1>6, <2>1, <2>2, <2>3, <2>4, <2>5, ClientMoves
<1>8. CASE Told(c, m) /\ resounds
  <2> DEFINE written == Written(c, rows, r, m.of)
             sent == Updates(c, rows, r, m.of)
  <2>1. /\ held' = [held EXCEPT ![c] = written]
        /\ shows' = [shows EXCEPT ![c] = m.of]
        /\ up' = [up EXCEPT ![c] = up[c] \o sent]
    BY <1>8 DEF Receives, Shown, m
  <2>2. r = m.record /\ Echoes(form[c])
    BY <1>8 DEF Told, Echoes, Signals
  <2> HIDE DEF rows
  <2>3. /\ written \in Rows
        /\ \A x \in Record :
               written[x].of = rows[x].of \/ (x = r /\ written[x].of = m.of)
        /\ sent = <<>> \/ sent = <<m>>
    BY <1>2, <1>3, <1>6, <2>2, WrittenRows
  <2> HIDE DEF written, sent
  <2>4. \A x \in Record :
            written[x].of = held[c][x].of \/ (x = m.record /\ written[x].of = m.of)
    BY <1>3, <2>2, <2>3
  <2>5. \A x \in Record :
            <<x, written[x].of>> \in past \/ <<c, x, written[x].of>> \in entered'
    BY <1>1, <1>2, <2>4, ClientKnows DEF Known
  <2>6. \A x \in Record : x \in Touched' \/ written[x].of = stored[x]
    <3> SUFFICES ASSUME NEW x \in Record PROVE x \in Touched' \/ written[x].of = stored[x]
      OBVIOUS
    <3>1. CASE x = m.record
      BY <1>5, <3>1
    <3>2. CASE x # m.record
      BY <1>4, <2>4, <3>2, ClientKnows
    <3> QED
      BY <3>1, <3>2
  <2>7. r \in Touched'
    BY <1>5, <2>2
  <2> HIDE DEF r
  <2> QED
    BY <1>1, <1>2, <1>5, <1>6, <2>1, <2>2, <2>3, <2>5, <2>6, <2>7, ClientMoves
<1> QED
  BY <1>7, <1>8

LEMMA SelectsRowKeeps ==
    ASSUME SyncInv, NEW c \in Client, NEW r \in Record \cup {Nobody}, SelectsRow(c, r)
    PROVE  SyncInv'
<1> DEFINE from == current[c]
           datum == shows[c]
           rows == Written(c, held[c], from, datum)
           sent == Updates(c, held[c], from, datum)
           v == IF r = Nobody THEN Blanked(form[c].widget, datum) ELSE held[c][r].of
           x0 == CHOOSE x \in Record : TRUE
           u == IF from \in Record THEN [record |-> from, of |-> datum]
                ELSE [record |-> x0, of |-> datum]
<1>1. /\ UNCHANGED <<kinds, stored, past>> /\ entered' = entered /\ down' = down
      /\ held' = [held EXCEPT ![c] = rows]
      /\ current' = [current EXCEPT ![c] = r]
      /\ shows' = [shows EXCEPT ![c] = v]
      /\ up' = [up EXCEPT ![c] = up[c] \o sent]
      /\ form[c].source = "view"
  BY DEF SelectsRow
<1>2. /\ from \in Record \cup {Nobody} /\ datum \in Showable
      /\ held[c] \in Rows
      /\ u \in Update /\ (from \in Record => u.record = from) /\ u.of = datum
  BY ClientKnows, SomeAssumption DEF Update
<1>3. /\ rows \in Rows
      /\ \A x \in Record :
             \/ rows[x].of = held[c][x].of
             \/ x = from /\ Writes(c, held[c], from, datum) /\ rows[x].of = datum
      /\ \/ sent = <<>>
         \/ /\ Writes(c, held[c], from, datum) /\ from \in Record
            /\ sent = <<[record |-> from, of |-> datum]>>
  BY <1>2, WrittenRows
<1>4. /\ \A x \in Record : Known(c, x, held[c][x].of)
      /\ from # Nobody => Known(c, from, datum)
      /\ \A x \in Record : x \in Touched \/ held[c][x].of = stored[x]
      /\ from # Nobody => from \in Touched \/ datum = stored[from]
  BY ClientKnows
<1>5. Touched' = Touched
  BY <1>1 DEF Touched
<1>6. sent = <<>> \/ sent = <<u>>
  BY <1>3
<1>7. Writes(c, held[c], from, datum) => from \in Record /\ from \in Touched
  BY <1>1, <1>2, <1>4 DEF Writes
<1>8. sent # <<>> => u.record = from /\ from \in Touched /\ from # Nobody
  BY <1>2, <1>3, <1>7, NoneAssumption
<1>9. v \in Showable
  BY <1>2 DEF Blanked, Rows, Showable
<1>10. r # Nobody => v = held[c][r].of /\ r \in Record
  OBVIOUS
<1> HIDE DEF rows, sent, v, u, from, datum
<1>11. \A x \in Record : <<x, rows[x].of>> \in past \/ <<c, x, rows[x].of>> \in entered'
  BY <1>1, <1>3, <1>4, NoneAssumption DEF Known
<1>12. \A x \in Record : x \in Touched' \/ rows[x].of = stored[x]
  BY <1>3, <1>4, <1>5, <1>7
<1>13. r # Nobody =>
           /\ <<r, v>> \in past \/ <<c, r, v>> \in entered'
           /\ r \notin Touched' => v = stored[r]
  BY <1>1, <1>4, <1>5, <1>10 DEF Known
<1>14. sent # <<>> =>
           /\ <<u.record, u.of>> \in past \/ <<c, u.record, u.of>> \in entered'
           /\ u.record \in Touched'
  BY <1>1, <1>2, <1>4, <1>5, <1>8 DEF Known
<1> QED
  BY <1>1, <1>2, <1>3, <1>6, <1>9, <1>11, <1>12, <1>13, <1>14, ClientMoves

LEMMA SelectsItemKeeps ==
    ASSUME SyncInv, NEW c \in Client, NEW r \in Record \cup {Nobody}, SelectsItem(c, r)
    PROVE  SyncInv'
<1> DEFINE v == IF r = Nobody THEN Blanked(form[c].widget, shows[c]) ELSE held[c][r].of
           u == [record |-> CHOOSE x \in Record : TRUE, of |-> shows[c]]
<1>1. /\ UNCHANGED <<kinds, stored, past>> /\ entered' = entered /\ down' = down
      /\ held' = [held EXCEPT ![c] = held[c]]
      /\ current' = [current EXCEPT ![c] = r]
      /\ shows' = [shows EXCEPT ![c] = v]
      /\ up' = [up EXCEPT ![c] = up[c] \o <<>>]
  <2>1. up[c] \o <<>> = up[c]
    BY ClientKnows
  <2>2. [up EXCEPT ![c] = up[c]] = up /\ [held EXCEPT ![c] = held[c]] = held
    BY DEF SyncInv, SyncTypes
  <2> QED
    BY <2>1, <2>2 DEF SelectsItem
<1>2. held[c] \in Rows /\ shows[c] \in Showable /\ u \in Update
  BY ClientKnows, SomeAssumption DEF Update
<1>3. v \in Showable
  BY <1>2 DEF Blanked, Rows, Showable
<1>4. Touched' = Touched
  BY <1>1 DEF Touched
<1>5. r # Nobody => v = held[c][r].of /\ r \in Record
  OBVIOUS
<1>6. /\ \A x \in Record :
             <<x, held[c][x].of>> \in past \/ <<c, x, held[c][x].of>> \in entered'
      /\ \A x \in Record : x \in Touched' \/ held[c][x].of = stored[x]
  BY <1>1, <1>4, ClientKnows DEF Known
<1> HIDE DEF v, u
<1>7. r # Nobody =>
          /\ <<r, v>> \in past \/ <<c, r, v>> \in entered'
          /\ r \notin Touched' => v = stored[r]
  BY <1>5, <1>6
<1> QED
  BY <1>1, <1>2, <1>3, <1>6, <1>7, ClientMoves

\* The server makes the next update of client c part of the past.
LEMMA ServesKeeps ==
    ASSUME SyncInv, NEW c \in Client, Serves(c)
    PROVE  SyncInv'
<1> DEFINE m == Head(up[c])
<1>1. /\ UNCHANGED <<kinds, held, current, shows, entered>>
      /\ up[c] \in Seq(Update) /\ up[c] # <<>>
      /\ up' = [up EXCEPT ![c] = Tail(up[c])]
      /\ stored' = [stored EXCEPT ![m.record] = m.of]
      /\ down' = [d \in Client |-> IF alive[d] THEN Append(down[d], m) ELSE down[d]]
      /\ past' = past \cup {<<m.record, m.of>>}
  BY DEF Serves, SyncInv, SyncTypes
<1>2. /\ m \in Update /\ m.record \in Record /\ m.of \in Showable
      /\ Tail(up[c]) \in Seq(Update)
      /\ 1 \in DOMAIN up[c] /\ m = up[c][1]
      /\ \A i \in DOMAIN Tail(up[c]) :
             i + 1 \in DOMAIN up[c] /\ Tail(up[c])[i] = up[c][i + 1]
  BY <1>1, HeadTail DEF Update
<1>3. m.record \in Touched
  BY <1>2 DEF SyncInv, Quiet
<1> HIDE DEF m
<1>4. Touched' = Touched
  BY <1>1 DEF Touched
<1>5. /\ down' \in [Client -> Seq(Update)]
      /\ \A d \in Client : \A i \in DOMAIN down'[d] :
             \/ i \in DOMAIN down[d] /\ down'[d][i] = down[d][i]
             \/ down'[d][i] = m
  <2> SUFFICES ASSUME NEW d \in Client
               PROVE  /\ down'[d] \in Seq(Update)
                      /\ \A i \in DOMAIN down'[d] :
                             \/ i \in DOMAIN down[d] /\ down'[d][i] = down[d][i]
                             \/ down'[d][i] = m
    BY <1>1
  <2>1. down[d] \in Seq(Update)
    BY DEF SyncInv, SyncTypes
  <2>2. CASE alive[d]
    <3>1. down'[d] = Append(down[d], m)
      BY <1>1, <2>2
    <3> QED
      BY <1>2, <2>1, <3>1
  <2>3. CASE ~alive[d]
    BY <1>1, <2>1, <2>3
  <2> QED
    BY <2>2, <2>3
<1>6. SyncTypes'
  <2>1. up' \in [Client -> Seq(Update)] /\ stored' \in [Record -> Showable]
    BY <1>1, <1>2 DEF SyncInv, SyncTypes
  <2> QED
    BY <1>1, <1>5, <2>1, RowsKept DEF SyncInv, SyncTypes, Update, Showable
<1>7. Remembered'
  <2>1. past \subseteq past' /\ <<m.record, m.of>> \in past'
    BY <1>1
  <2>2. \A d \in Client : \A i \in DOMAIN down'[d] :
            <<down'[d][i].record, down'[d][i].of>> \in past'
    BY <1>5, <2>1 DEF SyncInv, Remembered
  <2> QED
    BY <1>1, <2>1, <2>2 DEF SyncInv, Remembered, Known
<1>8. Quiet'
  <2> SUFFICES ASSUME NEW x \in Record, NEW d \in Client, x \notin Touched'
               PROVE  /\ held'[d][x].of = stored'[x]
                      /\ current'[d] = x => shows'[d] = stored'[x]
                      /\ \A i \in DOMAIN up'[d] : up'[d][i].record # x
                      /\ \A i \in DOMAIN down'[d] : down'[d][i].record # x
    BY DEF Quiet
  <2>1. /\ held[d][x].of = stored[x]
        /\ current[d] = x => shows[d] = stored[x]
        /\ \A i \in DOMAIN up[d] : up[d][i].record # x
        /\ \A i \in DOMAIN down[d] : down[d][i].record # x
    BY <1>4 DEF SyncInv, Quiet
  <2>2. x # m.record
    BY <1>3, <1>4
  <2>3. stored'[x] = stored[x]
    BY <1>1, <2>2 DEF SyncInv, SyncTypes
  <2>4. \A i \in DOMAIN down'[d] : down'[d][i].record # x
    BY <1>5, <2>1, <2>2
  <2>5. \A i \in DOMAIN up'[d] : up'[d][i].record # x
    <3>1. up'[d] = IF d = c THEN Tail(up[c]) ELSE up[d]
      BY <1>1 DEF SyncInv, SyncTypes
    <3> QED
      BY <1>2, <2>1, <3>1
  <2> QED
    BY <1>1, <2>1, <2>3, <2>4, <2>5
<1>9. WritesBelong'
  <2>1. ASSUME NEW d \in Client, NEW i \in DOMAIN up'[d]
        PROVE  \E j \in DOMAIN up[d] : up'[d][i] = up[d][j]
    <3>1. up'[d] = IF d = c THEN Tail(up[c]) ELSE up[d]
      BY <1>1 DEF SyncInv, SyncTypes
    <3> QED
      BY <1>2, <2>1, <3>1
  <2>2. form' = form /\ entered' = entered /\ past \subseteq past'
    BY <1>1 DEF kinds
  <2> QED
    BY <2>1, <2>2 DEF SyncInv, WritesBelong, Echoes
<1> QED
  BY <1>6, <1>7, <1>8, <1>9 DEF SyncInv

LEMMA SyncInvInit == SyncInit => SyncInv
<1> SUFFICES ASSUME SyncInit PROVE SyncInv
  OBVIOUS
<1> DEFINE first == CHOOSE r \in Record : TRUE
<1>1. first \in Record
  BY SomeAssumption
<1> HIDE DEF first
<1>2. /\ stored \in [Record -> Datum]
      /\ held = [c \in Client |-> [r \in Record |-> Loaded(stored[r])]]
      /\ current = [c \in Client |-> first]
      /\ shows = [c \in Client |-> stored[first]]
      /\ up = [c \in Client |-> <<>>] /\ down = [c \in Client |-> <<>>]
      /\ past = {<<r, stored[r]>> : r \in Record} /\ entered = {}
  BY DEF SyncInit, first
<1>3. \A r \in Record : Loaded(stored[r]) \in [of : Showable, type : Kinds]
                        /\ Loaded(stored[r]).of = stored[r]
  BY <1>2 DEF Loaded, Showable, Kinds
<1>4. SyncTypes
  <2>1. <<>> \in Seq(Update)
    OBVIOUS
  <2> QED
    BY <1>1, <1>2, <1>3, <2>1 DEF SyncTypes, Rows, Showable
<1>5. Remembered
  BY <1>1, <1>2, <1>3 DEF Remembered, Known
<1>6. Quiet
  BY <1>1, <1>2, <1>3 DEF Quiet
<1>7. WritesBelong
  BY <1>2 DEF WritesBelong
<1> QED
  BY <1>4, <1>5, <1>6, <1>7 DEF SyncInv

LEMMA SyncInvStep == SyncInv /\ [SyncNext]_syncVars => SyncInv'
<1> SUFFICES ASSUME SyncInv, [SyncNext]_syncVars PROVE SyncInv'
  OBVIOUS
<1>1. CASE ServerActs
  BY <1>1, ServesKeeps DEF ServerActs
<1>2. CASE ClientsReceive
  BY <1>2, ReceivesKeeps DEF ClientsReceive
<1>3. CASE UsersAct
  BY <1>3, UserEditsKeeps, SelectsRowKeeps, SelectsItemKeeps DEF UsersAct
<1>4. CASE UNCHANGED syncVars
  <2>1. SyncTypes' /\ Touched' = Touched
    BY <1>4, RowsKept DEF syncVars, SyncInv, SyncTypes, Update, Showable, Touched
  <2>2. Remembered' /\ Quiet'
    BY <1>4, <2>1 DEF syncVars, SyncInv, Remembered, Known, Quiet
  <2>3. WritesBelong'
    BY <1>4 DEF syncVars, kinds, SyncInv, WritesBelong, Echoes
  <2> QED
    BY <2>1, <2>2, <2>3 DEF SyncInv
<1> QED
  BY <1>1, <1>2, <1>3, <1>4 DEF SyncNext

LEMMA SyncInvHolds == SyncSpec => []SyncInv
  BY SyncInvInit, SyncInvStep, PTL DEF SyncSpec

\* An update says what its client's user entered for that record, or what that
\* very record has held before and after somebody entered something for it,
\* however pushes, selections and edits of any number of clients interleave
\* (InterfaceSync.cpp:94-96, 439).
THEOREM WritesStayWithRecords == SyncSpec => []WritesBelong
<1>1. SyncInv => WritesBelong
  BY DEF SyncInv
<1> QED
  BY <1>1, SyncInvHolds, PTL

-----------------------------------------------------------------------------
(* Validation. *)

\* The types of value that the field takes.
Fitting == Accepted(TypeOf(column[1], column[2]))

\* A client's address is stored.
Addressed == column[1] = "client" => ip = "Address"

\* What is read passes the validation of what is written, for each field; and
\* each editor's widget gives a type that its field takes.
Suited ==
    /\ column[2] \in DOMAIN FieldsOf[column[1]]
    /\ Addressed =>
           \A f \in DOMAIN FieldsOf[column[1]] :
               LoadedTypes(column[1])[f] \in Accepted(TypeOf(column[1], f))
    /\ \A c \in Client :
           form[c].source # "none" => Getter(form[c].widget) \in Fitting

\* Every editor is alive and every value held has a type that the field takes.
Valid ==
    /\ alive = [c \in Client |-> TRUE]
    /\ \A c \in Client : \A r \in Record : held[c][r].type \in Fitting

ValidInv == Suited /\ (Addressed => Valid)

\* coerce() gives a type that validateField() takes, where it gives any, of all
\* that is sent but a text for an address: only the types it makes of JSON do
\* not fit, and those it cannot make.
LEMMA CoercedFits ==
    ASSUME NEW table, NEW f \in DOMAIN FieldsOf[table],
           Coercible(table, f, InJson(Sent(table, f))),
           TypeOf(table, f) = "IP" => ip = "Address"
    PROVE  Coerced(table, f, InJson(Sent(table, f))) \in Accepted(TypeOf(table, f))
<1> DEFINE type == TypeOf(table, f)
<1>1. CASE type = "IP"
  <2>1. InJson(Sent(table, f)) = "Address"
    BY <1>1 DEF InJson, Sent
  <2> QED
    BY <1>1, <2>1 DEF Coerced, StringVariant, MetaType, Accepted
<1>2. CASE type # "IP"
  <2>1. MetaType(type) \in Convertible(InJson(MetaType(type)))
    BY <1>2 DEF Coercible, Sent
  <2>2. Coerced(table, f, InJson(Sent(table, f))) \in {MetaType(type)} \cup StringVariant
        /\ (Coerced(table, f, InJson(Sent(table, f))) # MetaType(type) => MetaType(type) = "String")
    BY DEF Coerced
  <2> HIDE DEF type
  <2>3. type # "JSON"
    BY <2>1 DEF MetaType, Convertible, InJson, StringVariant
  <2>4. MetaType(type) \in Accepted(type)
    BY <1>2, <2>3 DEF MetaType, Accepted, IntegerVariant, StringVariant
  <2>5. MetaType(type) = "String" => StringVariant \subseteq Accepted(type)
    BY <1>2, <2>4 DEF MetaType, Accepted, StringVariant
  <2> QED
    BY <2>2, <2>4, <2>5 DEF type
<1> QED
  BY <1>1, <1>2

\* A record that has been loaded stays valid when one field gets a fitting value.
LEMMA FittingIsValid ==
    ASSUME Suited, Addressed, NEW variant \in Fitting
    PROVE  /\ ValidField(column[1], column[2], variant)
           /\ ValidRecord(column[1], TypesWith(variant))
<1>1. /\ DOMAIN TypesWith(variant) = DOMAIN FieldsOf[column[1]]
      /\ \A f \in DOMAIN FieldsOf[column[1]] :
             TypesWith(variant)[f] = IF f = column[2] THEN variant
                                     ELSE LoadedTypes(column[1])[f]
  BY DEF TypesWith, LoadedTypes, CoercedRecord
<1>2. \A f \in DOMAIN FieldsOf[column[1]] :
          ValidField(column[1], f, TypesWith(variant)[f])
  BY <1>1 DEF Suited, Fitting, ValidField
<1> QED
  BY <1>1, <1>2 DEF Suited, Fitting, ValidField, ValidRecord

LEMMA NeverThrows ==
    ASSUME Suited, Addressed, NEW c \in Client, form[c].source # "none",
           NEW rows, NEW r, NEW datum
    PROVE  ~Throws(c, rows, r, datum)
<1>1. Getter(form[c].widget) \in Fitting
  BY DEF Suited
<1> QED
  BY <1>1, FittingIsValid DEF Throws

LEMMA ValidInvInit == SyncInit => ValidInv
<1> SUFFICES ASSUME SyncInit PROVE ValidInv
  OBVIOUS
<1>1. PICK table \in ValidatedTable : \E field \in DOMAIN FieldsOf[table] :
          /\ column = <<table, field>>
          /\ ip \in IF table = "client" THEN StringVariant ELSE {"Address"}
          /\ \A f \in DOMAIN FieldsOf[table] :
                 Coercible(table, f, InJson(Sent(table, f)))
          /\ \A c \in Client :
                 \/ form[c].source = "none"
                 \/ Getter(form[c].widget) \in Accepted(TypeOf(table, field))
  BY DEF SyncInit
<1>2. column[1] = table /\ column[2] \in DOMAIN FieldsOf[table]
  BY <1>1
<1>3. \A c \in Client : form[c].source # "none" => Getter(form[c].widget) \in Fitting
  BY <1>1 DEF Fitting
<1>4. ASSUME Addressed, NEW f \in DOMAIN FieldsOf[table]
      PROVE  LoadedTypes(table)[f] \in Accepted(TypeOf(table, f))
  <2>1. TypeOf(table, f) = "IP" => ip = "Address"
    BY <1>1, <1>2, <1>4 DEF Addressed
  <2>2. Coerced(table, f, InJson(Sent(table, f))) \in Accepted(TypeOf(table, f))
    BY <1>1, <2>1, CoercedFits
  <2> QED
    BY <2>2 DEF LoadedTypes, CoercedRecord
<1>5. Suited
  BY <1>2, <1>3, <1>4 DEF Suited
<1>6. Addressed => Valid
  BY <1>2, <1>5 DEF SyncInit, Valid, Suited, Fitting, Loaded
<1> QED
  BY <1>5, <1>6 DEF ValidInv

LEMMA ValidInvStep == SyncInv /\ ValidInv /\ [SyncNext]_syncVars => ValidInv'
<1> SUFFICES ASSUME SyncInv, ValidInv, [SyncNext]_syncVars PROVE ValidInv'
  OBVIOUS
<1>1. UNCHANGED kinds
  BY DEF SyncNext, ServerActs, ClientsReceive, UsersAct, UserEdits, Receives,
         SelectsRow, SelectsItem, Serves, syncVars
<1>2. Suited' /\ Addressed' = Addressed /\ Fitting' = Fitting
  <2>1. LoadedTypes(column[1])' = LoadedTypes(column[1])
    BY <1>1 DEF kinds, LoadedTypes, Sent
  <2>2. Fitting' = Fitting /\ Addressed' = Addressed /\ column' = column /\ form' = form
    BY <1>1 DEF kinds, Fitting, Addressed
  <2>3. Suited
    BY DEF ValidInv
  <2> QED
    BY <2>1, <2>2, <2>3 DEF Suited
<1>3. Suited /\ held \in [Client -> Rows]
  BY DEF ValidInv, SyncInv, SyncTypes
<1>4. ASSUME Addressed PROVE Valid'
  <2>1. /\ alive = [c \in Client |-> TRUE]
        /\ \A c \in Client : \A r \in Record : held[c][r].type \in Fitting
    BY <1>4 DEF ValidInv, Valid
  \* It is enough that the client goes on and that the rows it has now fit.
  <2>2. ASSUME NEW c \in Client, NEW rows \in Rows, held' = [held EXCEPT ![c] = rows],
               alive' = [alive EXCEPT ![c] = TRUE],
               \A r \in Record : rows[r].type \in Fitting
        PROVE  Valid'
    BY <1>2, <1>3, <2>1, <2>2 DEF Valid
  <2>3. ASSUME NEW c \in Client, form[c].source # "none", NEW rows \in Rows,
               NEW r, NEW datum,
               \A x \in Record : rows[x].type \in Fitting
        PROVE  \A x \in Record : Written(c, rows, r, datum)[x].type \in Fitting
    BY <1>3, <2>3 DEF Written, Rows, Suited
  <2>4. ASSUME NEW c \in Client, NEW datum \in Datum, UserEdits(c, datum)
        PROVE  Valid'
    <3>1. /\ form[c].source # "none" /\ held[c] \in Rows
          /\ current[c] \in Record \cup {Nobody} /\ datum \in Showable
      BY <2>4, ClientKnows DEF UserEdits, Showable
    <3>2. ~Throws(c, held[c], current[c], datum)
      BY <1>3, <1>4, <3>1, NeverThrows
    <3>3. Written(c, held[c], current[c], datum) \in Rows
      BY <3>1, WrittenRows
    <3>4. \A x \in Record : Written(c, held[c], current[c], datum)[x].type \in Fitting
      BY <2>1, <2>3, <3>1
    <3> QED
      BY <2>2, <2>4, <3>2, <3>3, <3>4 DEF UserEdits
  <2>5. ASSUME NEW c \in Client, NEW r \in Record \cup {Nobody}, SelectsRow(c, r)
        PROVE  Valid'
    <3>1. /\ form[c].source # "none" /\ held[c] \in Rows
          /\ current[c] \in Record \cup {Nobody} /\ shows[c] \in Showable
      BY <2>5, ClientKnows DEF SelectsRow
    <3>2. ~Throws(c, held[c], current[c], shows[c])
      BY <1>3, <1>4, <3>1, NeverThrows
    <3>3. Written(c, held[c], current[c], shows[c]) \in Rows
      BY <3>1, WrittenRows
    <3>4. \A x \in Record : Written(c, held[c], current[c], shows[c])[x].type \in Fitting
      BY <2>1, <2>3, <3>1
    <3> QED
      BY <2>2, <2>5, <3>2, <3>3, <3>4 DEF SelectsRow
  <2>6. ASSUME NEW c \in Client, Receives(c)
        PROVE  Valid'
    <3> DEFINE m == Head(down[c])
               rows == [held[c] EXCEPT ![m.record] = Loaded(m.of)]
    <3>1. /\ m.record \in Record /\ m.of \in Showable
          /\ held[c] \in Rows /\ current[c] \in Record \cup {Nobody}
      BY <2>6, ClientKnows DEF Receives, Update
    <3> HIDE DEF m
    <3>2. /\ Loaded(m.of) \in [of : Showable, type : Kinds]
          /\ Loaded(m.of).type \in Fitting
      BY <1>3, <1>4, <3>1 DEF Loaded, Kinds, Suited, Fitting
    <3>3. rows \in Rows /\ \A x \in Record : rows[x].type \in Fitting
      <4> HIDE DEF Loaded
      <4> QED
        BY <2>1, <3>1, <3>2 DEF Rows
    <3> HIDE DEF rows
    <3>4. CASE Told(c, m)
      <4>1. form[c].source # "none"
        BY <3>4 DEF Told
      <4>2. /\ ~Throws(c, rows, current[c], m.of)
            /\ Written(c, rows, current[c], m.of) \in Rows
            /\ \A x \in Record : Written(c, rows, current[c], m.of)[x].type \in Fitting
        BY <1>3, <1>4, <2>3, <3>1, <3>3, <4>1, NeverThrows, WrittenRows
      <4>3. Shown(c, rows, m.of)
        BY <2>6, <3>4 DEF Receives, m, rows
      <4>4. alive' = [alive EXCEPT ![c] = TRUE]
        BY <4>2, <4>3 DEF Shown
      <4>5. \/ held' = [held EXCEPT ![c] = Written(c, rows, current[c], m.of)]
            \/ held' = [held EXCEPT ![c] = rows]
        BY <4>3 DEF Shown
      <4> QED
        BY <2>2, <3>3, <4>2, <4>4, <4>5
    <3>5. CASE ~Told(c, m)
      <4>1. held' = [held EXCEPT ![c] = rows] /\ alive' = [alive EXCEPT ![c] = TRUE]
        BY <2>1, <2>6, <3>5 DEF Receives, m, rows
      <4> QED
        BY <2>2, <3>3, <4>1
    <3> QED
      BY <3>4, <3>5
  <2>7. ASSUME held' = held, alive' = alive
        PROVE  Valid'
    BY <1>2, <2>1, <2>7 DEF Valid
  <2> QED
    BY <2>4, <2>5, <2>6, <2>7
    DEF SyncNext, ServerActs, ClientsReceive, UsersAct, SelectsItem, Serves, syncVars
<1> QED
  BY <1>2, <1>4 DEF ValidInv

\* Whatever clients load passes the validation of what they send, for any table
\* whose records load at all (Validators.cpp:83-140 with 222-240), but a record
\* of a client that says "local" or "Embedded" for an address.
THEOREM HeldStaysValid == SyncSpec => []HeldIsValid
<1>1. SyncInv /\ ValidInv => HeldIsValid
  BY FittingIsValid DEF ValidInv, Valid, Addressed, HeldIsValid
<1>2. SyncSpec => []ValidInv
  BY SyncInvHolds, ValidInvInit, ValidInvStep, PTL DEF SyncSpec
<1> QED
  BY <1>1, <1>2, SyncInvHolds, PTL
=============================================================================
