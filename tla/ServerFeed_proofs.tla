-------------------------- MODULE ServerFeed_proofs --------------------------
(***************************************************************************)
(* Proofs about what the server sends: the feed of every subscription and  *)
(* the answers to writes, for any number of connections, any commands and  *)
(* queries, every LIMIT and every fault unless a theorem names one.        *)
(***************************************************************************)
EXTENDS DatabaseServer_proofs

-----------------------------------------------------------------------------
(* Sequences. *)

IsSeq(s) == s \in Seq(Range(s))

\* z is b behind a.
Concatenates(a, b, z) ==
    /\ IsSeq(z)
    /\ Len(a) \in Nat /\ Len(b) \in Nat /\ Len(z) = Len(a) + Len(b)
    /\ DOMAIN a = 1..Len(a) /\ DOMAIN b = 1..Len(b)
    /\ DOMAIN z = 1..Len(a) + Len(b)
    /\ \A i \in DOMAIN a : z[i] = a[i]
    /\ \A i \in DOMAIN b : z[Len(a) + i] = b[i]

\* Where the elements of a concatenation come from.
LEMMA Joined ==
    ASSUME NEW a, IsSeq(a), NEW b, IsSeq(b)
    PROVE  Concatenates(a, b, a \o b)
<1> DEFINE S == Range(a) \cup Range(b)
<1>1. a \in Seq(S) /\ b \in Seq(S)
  BY DEF IsSeq
<1> HIDE DEF S
<1>2. /\ a \o b \in Seq(S)
      /\ Len(a) \in Nat /\ Len(b) \in Nat /\ Len(a \o b) = Len(a) + Len(b)
      /\ DOMAIN a = 1..Len(a) /\ DOMAIN b = 1..Len(b)
      /\ DOMAIN (a \o b) = 1..Len(a) + Len(b)
  BY <1>1
<1>3. /\ \A i \in DOMAIN a : (a \o b)[i] = a[i]
      /\ \A i \in DOMAIN b : (a \o b)[Len(a) + i] = b[i]
  BY <1>1, <1>2
<1>4. IsSeq(a \o b)
  <2> DEFINE t == a \o b
             R == Range(t)
  <2>1. t \in Seq(S) /\ \A i \in 1..Len(t) : t[i] \in R
    BY <1>2 DEF Range
  <2> HIDE DEF t, R
  <2>2. t \in Seq(R)
    BY <2>1
  <2> QED
    BY <2>2 DEF IsSeq, t, R
<1> QED
  BY <1>2, <1>3, <1>4 DEF Concatenates

\* A set of indices, in any order, is a sequence of its elements, each once.
LEMMA Listed ==
    ASSUME NEW S, IsFiniteSet(S)
    PROVE  /\ SetToSeq(S) \in [1..Cardinality(S) -> S]
           /\ Cardinality(S) \in Nat
           /\ \A i, j \in 1..Cardinality(S) :
                  SetToSeq(S)[i] = SetToSeq(S)[j] => i = j
           /\ \A x \in S : \E i \in 1..Cardinality(S) : SetToSeq(S)[i] = x
<1> DEFINE n == Cardinality(S)
<1>1. n \in Nat /\ ExistsBijection(1..n, S)
  BY FS_CardinalityType
<1> HIDE DEF n
<1>2. PICK f : f \in Bijection(1..n, S)
  BY <1>1 DEF ExistsBijection
<1>3. f \in [1..n -> S] /\ IsInjective(f)
  BY <1>2 DEF Bijection, Injection, IsInjective
<1>4. SetToSeq(S) \in [1..n -> S] /\ IsInjective(SetToSeq(S))
  BY <1>3 DEF SetToSeq, n
<1>5. SetToSeq(S) \in Injection(1..n, S)
  BY <1>4 DEF Injection, IsInjective
<1>6. SetToSeq(S) \in Surjection(1..n, S)
  <2>1. Cardinality(1..n) = n
    BY <1>1, FS_Interval
  <2> QED
    BY <1>5, <2>1, FS_Injection DEF n
<1> QED
  BY <1>1, <1>4, <1>6 DEF Surjection, IsInjective, n

\* What handleChange() sends connection d: one push for each subscription that
\* matches, in some order (DatabaseServer.cpp:267-288).
LEMMA PushesOfAny ==
    ASSUME NEW d \in Connection, NEW ch, nextSubscriptionId[d] \in Nat,
           DOMAIN subscriptions[d] \subseteq 1..nextSubscriptionId[d] - 1
    PROVE  /\ IsSeq(Pushes(d, ch))
           /\ \A i \in DOMAIN Pushes(d, ch) :
                  \E s \in DOMAIN subscriptions[d] :
                      /\ Matches(subscriptions[d][s], ch)
                      /\ Pushes(d, ch)[i] = Push(s, ch)
           /\ \A i, j \in DOMAIN Pushes(d, ch) :
                  Pushes(d, ch)[i].reply_to = Pushes(d, ch)[j].reply_to => i = j
           /\ link[d] = "open" =>
                  \A s \in DOMAIN subscriptions[d] :
                      Matches(subscriptions[d][s], ch) =>
                          \E i \in DOMAIN Pushes(d, ch) : Pushes(d, ch)[i] = Push(s, ch)
           /\ link[d] # "open" => Pushes(d, ch) = <<>>
<1> DEFINE hit == {s \in DOMAIN subscriptions[d] : Matches(subscriptions[d][s], ch)}
           n == Cardinality(hit)
           order == SetToSeq(hit)
           p == Pushes(d, ch)
<1>1. IsFiniteSet(hit)
  <2>1. hit \subseteq 1..nextSubscriptionId[d] - 1 /\ nextSubscriptionId[d] \in Nat
    OBVIOUS
  <2>2. IsFiniteSet(1..nextSubscriptionId[d] - 1)
    BY <2>1, FS_Interval
  <2> QED
    BY <2>1, <2>2, FS_Subset
<1>2. CASE link[d] # "open"
  <2>1. Pushes(d, ch) = <<>>
    BY <1>2 DEF Pushes
  <2>2. IsSeq(<<>>)
    BY DEF IsSeq
  <2> QED
    BY <1>2, <2>1, <2>2
<1>3. CASE link[d] = "open"
  <2>1. /\ order \in [1..n -> hit] /\ n \in Nat
        /\ \A i, j \in 1..n : order[i] = order[j] => i = j
        /\ \A x \in hit : \E i \in 1..n : order[i] = x
    BY <1>1, Listed
  <2>2. p = [i \in DOMAIN order |-> Push(order[i], ch)]
    BY <1>3 DEF Pushes
  <2> HIDE DEF p, order, n
  <2>3. DOMAIN p = 1..n /\ \A i \in 1..n : p[i] = Push(order[i], ch)
    BY <2>1, <2>2
  <2>4. IsSeq(p)
    <3> DEFINE R == Range(p)
    <3>1. p = [i \in 1..n |-> p[i]] /\ \A i \in 1..n : p[i] \in R
      BY <2>1, <2>2 DEF Range
    <3> HIDE DEF R
    <3>2. p \in Seq(R)
      BY <2>1, <3>1
    <3> QED
      BY <3>2 DEF IsSeq, R
  <2>5. \A i, j \in DOMAIN p : p[i].reply_to = p[j].reply_to => i = j
    BY <2>1, <2>3 DEF Push
  <2>6. \A i \in DOMAIN p : order[i] \in hit /\ p[i] = Push(order[i], ch)
    BY <2>1, <2>3
  <2>7. \A s \in hit : \E i \in DOMAIN p : p[i] = Push(s, ch)
    BY <2>1, <2>3
  <2> QED
    BY <1>3, <2>4, <2>5, <2>6, <2>7 DEF p
<1> QED
  BY <1>2, <1>3

LEMMA PushesOf ==
    ASSUME ServerTypes, NEW d \in Connection, NEW ch
    PROVE  /\ IsSeq(Pushes(d, ch))
           /\ \A i \in DOMAIN Pushes(d, ch) :
                  \E s \in DOMAIN subscriptions[d] :
                      /\ Matches(subscriptions[d][s], ch)
                      /\ Pushes(d, ch)[i] = Push(s, ch)
           /\ \A i, j \in DOMAIN Pushes(d, ch) :
                  Pushes(d, ch)[i].reply_to = Pushes(d, ch)[j].reply_to => i = j
           /\ link[d] = "open" =>
                  \A s \in DOMAIN subscriptions[d] :
                      Matches(subscriptions[d][s], ch) =>
                          \E i \in DOMAIN Pushes(d, ch) : Pushes(d, ch)[i] = Push(s, ch)
           /\ link[d] # "open" => Pushes(d, ch) = <<>>
BY PushesOfAny DEF ServerTypes, ServerTypeOK, ServerShape

-----------------------------------------------------------------------------
(* The change table as an answer shows it. *)

\* A revision is that of one change.
OnePerRevision == \A x, y \in change : x.revision = y.revision => x = y

LEMMA OnePerRevisionStep == IInv /\ OnePerRevision /\ [Next]_vars => OnePerRevision'
<1> SUFFICES ASSUME IInv, OnePerRevision, [Next]_vars PROVE OnePerRevision'
  OBVIOUS
<1>1. ASSUME NEW type, NEW k, NEW F, InsertChange(type, k, F) PROVE OnePerRevision'
  <2>1. PICK new \in change' : /\ \A c \in change : c.revision < new.revision
                              /\ change' = change \cup {new}
                              /\ new.revision = lastRevision'
    BY <1>1, ChangesAfterInsert
  <2>2. \A c \in change : c.revision \in Int /\ c.revision # new.revision
    BY <1>1, <2>1 DEF IInv, TypeOK, Change, Revision, InsertChange
  <2> QED
    BY <2>1, <2>2 DEF OnePerRevision
<1>2. CASE change' \subseteq change
  BY <1>2 DEF OnePerRevision
<1> QED
  BY <1>1, <1>2 DEF Next, vars, Create, Update, Delete, Stop, PurgeClients,
                    PurgeClientChanges

LEMMA OnePerRevisionAlways == Spec => [](IInv /\ OnePerRevision)
<1>1. Init => OnePerRevision
  BY DEF Init, OnePerRevision
<1> QED
  BY <1>1, OnePerRevisionStep, IInvAlways, PTL DEF Spec

\* The log is finite.
LEMMA LogIsFinite ==
    ASSUME TypeOK, OnePerRevision
    PROVE  IsFiniteSet(change)
<1> DEFINE f == [c \in change |-> c.revision]
<1>1. f \in Injection(change, Revision)
  BY DEF TypeOK, Change, OnePerRevision, Injection, IsInjective
<1>2. IsFiniteSet(Revision)
  BY BoundAssumption, FS_Interval DEF Revision
<1> QED
  BY <1>1, <1>2, FS_Injection

\* A change the answer leaves out was cut off by the LIMIT: the answer is full
\* and ends before it (DatabaseEngine.cpp:96).
LEMMA AnswerIsOldest ==
    ASSUME TypeOK, OnePerRevision, NEW q, NEW from, NEW x \in LogSince(q, from),
           x \notin ChangesSince(q, from)
    PROVE  /\ Cardinality(Changes(q, from)) >= ChangesLimit
           /\ \A ch \in Changes(q, from) : ch.revision < x.revision
<1> DEFINE log == LogSince(q, from)
           Before(c) == {d \in log : d.revision < c.revision}
           answer == ChangesSince(q, from)
<1>1. /\ IsFiniteSet(log) /\ log \subseteq Change
      /\ \A c, d \in log : c.revision = d.revision => c = d
      /\ \A c \in log : c.revision \in 1..MaxRevision
  BY LogIsFinite, FS_Subset DEF LogSince, OnePerRevision, TypeOK, Change, Revision
<1>2. answer = {c \in log : Cardinality(Before(c)) < ChangesLimit}
  BY DEF ChangesSince
<1>3. \A c : IsFiniteSet(Before(c)) /\ Cardinality(Before(c)) \in Nat
  BY <1>1, FS_Subset, FS_CardinalityType
<1>4. IsFiniteSet(answer) /\ Cardinality(answer) \in Nat
  BY <1>1, <1>2, FS_Subset, FS_CardinalityType
<1> HIDE DEF log
<1>5. \A c \in answer : c.revision < x.revision
  <2> SUFFICES ASSUME NEW c \in answer, ~(c.revision < x.revision) PROVE FALSE
    OBVIOUS
  <2>1. Before(x) \subseteq Before(c)
    BY <1>1, <1>2 DEF log
  <2>2. Cardinality(Before(x)) <= Cardinality(Before(c))
    BY <1>3, <2>1, FS_Subset
  <2>3. Cardinality(Before(c)) < ChangesLimit /\ ~(Cardinality(Before(x)) < ChangesLimit)
    BY <1>2 DEF log
  <2> HIDE DEF Before
  <2> QED
    BY <1>3, <2>2, <2>3, BoundAssumption
<1>6. Cardinality(answer) >= ChangesLimit
  <2> DEFINE Out == {c \in log : c \notin answer}
             S == {c.revision : c \in Out}
             T == {MaxRevision - r : r \in S}
  <2>1. S \subseteq 0..MaxRevision /\ S # {} /\ MaxRevision \in Nat
    BY <1>1, BoundAssumption DEF log
  <2>2. T \subseteq 0..MaxRevision /\ T # {}
    <3>1. PICK r \in S : TRUE
      BY <2>1
    <3>2. MaxRevision - r \in T
      OBVIOUS
    <3>3. T \subseteq 0..MaxRevision
      <4> HIDE DEF S
      <4> QED
        BY <2>1
    <3> QED
      BY <3>2, <3>3
  <2>3. PICK t \in T : \A u \in T : t >= u
    <3> HIDE DEF T
    <3> QED
      BY <2>1, <2>2, BoundedSetHasMax
  <2>4. PICK c \in Out : t = MaxRevision - c.revision
    OBVIOUS
  <2>5. \A d \in Before(c) : d \in answer
    <3> SUFFICES ASSUME NEW d \in Before(c), d \notin answer PROVE FALSE
      OBVIOUS
    <3>1. d \in Out /\ MaxRevision - d.revision \in T
      OBVIOUS
    <3>2. d.revision \in Int /\ c.revision \in Int /\ d.revision < c.revision
      BY <1>1
    <3>3. MaxRevision - c.revision >= MaxRevision - d.revision
      BY <2>3, <2>4, <3>1
    <3> QED
      BY <2>1, <3>2, <3>3
  <2>6. Cardinality(Before(c)) <= Cardinality(answer)
    BY <1>4, <2>5, FS_Subset
  <2>7. ~(Cardinality(Before(c)) < ChangesLimit)
    BY <1>2
  <2> QED
    BY <1>3, <1>4, <2>6, <2>7, BoundAssumption
<1>7. Cardinality(Changes(q, from)) = Cardinality(answer)
  <2> DEFINE Shown(c) == [revision |-> c.revision, type |-> c.type,
                          fields |-> c.fields, record |-> Found(c.key)]
             f == [c \in answer |-> Shown(c)]
  <2>1. Changes(q, from) = {Shown(c) : c \in answer}
    BY DEF Changes
  <2>2. f \in Surjection(answer, Changes(q, from))
    BY <2>1 DEF Surjection
  <2>3. \A c, d \in answer : Shown(c) = Shown(d) => c.revision = d.revision
    OBVIOUS
  <2>4. f \in Injection(answer, Changes(q, from))
    <3>1. \A c, d \in answer : f[c] = f[d] => c = d
      BY <1>1, <1>2, <2>3
    <3> QED
      BY <2>2, <3>1 DEF Surjection, Injection, IsInjective
  <2> QED
    BY <1>4, <2>2, <2>4, FS_Surjection
<1>8. \A ch \in Changes(q, from) : \E c \in answer : ch.revision = c.revision
  BY DEF Changes
<1> QED
  BY <1>5, <1>6, <1>7, <1>8

-----------------------------------------------------------------------------
(* What one step of the server may do to connection d. *)

\* A message that names a subscription names one with an id below next.
Known(msg, next) ==
    /\ msg.cmd = "changes" => msg.reply_to \in 1..next - 1
    /\ msg.cmd = "reply" /\ msg.answers = "subscribe" =>
           msg.data.subscription \in 1..next - 1

\* No message asks for changes from a revision that is still to come.
Past(m) == m.cmd = "subscribe" => m.from <= lastRevision

\* Nothing is under way to or from a connection that is not open.
Closed(d) == link[d] # "open" => /\ outbox[d] = <<>> /\ inbox[d] = <<>>
                                /\ subscriptions[d] = <<>>

\* Only a running server has open connections; whatever names a subscription
\* names one that was handed out; no one starts from a revision to come.
FeedShape ==
    \A d \in Connection :
        /\ IsSeq(outbox[d])
        /\ Closed(d) /\ (link[d] = "open" => phase = "up")
        /\ \A s \in DOMAIN subscriptions[d] : subscriptions[d][s].from <= lastRevision
        /\ \A i \in DOMAIN inbox[d] : Past(inbox[d][i])
        /\ \A i \in DOMAIN outbox[d] : Known(outbox[d][i], nextSubscriptionId[d])

\* First the pushes, then the answers.
Appends(d, pushes, answers) ==
    IsSeq(pushes) /\ IsSeq(answers) /\ outbox'[d] = outbox[d] \o pushes \o answers

SameSubscriptions(d) ==
    /\ subscriptions'[d] = subscriptions[d]
    /\ nextSubscriptionId'[d] = nextSubscriptionId[d]

\* There is no connection any more, or not yet.
Silent(d) == outbox'[d] = <<>> /\ subscriptions'[d] = <<>> /\ inbox'[d] = <<>>

FewerSubscriptions(d) ==
    /\ nextSubscriptionId'[d] = nextSubscriptionId[d]
    /\ DOMAIN subscriptions'[d] \subseteq DOMAIN subscriptions[d]
    /\ \A s \in DOMAIN subscriptions'[d] : subscriptions'[d][s] = subscriptions[d][s]

\* An answer that is neither an acknowledgement nor that of a subscription.
NoNews(msg) ==
    \/ msg.cmd = "error"
    \/ msg.cmd = "reply" /\ ~Acknowledges(msg) /\ msg.answers # "subscribe"

\* It may be answered, without news, and may lose subscriptions.
Unheard(d) ==
    /\ UNCHANGED <<change, lastRevision>> /\ FewerSubscriptions(d)
    /\ \E answers : /\ Appends(d, <<>>, answers)
                    /\ \A i \in DOMAIN answers : NoNews(answers[i])

\* Change `new' went to the log and was told as ch.
Logged(new, ch) ==
    /\ change' = change \cup {new}
    /\ lastRevision' = lastRevision + 1
    /\ new.revision = lastRevision + 1 /\ ch.revision = lastRevision + 1
    /\ new.key \in Key /\ ch.record.key = new.key
    /\ ch.record.values \in [Field -> Value]

\* An answer to it: an error, or a reply that acknowledges nothing else.
Confirms(msg, new) ==
    \/ msg.cmd = "error"
    \/ /\ msg.cmd = "reply" /\ msg.answers # "subscribe"
       /\ Acknowledges(msg) => Wrote(msg, new)

\* It hears of a write, which may be its own.
Hears(d) ==
    /\ SameSubscriptions(d)
    /\ \E new, ch, answers :
           /\ Logged(new, ch)
           /\ Appends(d, Pushes(d, ch), answers)
           /\ \A i \in DOMAIN answers : Confirms(answers[i], new)

\* It subscribes.
Joins(d) ==
    /\ UNCHANGED <<change, lastRevision>>
    /\ nextSubscriptionId'[d] = nextSubscriptionId[d] + 1
    /\ \E q, answer :
           /\ q.from <= lastRevision
           /\ subscriptions'[d] = With(subscriptions[d], nextSubscriptionId[d], q)
           /\ Appends(d, <<>>, <<answer>>)
           /\ \/ change = {} /\ answer.cmd = "error"
              \/ /\ answer.cmd = "reply" /\ answer.answers = "subscribe"
                 /\ answer.data.subscription = nextSubscriptionId[d]
                 /\ answer.data.changes = Changes(q.query, q.from)

\* It hears of a write that is rolled back.
Misled(d) ==
    /\ "rollback" \in Faults
    /\ UNCHANGED <<change, lastRevision>> /\ SameSubscriptions(d)
    /\ \E ch, answers :
           /\ Appends(d, Pushes(d, ch), answers)
           /\ \A i \in DOMAIN answers : answers[i].cmd = "error"

\* The messages there were stay; the pushes and the answers follow.
LEMMA Appended ==
    ASSUME NEW d \in Connection, IsSeq(outbox[d]), NEW pushes, NEW answers,
           Appends(d, pushes, answers)
    PROVE  /\ IsSeq(outbox'[d])
           /\ \A i \in DOMAIN outbox[d] :
                  i \in DOMAIN outbox'[d] /\ outbox'[d][i] = outbox[d][i]
           /\ \A k \in DOMAIN pushes :
                  /\ Len(outbox[d]) + k \in DOMAIN outbox'[d]
                  /\ outbox'[d][Len(outbox[d]) + k] = pushes[k]
           /\ \A k \in DOMAIN answers :
                  /\ Len(outbox[d]) + Len(pushes) + k \in DOMAIN outbox'[d]
                  /\ outbox'[d][Len(outbox[d]) + Len(pushes) + k] = answers[k]
           /\ \A i \in DOMAIN outbox'[d] :
                  \/ i \in DOMAIN outbox[d]
                  \/ \E k \in DOMAIN pushes : i = Len(outbox[d]) + k
                  \/ \E k \in DOMAIN answers : i = Len(outbox[d]) + Len(pushes) + k
           /\ Len(outbox[d]) \in Nat /\ DOMAIN outbox[d] = 1..Len(outbox[d])
           /\ Len(pushes) \in Nat /\ DOMAIN pushes = 1..Len(pushes)
           /\ Len(answers) \in Nat /\ DOMAIN answers = 1..Len(answers)
<1> DEFINE a == outbox[d]
           b == a \o pushes
           z == outbox'[d]
<1>1. IsSeq(a) /\ IsSeq(pushes) /\ IsSeq(answers) /\ z = b \o answers
  BY DEF Appends
<1> HIDE DEF a, z
<1>2. Concatenates(a, pushes, b)
  BY <1>1, Joined
<1>3. Concatenates(b, answers, z)
  <2>1. IsSeq(b)
    BY <1>2 DEF Concatenates
  <2> HIDE DEF b
  <2> QED
    BY <1>1, <2>1, Joined
<1> HIDE DEF b
<1>4. /\ IsSeq(z)
      /\ Len(a) \in Nat /\ Len(pushes) \in Nat /\ Len(answers) \in Nat
      /\ DOMAIN a = 1..Len(a) /\ DOMAIN pushes = 1..Len(pushes)
      /\ DOMAIN answers = 1..Len(answers)
      /\ DOMAIN z = 1..Len(a) + Len(pushes) + Len(answers)
      /\ \A i \in DOMAIN a : z[i] = a[i]
      /\ \A k \in DOMAIN pushes : z[Len(a) + k] = pushes[k]
      /\ \A k \in DOMAIN answers : z[Len(a) + Len(pushes) + k] = answers[k]
  <2>1. /\ Len(a) \in Nat /\ Len(pushes) \in Nat /\ Len(b) = Len(a) + Len(pushes)
        /\ DOMAIN a = 1..Len(a) /\ DOMAIN pushes = 1..Len(pushes)
        /\ DOMAIN b = 1..Len(a) + Len(pushes)
        /\ \A i \in DOMAIN a : b[i] = a[i]
        /\ \A k \in DOMAIN pushes : b[Len(a) + k] = pushes[k]
    BY <1>2 DEF Concatenates
  <2>2. /\ IsSeq(z) /\ Len(answers) \in Nat /\ DOMAIN answers = 1..Len(answers)
        /\ DOMAIN z = 1..Len(b) + Len(answers)
        /\ \A i \in DOMAIN b : z[i] = b[i]
        /\ \A k \in DOMAIN answers : z[Len(b) + k] = answers[k]
    BY <1>3 DEF Concatenates
  <2> QED
    BY <2>1, <2>2
<1>5. \A i \in DOMAIN z :
          \/ i \in DOMAIN a
          \/ \E k \in DOMAIN pushes : i = Len(a) + k
          \/ \E k \in DOMAIN answers : i = Len(a) + Len(pushes) + k
  <2> SUFFICES ASSUME NEW i \in DOMAIN z, i \notin DOMAIN a,
                      \A k \in DOMAIN pushes : i # Len(a) + k
               PROVE  \E k \in DOMAIN answers : i = Len(a) + Len(pushes) + k
    OBVIOUS
  <2>1. i \in Nat /\ i > Len(a) /\ i <= Len(a) + Len(pushes) + Len(answers)
    BY <1>4
  <2>2. i - Len(a) \notin DOMAIN pushes
    BY <1>4, <2>1
  <2>3. i > Len(a) + Len(pushes)
    BY <1>4, <2>1, <2>2
  <2>4. /\ i - (Len(a) + Len(pushes)) \in DOMAIN answers
        /\ i = Len(a) + Len(pushes) + (i - (Len(a) + Len(pushes)))
    BY <1>4, <2>1, <2>3
  <2> QED
    BY <2>4
<1> QED
  BY <1>4, <1>5 DEF a, z

LEMMA ShortSequences ==
    /\ IsSeq(<<>>)
    /\ \A x : IsSeq(<<x>>) /\ DOMAIN <<x>> = {1} /\ <<x>>[1] = x
    /\ \A s : IsSeq(s) => s \o <<>> = s
<1>1. ASSUME NEW x PROVE IsSeq(<<x>>)
  <2>1. x \in Range(<<x>>)
    BY DEF Range
  <2> QED
    BY <2>1 DEF IsSeq
<1>2. ASSUME NEW s, IsSeq(s) PROVE s \o <<>> = s
  BY <1>2 DEF IsSeq
<1> QED
  BY <1>1, <1>2 DEF IsSeq

\* What Send() puts into the stream of connection d.
LEMMA SendAppends ==
    ASSUME NEW pushed, NEW c \in Connection, NEW answer, Send(pushed, c, answer),
           NEW d \in Connection, IsSeq(pushed[d])
    PROVE  \E answers : /\ Appends(d, pushed[d], answers)
                        /\ \A i \in DOMAIN answers : answers[i] = answer
                        /\ d = c => answers = <<answer>>
<1> DEFINE answers == IF d = c THEN <<answer>> ELSE <<>>
<1>1. outbox'[d] = outbox[d] \o pushed[d] \o answers
  BY DEF Send
<1>2. IsSeq(answers) /\ \A i \in DOMAIN answers : answers[i] = answer
  BY ShortSequences
<1>3. d = c => answers = <<answer>>
  OBVIOUS
<1> HIDE DEF answers
<1> QED
  BY <1>1, <1>2, <1>3 DEF Appends

LEMMA NothingAppends ==
    ASSUME NEW c \in Connection, NEW answer, Send(Nothing, c, answer),
           NEW d \in Connection
    PROVE  \E answers : /\ Appends(d, <<>>, answers)
                        /\ \A i \in DOMAIN answers : answers[i] = answer
                        /\ d = c => answers = <<answer>>
<1> DEFINE answers == IF d = c THEN <<answer>> ELSE <<>>
<1>1. outbox'[d] = outbox[d] \o <<>> \o answers
  BY DEF Send, Nothing
<1>2. IsSeq(answers) /\ IsSeq(<<>>) /\ \A i \in DOMAIN answers : answers[i] = answer
  BY ShortSequences
<1>3. d = c => answers = <<answer>>
  OBVIOUS
<1> HIDE DEF answers
<1> QED
  BY <1>1, <1>2, <1>3 DEF Appends

LEMMA StillIsUnheard ==
    ASSUME NEW d \in Connection, IsSeq(outbox[d]), outbox'[d] = outbox[d],
           UNCHANGED <<change, lastRevision>>, SameSubscriptions(d)
    PROVE  Unheard(d)
<1>1. Appends(d, <<>>, <<>>)
  BY ShortSequences DEF Appends
<1> QED
  BY <1>1 DEF Unheard, SameSubscriptions, FewerSubscriptions

LEMMA AnswerIsUnheard ==
    ASSUME UNCHANGED <<change, lastRevision>>,
           NEW c \in Connection, NEW a, Send(Nothing, c, a), NoNews(a),
           NEW d \in Connection, FewerSubscriptions(d)
    PROVE  Unheard(d)
<1>1. PICK answers : /\ Appends(d, <<>>, answers)
                     /\ \A i \in DOMAIN answers : answers[i] = a
  BY NothingAppends
<1>2. \A i \in DOMAIN answers : NoNews(answers[i])
  BY <1>1
<1> QED
  BY <1>1, <1>2 DEF Unheard

LEMMA RefuseIsUnheard ==
    ASSUME NEW c \in Connection, NEW m, Refuse(c, m), NEW d \in Connection
    PROVE  Unheard(d)
<1>1. Send(Nothing, c, Error(m)) /\ UNCHANGED <<engineVars, session>>
  BY DEF Refuse
<1>2. UNCHANGED <<change, lastRevision>> /\ FewerSubscriptions(d)
  BY <1>1 DEF engineVars, session, FewerSubscriptions
<1>3. NoNews(Error(m))
  BY DEF NoNews, Error
<1> QED
  BY <1>1, <1>2, <1>3, AnswerIsUnheard

\* A write tells every connection the same, and its sender that it is done.
LEMMA WriteIsHeard ==
    ASSUME ServerTypes, NEW new, NEW ch, Logged(new, ch),
           UNCHANGED <<subscriptions, nextSubscriptionId>>,
           NEW c \in Connection, NEW a, Send(Broadcast(ch), c, a), Confirms(a, new),
           NEW d \in Connection
    PROVE  Hears(d)
<1>1. Broadcast(ch)[d] = Pushes(d, ch) /\ IsSeq(Broadcast(ch)[d])
  BY PushesOf DEF Broadcast
<1>2. PICK answers : /\ Appends(d, Pushes(d, ch), answers)
                     /\ \A i \in DOMAIN answers : answers[i] = a
  BY <1>1, SendAppends
<1>3. \A i \in DOMAIN answers : Confirms(answers[i], new)
  BY <1>2
<1> QED
  BY <1>2, <1>3 DEF Hears, SameSubscriptions

\* Each operation of the engine logs the change it hands to the callback.
LEMMA CreateIsLogged ==
    ASSUME TypeOK, NEW t \in Table, NEW values \in [Field -> Value],
           Create(t, values)
    PROVE  \E new : /\ Logged(new, CreateChange(t, values))
                    /\ new.type = "Create"
<1> DEFINE new == [revision |-> lastRevision + 1, type |-> "Create",
                   key |-> NewKey(t), fields |-> {}]
<1>1. NewKey(t) \in Key
  BY BoundAssumption DEF Create, NewKey, TypeOK, Key, Id
<1>2. Logged(new, CreateChange(t, values))
  BY <1>1 DEF Create, InsertChange, Logged, CreateChange, Announced
<1> QED
  BY <1>2

LEMMA UpdateIsLogged ==
    ASSUME TypeOK, NEW k \in Key, NEW values \in Partial, Update(k, values)
    PROVE  \E new : /\ Logged(new, UpdateChange(k, values))
                    /\ new.type = "Update"
<1> DEFINE new == [revision |-> lastRevision + 1, type |-> "Update",
                   key |-> k, fields |-> DOMAIN values]
<1>1. Merged(k, values) \in [Field -> Value]
  BY MergedType
<1>2. Logged(new, UpdateChange(k, values))
  BY <1>1 DEF Update, InsertChange, Logged, UpdateChange, Announced
<1> QED
  BY <1>2

LEMMA DeleteIsLogged ==
    ASSUME TypeOK, NEW k \in Key, Delete(k)
    PROVE  \E new : /\ Logged(new, DeleteChange(k))
                    /\ new.type = "Delete"
<1> DEFINE new == [revision |-> lastRevision + 1, type |-> "Delete",
                   key |-> k, fields |-> {}]
<1>1. row[k].values \in [Field -> Value]
  BY DEF TypeOK, Row
<1>2. Logged(new, DeleteChange(k))
  BY <1>1 DEF Delete, InsertChange, Logged, DeleteChange, Announced, Found
<1> QED
  BY <1>2

\* A write that fails is told to some connections, or to none.
LEMMA InVainIsMisled ==
    ASSUME ServerTypes, "rollback" \in Faults, UNCHANGED <<change, lastRevision>>,
           NEW d \in Connection, IsSeq(outbox[d]), SameSubscriptions(d),
           NEW c, NEW ch, NEW pushed \in PushedInVain(ch, c), NEW answers,
           Appends(d, pushed[d], answers),
           \A i \in DOMAIN answers : answers[i].cmd = "error"
    PROVE  Unheard(d) \/ Misled(d)
<1>1. pushed[d] = <<>> \/ pushed[d] = Pushes(d, ch)
  BY DEF PushedInVain
<1>2. CASE pushed[d] = <<>>
  <2>1. Appends(d, <<>>, answers)
    BY <1>2
  <2> QED
    BY <2>1 DEF Unheard, SameSubscriptions, FewerSubscriptions, NoNews
<1>3. CASE pushed[d] = Pushes(d, ch)
  <2>1. Appends(d, Pushes(d, ch), answers)
    BY <1>3
  <2> QED
    BY <2>1 DEF Misled
<1> QED
  BY <1>1, <1>2, <1>3

LEMMA InVainIsSeq ==
    ASSUME ServerTypes, NEW d \in Connection, NEW c, NEW ch,
           NEW pushed \in PushedInVain(ch, c)
    PROVE  IsSeq(pushed[d])
<1>1. pushed[d] = <<>> \/ pushed[d] = Pushes(d, ch)
  BY DEF PushedInVain
<1> QED
  BY <1>1, ShortSequences, PushesOf

\* What is left after an unsubscription.
LEMMA RestrictIsFewer ==
    ASSUME ServerTypes, NEW c \in Connection, NEW ids,
           subscriptions' = [subscriptions EXCEPT ![c] =
               Restrict(subscriptions[c], DOMAIN subscriptions[c] \ ids)],
           UNCHANGED nextSubscriptionId, NEW d \in Connection
    PROVE  FewerSubscriptions(d)
<1>1. subscriptions'[d] = IF d = c THEN Restrict(subscriptions[c], DOMAIN subscriptions[c] \ ids)
                          ELSE subscriptions[d]
  BY DEF ServerTypes, ServerShape
<1> QED
  BY <1>1 DEF FewerSubscriptions, Restrict

LEMMA SubscribeMoves ==
    ASSUME ServerTypes, NEW c \in Connection, NEW m, Subscribe(c, m),
           m.from <= lastRevision, NEW d \in Connection
    PROVE  Unheard(d) \/ Joins(d)
<1> DEFINE id == nextSubscriptionId[c]
           q == [query |-> m.query, from |-> m.from]
           reply == Reply(m, [subscription |-> id, changes |-> Changes(m.query, m.from)])
           answer == IF change # {} THEN reply ELSE Error(m)
<1>1. /\ Send(Nothing, c, answer) /\ UNCHANGED <<change, lastRevision>>
      /\ m.cmd = "subscribe"
  BY DEF Subscribe, engineVars
<1>2. /\ subscriptions'[d] = IF d = c THEN With(subscriptions[c], id, q)
                             ELSE subscriptions[d]
      /\ nextSubscriptionId'[d] = IF d = c THEN id + 1 ELSE nextSubscriptionId[d]
  BY DEF Subscribe, ServerTypes, ServerShape
<1>3. \/ change = {} /\ answer.cmd = "error"
      \/ /\ answer.cmd = "reply" /\ answer.answers = "subscribe"
         /\ answer.data.subscription = id
         /\ answer.data.changes = Changes(q.query, q.from)
  BY <1>1 DEF Reply, Error
<1>4. q.from <= lastRevision
  OBVIOUS
<1> HIDE DEF answer, q
<1>5. PICK answers : /\ Appends(d, <<>>, answers)
                     /\ \A i \in DOMAIN answers : answers[i] = answer
                     /\ d = c => answers = <<answer>>
  BY <1>1, NothingAppends
<1>6. CASE d = c
  <2>1. /\ Appends(d, <<>>, <<answer>>)
        /\ subscriptions'[d] = With(subscriptions[d], nextSubscriptionId[d], q)
        /\ nextSubscriptionId'[d] = nextSubscriptionId[d] + 1
    BY <1>2, <1>5, <1>6
  <2>2. \/ change = {} /\ answer.cmd = "error"
        \/ /\ answer.cmd = "reply" /\ answer.answers = "subscribe"
           /\ answer.data.subscription = nextSubscriptionId[d]
           /\ answer.data.changes = Changes(q.query, q.from)
    BY <1>3, <1>6
  <2> QED
    BY <1>1, <1>4, <2>1, <2>2 DEF Joins
<1>7. CASE d # c
  <2>1. Appends(d, <<>>, <<>>)
    <3>1. outbox'[d] = outbox[d] \o <<>> \o <<>>
      BY <1>1, <1>7 DEF Send, Nothing
    <3> QED
      BY <3>1, ShortSequences DEF Appends
  <2>2. FewerSubscriptions(d)
    BY <1>2, <1>7 DEF FewerSubscriptions
  <2> QED
    BY <1>1, <2>1, <2>2 DEF Unheard
<1> QED
  BY <1>6, <1>7

LEMMA CommandMoves ==
    ASSUME TypeOK, ServerTypes, FeedShape, NEW c \in Connection, NEW m \in Incoming,
           m.cmd = "subscribe" => m.from <= lastRevision,
           Command(c, m), NEW d \in Connection
    PROVE  Unheard(d) \/ Hears(d) \/ Joins(d) \/ Misled(d)
<1>1. CASE Refuse(c, m)
  BY <1>1, RefuseIsUnheard
<1>2. CASE Authenticate(c, m)
  <2> DEFINE a == Reply(m, [ok |-> TRUE])
             ch == CreateChange(ClientTable, Blank)
  <2>1. CASE ~Refuse(c, m)
    <3>1. /\ Create(ClientTable, Blank) /\ Send(Broadcast(ch), c, a)
          /\ UNCHANGED <<subscriptions, nextSubscriptionId>>
          /\ m.cmd = "authenticate"
      BY <1>2, <2>1 DEF Authenticate
    <3>2. PICK new : Logged(new, ch)
      BY <3>1, CreateIsLogged, TableAssumption, ValueAssumption
    <3>3. Confirms(a, new)
      BY <3>1 DEF Confirms, Acknowledges, Reply
    <3> QED
      BY <3>1, <3>2, <3>3, WriteIsHeard
  <2> QED
    BY <1>1, <2>1
<1>3. CASE NotAuthorized(c, m)
  BY <1>1, <1>3 DEF NotAuthorized
<1>4. CASE Query(c, m)
  <2>1. UNCHANGED <<change, lastRevision>> /\ FewerSubscriptions(d)
    BY <1>4 DEF Query, engineVars, session, FewerSubscriptions
  <2>2. ASSUME NEW data, m.cmd \in {"version", "find", "read", "changes"}
        PROVE  NoNews(Reply(m, data))
    BY <2>2 DEF NoNews, Reply, Acknowledges
  <2>3. NoNews(Error(m))
    BY DEF NoNews, Error
  <2>4. PICK a : Send(Nothing, c, a) /\ NoNews(a)
    BY <1>4, <2>2, <2>3 DEF Query
  <2> QED
    BY <2>1, <2>4, AnswerIsUnheard
<1>5. CASE CreateRecord(c, m)
  <2> DEFINE ch == CreateChange(m.table, m.values)
             a == Reply(m, [record |-> ch.record])
  <2>1. /\ m.cmd = "create" /\ Create(m.table, m.values) /\ Send(Broadcast(ch), c, a)
        /\ UNCHANGED <<subscriptions, nextSubscriptionId>>
        /\ m.table \in Table /\ m.values \in [Field -> Value]
    BY <1>5, MessageFields DEF CreateRecord, session
  <2>2. PICK new : Logged(new, ch) /\ new.type = "Create"
    BY <2>1, CreateIsLogged
  <2>3. ch.record.latestRevision = lastRevision + 1
    BY DEF CreateChange, Announced
  <2>4. Confirms(a, new)
    <3> HIDE DEF ch
    <3> QED
      BY <2>1, <2>2, <2>3 DEF Confirms, Acknowledges, Reply, Wrote, RevisionIn, Logged
  <2> QED
    BY <2>1, <2>2, <2>4, WriteIsHeard
<1>6. CASE UpdateRecord(c, m)
  <2> DEFINE ch == UpdateChange(m.key, m.values)
             a == Reply(m, [revision |-> lastRevision + 1])
  <2>1. CASE ~Refuse(c, m)
    <3>1. /\ m.cmd = "update" /\ Update(m.key, m.values) /\ Send(Broadcast(ch), c, a)
          /\ UNCHANGED <<subscriptions, nextSubscriptionId>>
          /\ m.key \in Key /\ m.values \in Partial
      BY <1>6, <2>1, MessageFields DEF UpdateRecord, session
    <3>2. PICK new : Logged(new, ch) /\ new.type = "Update"
      BY <3>1, UpdateIsLogged
    <3>3. Confirms(a, new)
      <4> HIDE DEF ch
      <4> QED
        BY <3>1, <3>2 DEF Confirms, Acknowledges, Reply, Wrote, RevisionIn, Logged
    <3> QED
      BY <3>1, <3>2, <3>3, WriteIsHeard
  <2> QED
    BY <1>1, <2>1
<1>7. CASE DeleteRecord(c, m)
  <2> DEFINE ch == DeleteChange(m.key)
             a == Reply(m, [revision |-> lastRevision + 1])
  <2>1. CASE ~Refuse(c, m)
    <3>1. /\ m.cmd = "delete" /\ Delete(m.key) /\ Send(Broadcast(ch), c, a)
          /\ UNCHANGED <<subscriptions, nextSubscriptionId>>
          /\ m.key \in Key
      BY <1>7, <2>1, MessageFields DEF DeleteRecord, session
    <3>2. PICK new : Logged(new, ch) /\ new.type = "Delete"
      BY <3>1, DeleteIsLogged
    <3>3. Confirms(a, new)
      <4> HIDE DEF ch
      <4> QED
        BY <3>1, <3>2 DEF Confirms, Acknowledges, Reply, Wrote, RevisionIn, Logged
    <3> QED
      BY <3>1, <3>2, <3>3, WriteIsHeard
  <2> QED
    BY <1>1, <2>1
<1>8. CASE Subscribe(c, m)
  <2>1. m.from <= lastRevision
    BY <1>8 DEF Subscribe
  <2> QED
    BY <1>8, <2>1, SubscribeMoves
<1>9. CASE Unsubscribe(c, m) \/ UnsubscribeQuery(c, m)
  <2>1. CASE ~Refuse(c, m)
    <3>1. PICK ids : subscriptions' = [subscriptions EXCEPT ![c] =
                         Restrict(subscriptions[c], DOMAIN subscriptions[c] \ ids)]
      BY <1>9, <2>1 DEF Unsubscribe, UnsubscribeQuery
    <3>2. /\ UNCHANGED <<change, lastRevision, nextSubscriptionId>>
          /\ m.cmd \in {"unsubscribe", "unsubscribe_query"}
      BY <1>9, <2>1 DEF Unsubscribe, UnsubscribeQuery, engineVars
    <3>3. FewerSubscriptions(d)
      BY <3>1, <3>2, RestrictIsFewer
    <3>4. \A data : NoNews(Reply(m, data))
      BY <3>2 DEF NoNews, Reply, Acknowledges
    <3>5. PICK data : Send(Nothing, c, Reply(m, data))
      BY <1>9, <2>1 DEF Unsubscribe, UnsubscribeQuery
    <3> QED
      BY <3>2, <3>3, <3>4, <3>5, AnswerIsUnheard
  <2> QED
    BY <1>1, <2>1
<1>10. CASE WriteFails(c, m)
  <2>1. UNCHANGED <<change, lastRevision>> /\ SameSubscriptions(d)
    BY <1>10 DEF WriteFails, engineVars, SameSubscriptions
  <2>2. FewerSubscriptions(d) /\ NoNews(Error(m))
    BY <2>1 DEF SameSubscriptions, FewerSubscriptions, NoNews, Error
  <2>3. \/ Send(Nothing, c, Error(m))
        \/ /\ "rollback" \in Faults
           /\ \E ch : \E pushed \in PushedInVain(ch, c) : Send(pushed, c, Error(m))
    BY <1>10 DEF WriteFails
  <2>4. ASSUME "rollback" \in Faults, NEW ch, NEW pushed \in PushedInVain(ch, c),
               Send(pushed, c, Error(m))
        PROVE  Unheard(d) \/ Misled(d)
    <3>1. IsSeq(pushed[d])
      BY InVainIsSeq
    <3>2. PICK answers : /\ Appends(d, pushed[d], answers)
                         /\ \A i \in DOMAIN answers : answers[i] = Error(m)
      BY <2>4, <3>1, SendAppends
    <3>3. (\A i \in DOMAIN answers : answers[i].cmd = "error") /\ IsSeq(outbox[d])
      BY <3>2 DEF Error, FeedShape
    <3> QED
      BY <2>1, <2>4, <3>2, <3>3, InVainIsMisled
  <2> QED
    BY <2>1, <2>2, <2>3, <2>4, AnswerIsUnheard
<1>11. CASE CreateUnread(c, m)
  <2>1. PICK t \in Table, values \in [Field -> Value] :
            /\ Create(t, values)
            /\ Send(Broadcast(CreateChange(t, values)), c, Error(m))
            /\ UNCHANGED <<subscriptions, nextSubscriptionId>>
    BY <1>11, UnreadCreates, MessageFields
  <2> DEFINE ch == CreateChange(t, values)
  <2>2. PICK new : Logged(new, ch)
    BY <2>1, CreateIsLogged
  <2>3. Confirms(Error(m), new)
    BY DEF Confirms, Acknowledges, Error
  <2> HIDE DEF ch
  <2> QED
    BY <2>1, <2>2, <2>3, WriteIsHeard DEF ch
<1> QED
  BY <1>2, <1>3, <1>4, <1>5, <1>6, <1>7, <1>8, <1>9, <1>10, <1>11 DEF Command

\* A connection that is not open is neither told anything nor changed.
LEMMA CommandIsLocal ==
    ASSUME ServerTypes, NEW c \in Connection, NEW m \in Incoming, Command(c, m),
           NEW d \in Connection, d # c, link[d] # "open", outbox[d] = <<>>
    PROVE  outbox'[d] = <<>> /\ subscriptions'[d] = subscriptions[d]
<1>1. \E pushed, a : Send(pushed, c, a) /\ pushed[d] = <<>>
  <2>1. Nothing[d] = <<>> /\ \A ch : Broadcast(ch)[d] = <<>>
    BY PushesOf DEF Nothing, Broadcast
  <2>2. \A ch : \A pushed \in PushedInVain(ch, c) : pushed[d] = <<>>
    BY PushesOf DEF PushedInVain
  <2>3. CASE WriteFails(c, m)
    BY <2>1, <2>2, <2>3 DEF WriteFails
  <2>4. CASE Query(c, m)
    BY <2>1, <2>4 DEF Query
  <2>5. CASE Authenticate(c, m) \/ NotAuthorized(c, m)
    BY <2>1, <2>5 DEF Authenticate, NotAuthorized, Refuse
  <2>6. CASE CreateRecord(c, m) \/ UpdateRecord(c, m) \/ DeleteRecord(c, m)
    BY <2>1, <2>6 DEF CreateRecord, UpdateRecord, DeleteRecord, Refuse
  <2>7. CASE Subscribe(c, m) \/ Unsubscribe(c, m) \/ UnsubscribeQuery(c, m)
    BY <2>1, <2>7 DEF Subscribe, Unsubscribe, UnsubscribeQuery, Refuse
  <2>8. CASE CreateUnread(c, m)
    BY <2>1, <2>8 DEF CreateUnread
  <2> QED
    BY <2>3, <2>4, <2>5, <2>6, <2>7, <2>8 DEF Command
<1>2. outbox'[d] = <<>>
  BY <1>1 DEF Send
<1>3. \/ UNCHANGED subscriptions
      \/ \E f : subscriptions' = [subscriptions EXCEPT ![c] = f]
  BY DEF Command, Authenticate, NotAuthorized, Query, CreateRecord, UpdateRecord,
         DeleteRecord, Subscribe, Unsubscribe, UnsubscribeQuery, WriteFails,
         CreateUnread, Refuse, session
<1>4. subscriptions'[d] = subscriptions[d]
  BY <1>3 DEF ServerTypes, ServerShape
<1> QED
  BY <1>2, <1>4

\* Whoever stays connected when c goes may hear that c is gone.
LEMMA DisconnectMoves ==
    ASSUME TypeOK, ServerTypes, FeedShape, NEW c \in Connection, Disconnect(c),
           NEW d \in Connection, d # c
    PROVE  /\ Unheard(d) \/ Hears(d) \/ Misled(d)
           /\ link[d] # "open" => outbox'[d] = outbox[d]
<1> DEFINE k == <<ClientTable, clientRecordId[c]>>
           ch == DeleteChange(k)
           Sent(pushed) == outbox' = [e \in Connection |->
                               IF e = c THEN <<>> ELSE outbox[e] \o pushed[e]]
<1>1. SameSubscriptions(d)
  BY DEF Disconnect, Forgotten, SameSubscriptions
<1>2. IsSeq(outbox[d])
  BY DEF FeedShape
<1>3. ASSUME NEW pushed, Sent(pushed), IsSeq(pushed[d])
      PROVE  /\ Appends(d, pushed[d], <<>>)
             /\ pushed[d] = <<>> => outbox'[d] = outbox[d]
  <2> DEFINE z == outbox[d] \o pushed[d]
  <2>1. outbox'[d] = z
    BY <1>3
  <2>2. IsSeq(z)
    BY <1>2, <1>3, Joined DEF Concatenates
  <2>3. z \o <<>> = z
    <3> HIDE DEF z
    <3> QED
      BY <2>2, ShortSequences
  <2>4. pushed[d] = <<>> => z = outbox[d]
    BY <1>2, ShortSequences
  <2> QED
    BY <1>3, <2>1, <2>3, <2>4, ShortSequences DEF Appends
<1>4. CASE clientRecordId[c] \in Id /\ Delete(k) /\ Sent(Broadcast(ch))
  <2>1. Broadcast(ch)[d] = Pushes(d, ch) /\ IsSeq(Pushes(d, ch))
    BY PushesOf DEF Broadcast
  <2>2. k \in Key
    BY <1>4, TableAssumption DEF Key
  <2>3. PICK new : Logged(new, ch)
    BY <1>4, <2>2, DeleteIsLogged
  <2>4. Appends(d, Pushes(d, ch), <<>>) /\ (Pushes(d, ch) = <<>> => outbox'[d] = outbox[d])
    BY <1>3, <1>4, <2>1
  <2>5. link[d] # "open" => Pushes(d, ch) = <<>>
    BY PushesOf
  <2> HIDE DEF ch
  <2>6. Hears(d)
    BY <1>1, <2>3, <2>4 DEF Hears
  <2> QED
    BY <2>4, <2>5, <2>6
<1>5. CASE UNCHANGED engineVars /\ Sent(Nothing)
  <2>1. Nothing[d] = <<>> /\ IsSeq(<<>>)
    BY ShortSequences DEF Nothing
  <2>2. outbox'[d] = outbox[d]
    BY <1>3, <1>5, <2>1
  <2> QED
    BY <1>1, <1>2, <1>5, <2>2, StillIsUnheard DEF engineVars
<1>6. ASSUME "rollback" \in Faults, UNCHANGED engineVars,
             NEW pushed \in PushedInVain(ch, c), Sent(pushed)
      PROVE  /\ Unheard(d) \/ Misled(d)
             /\ link[d] # "open" => outbox'[d] = outbox[d]
  <2>1. IsSeq(pushed[d])
    BY InVainIsSeq
  <2>2. Appends(d, pushed[d], <<>>) /\ (pushed[d] = <<>> => outbox'[d] = outbox[d])
    BY <1>3, <1>6, <2>1
  <2>3. link[d] # "open" => pushed[d] = <<>>
    BY PushesOf DEF PushedInVain
  <2>4. UNCHANGED <<change, lastRevision>>
    BY <1>6 DEF engineVars
  <2> HIDE DEF ch, Sent
  <2>5. Unheard(d) \/ Misled(d)
    BY <1>1, <1>2, <1>6, <2>2, <2>4, InVainIsMisled
  <2> QED
    BY <2>2, <2>3, <2>5
<1>7. \/ clientRecordId[c] \in Id /\ Delete(k) /\ Sent(Broadcast(ch))
      \/ UNCHANGED engineVars /\ Sent(Nothing)
      \/ /\ "rollback" \in Faults /\ UNCHANGED engineVars
         /\ \E pushed \in PushedInVain(ch, c) : Sent(pushed)
  BY DEF Disconnect
<1> QED
  BY <1>4, <1>5, <1>6, <1>7

\* What any step does to any connection.
LEMMA StepMoves ==
    ASSUME TypeOK, ServerTypes, FeedShape, [ServerNext]_<<vars, serverVars>>,
           NEW d \in Connection
    PROVE  Silent(d) \/ Unheard(d) \/ Hears(d) \/ Joins(d) \/ Misled(d)
<1>1. ASSUME UNCHANGED <<change, lastRevision, subscriptions, nextSubscriptionId, outbox>>
      PROVE  Unheard(d)
  BY <1>1, StillIsUnheard DEF FeedShape, SameSubscriptions
<1>2. ASSUME NEW c \in Connection, Accept(c) PROVE Unheard(d)
  BY <1>1, <1>2 DEF Accept, engineVars
<1>3. ASSUME NEW c \in Connection, Handle(c)
      PROVE  Unheard(d) \/ Hears(d) \/ Joins(d) \/ Misled(d)
  <2>1. PICK m \in Incoming : m = Head(inbox[c]) /\ Command(c, m)
    BY <1>3, HandledMessage
  <2>2. m.cmd = "subscribe" => m.from <= lastRevision
    <3>1. inbox[c] \in Seq(Incoming) /\ inbox[c] # <<>>
      BY <1>3 DEF Handle, ServerTypes, ServerShape
    <3>2. 1 \in DOMAIN inbox[c] /\ m = inbox[c][1]
      BY <2>1, <3>1
    <3> QED
      BY <3>2 DEF FeedShape, Past
  <2> QED
    BY <2>1, <2>2, CommandMoves
<1>4. ASSUME NEW c \in Connection, Disconnect(c)
      PROVE  Silent(d) \/ Unheard(d) \/ Hears(d) \/ Misled(d)
  <2>1. d = c => Silent(d)
    BY <1>4 DEF Disconnect, Forgotten, Silent
  <2> QED
    BY <1>4, <2>1, DisconnectMoves
<1>5. CASE ServerStop
  <2>1. outbox'[d] = <<>> /\ Forgotten({c \in Connection : link[c] = "open"})
    BY <1>5 DEF ServerStop, Nothing
  <2>2. subscriptions'[d] = <<>> /\ inbox'[d] = <<>>
    BY <2>1 DEF Forgotten, FeedShape, Closed
  <2> QED
    BY <2>1, <2>2 DEF Silent
<1>6. CASE ServerStart
  <2>1. link[d] # "open" /\ UNCHANGED <<outbox, subscriptions, inbox>>
    BY <1>6 DEF ServerStart, PurgeClients, PurgeClientChanges, serverVars, session,
                FeedShape
  <2> QED
    BY <2>1 DEF Silent, FeedShape, Closed
<1>7. ASSUME NEW c \in Connection, NEW m, ClientSends(c, m) PROVE Unheard(d)
  BY <1>1, <1>7 DEF ClientSends, engineVars, session
<1>8. CASE UNCHANGED <<vars, serverVars>>
  BY <1>1, <1>8 DEF vars, serverVars, session
<1> QED
  BY <1>2, <1>3, <1>4, <1>5, <1>6, <1>7, <1>8 DEF ServerNext

-----------------------------------------------------------------------------
(* The shape of what is under way. *)

LEMMA ClosedStep ==
    ASSUME TypeOK, ServerTypes, FeedShape, [ServerNext]_<<vars, serverVars>>,
           NEW d \in Connection
    PROVE  Closed(d)' /\ (link'[d] = "open" => phase' = "up")
<1>1. Closed(d) /\ (link[d] = "open" => phase = "up")
  BY DEF FeedShape
<1>2. ASSUME NEW c \in Connection, Accept(c)
      PROVE  Closed(d)' /\ (link'[d] = "open" => phase' = "up")
  BY <1>1, <1>2 DEF Accept, Accepted, Closed, ServerTypes, ServerTypeOK
<1>3. ASSUME NEW c \in Connection, Handle(c)
      PROVE  Closed(d)' /\ (link'[d] = "open" => phase' = "up")
  <2>1. PICK m \in Incoming : /\ Command(c, m)
                              /\ inbox' = [inbox EXCEPT ![c] = Tail(inbox[c])]
    BY <1>3, HandledMessage
  <2>2. UNCHANGED <<link, phase>> /\ link[c] = "open"
    BY <1>3 DEF Handle
  <2>3. CASE link[d] # "open"
    <3>1. outbox'[d] = <<>> /\ subscriptions'[d] = <<>>
      BY <1>1, <2>1, <2>2, <2>3, CommandIsLocal DEF Closed
    <3>2. inbox'[d] = <<>>
      BY <1>1, <2>1, <2>2, <2>3 DEF Closed, ServerTypes, ServerShape
    <3> QED
      BY <2>2, <2>3, <3>1, <3>2 DEF Closed
  <2> QED
    BY <1>1, <2>2, <2>3 DEF Closed
<1>4. ASSUME NEW c \in Connection, Disconnect(c)
      PROVE  Closed(d)' /\ (link'[d] = "open" => phase' = "up")
  <2>1. Forgotten({c}) /\ outbox'[c] = <<>> /\ phase' = phase
    BY <1>4 DEF Disconnect, Delete
  <2>2. d # c /\ link[d] # "open" => outbox'[d] = outbox[d]
    BY <1>4, DisconnectMoves
  <2> QED
    BY <1>1, <2>1, <2>2 DEF Forgotten, Closed
<1>5. CASE ServerStop
  BY <1>1, <1>5 DEF ServerStop, Forgotten, Nothing, Closed
<1>6. CASE ServerStart
  BY <1>1, <1>6 DEF ServerStart, PurgeClients, PurgeClientChanges, serverVars, session,
                    Closed
<1>7. ASSUME NEW c \in Connection, NEW m, ClientSends(c, m)
      PROVE  Closed(d)' /\ (link'[d] = "open" => phase' = "up")
  BY <1>1, <1>7 DEF ClientSends, session, Closed, ServerTypes, ServerShape
<1>8. CASE UNCHANGED <<vars, serverVars>>
  BY <1>1, <1>8 DEF vars, serverVars, session, Closed
<1> QED
  BY <1>2, <1>3, <1>4, <1>5, <1>6, <1>7, <1>8 DEF ServerNext

LEMMA InboxStep ==
    ASSUME TypeOK, ServerTypes, FeedShape, [ServerNext]_<<vars, serverVars>>,
           NEW d \in Connection
    PROVE  \A i \in DOMAIN inbox'[d] : Past(inbox'[d][i])
<1> DEFINE P == \A i \in DOMAIN inbox'[d] : Past(inbox'[d][i])
<1> SUFFICES P
  OBVIOUS
<1>1. \A i \in DOMAIN inbox[d] : Past(inbox[d][i])
  BY DEF FeedShape
<1>2. ASSUME inbox'[d] = inbox[d] \/ inbox'[d] = <<>> PROVE P
  BY <1>1, <1>2
<1>3. ASSUME NEW c \in Connection, Handle(c) PROVE P
  <2>1. inbox'[d] = IF d = c THEN Tail(inbox[d]) ELSE inbox[d]
    BY <1>3 DEF Handle, ServerTypes, ServerShape
  <2>2. inbox[d] \in Seq(Incoming) /\ (d = c => inbox[d] # <<>>)
    BY <1>3 DEF Handle, ServerTypes, ServerShape
  <2>3. d = c => \A i \in DOMAIN Tail(inbox[d]) :
                     /\ i + 1 \in DOMAIN inbox[d]
                     /\ Tail(inbox[d])[i] = inbox[d][i + 1]
    BY <2>2
  <2>4. CASE d = c
    BY <1>1, <2>1, <2>3, <2>4
  <2>5. CASE d # c
    BY <1>2, <2>1, <2>5
  <2> QED
    BY <2>4, <2>5
<1>4. ASSUME NEW c \in Connection,
             NEW m \in Message({nextMsgId[c]}, {0, lastRevision}), ClientSends(c, m)
      PROVE  P
  <2>1. inbox'[d] = IF d = c THEN Append(inbox[d], m) ELSE inbox[d]
    BY <1>4 DEF ClientSends, ServerTypes, ServerShape
  <2>2. inbox[d] \in Seq(Incoming) /\ m \in Incoming
    BY SentMessage DEF ServerTypes, ServerShape
  <2>3. Past(m)
    <3>1. m.cmd = "subscribe" => m.from \in {0, lastRevision}
      BY DEF Message
    <3> QED
      BY <3>1, BoundAssumption DEF Past, TypeOK
  <2>4. \A i \in DOMAIN Append(inbox[d], m) :
            \/ i \in DOMAIN inbox[d] /\ Append(inbox[d], m)[i] = inbox[d][i]
            \/ Append(inbox[d], m)[i] = m
    BY <2>2
  <2>5. CASE d = c
    BY <1>1, <2>1, <2>3, <2>4, <2>5
  <2>6. CASE d # c
    BY <1>2, <2>1, <2>6
  <2> QED
    BY <2>5, <2>6
<1>5. CASE \E c \in Connection : Accept(c) \/ Disconnect(c)
  BY <1>2, <1>5 DEF Accept, Disconnect, Forgotten
<1>6. CASE ServerStop \/ ServerStart \/ UNCHANGED <<vars, serverVars>>
  BY <1>2, <1>6 DEF ServerStop, ServerStart, Forgotten, serverVars
<1> QED
  BY <1>3, <1>4, <1>5, <1>6 DEF ServerNext

\* While the server runs and d is there, the counter of revisions never falls.
LEMMA RevisionsGrow ==
    ASSUME TypeOK, NEW d, Unheard(d) \/ Hears(d) \/ Joins(d) \/ Misled(d)
    PROVE  lastRevision' >= lastRevision /\ change \subseteq change'
<1>1. lastRevision \in Nat
  BY BoundAssumption DEF TypeOK
<1> QED
  BY <1>1 DEF Unheard, Hears, Joins, Misled, Logged

LEMMA PushesAreKnown ==
    ASSUME ServerTypes, NEW d \in Connection, NEW ch, NEW k \in DOMAIN Pushes(d, ch)
    PROVE  /\ Pushes(d, ch)[k].cmd = "changes"
           /\ Pushes(d, ch)[k].reply_to \in 1..nextSubscriptionId[d] - 1
           /\ Pushes(d, ch)[k].reply_to \in DOMAIN subscriptions[d]
           /\ Pushes(d, ch)[k].changes = {ch}
           /\ Matches(subscriptions[d][Pushes(d, ch)[k].reply_to], ch)
<1>1. PICK s \in DOMAIN subscriptions[d] : /\ Matches(subscriptions[d][s], ch)
                                           /\ Pushes(d, ch)[k] = Push(s, ch)
  BY PushesOf
<1>2. s \in 1..nextSubscriptionId[d] - 1
  BY DEF ServerTypes, ServerTypeOK
<1>3. /\ Push(s, ch).cmd = "changes" /\ Push(s, ch).reply_to = s
      /\ Push(s, ch).changes = {ch}
  BY DEF Push
<1> QED
  BY <1>1, <1>2, <1>3

\* The messages a step adds to the stream of d.
LEMMA NewMessages ==
    ASSUME ServerTypes, FeedShape, NEW d \in Connection,
           NEW pushes, NEW answers, Appends(d, pushes, answers),
           nextSubscriptionId'[d] >= nextSubscriptionId[d],
           nextSubscriptionId'[d] \in Nat,
           \A k \in DOMAIN pushes : Known(pushes[k], nextSubscriptionId'[d]),
           \A k \in DOMAIN answers : Known(answers[k], nextSubscriptionId'[d])
    PROVE  IsSeq(outbox'[d]) /\ \A i \in DOMAIN outbox'[d] : Known(outbox'[d][i], nextSubscriptionId'[d])
<1>1. IsSeq(outbox[d]) /\ \A i \in DOMAIN outbox[d] : Known(outbox[d][i], nextSubscriptionId[d])
  BY DEF FeedShape
<1>2. nextSubscriptionId[d] \in Nat
  BY DEF ServerTypes, ServerShape
<1>3. \A i \in DOMAIN outbox[d] : Known(outbox[d][i], nextSubscriptionId'[d])
  <2>1. \A s \in 1..nextSubscriptionId[d] - 1 : s \in 1..nextSubscriptionId'[d] - 1
    BY <1>2
  <2> QED
    BY <1>1, <2>1 DEF Known
<1>4. IsSeq(outbox'[d])
  BY <1>1, Appended
<1>5. ASSUME NEW i \in DOMAIN outbox'[d] PROVE Known(outbox'[d][i], nextSubscriptionId'[d])
  <2>1. CASE i \in DOMAIN outbox[d]
    <3>1. outbox'[d][i] = outbox[d][i]
      BY <1>1, <2>1, Appended
    <3> QED
      BY <1>3, <2>1, <3>1
  <2>2. ASSUME NEW k \in DOMAIN pushes, i = Len(outbox[d]) + k
        PROVE  Known(outbox'[d][i], nextSubscriptionId'[d])
    <3>1. outbox'[d][i] = pushes[k]
      BY <1>1, <2>2, Appended
    <3> QED
      BY <3>1
  <2>3. ASSUME NEW k \in DOMAIN answers, i = Len(outbox[d]) + Len(pushes) + k
        PROVE  Known(outbox'[d][i], nextSubscriptionId'[d])
    <3>1. outbox'[d][i] = answers[k]
      BY <1>1, <2>3, Appended
    <3> QED
      BY <3>1
  <2> QED
    BY <1>1, <2>1, <2>2, <2>3, Appended
<1> QED
  BY <1>4, <1>5

LEMMA FeedShapeStep ==
    ASSUME TypeOK, ServerTypes, ServerTypes', FeedShape,
           [ServerNext]_<<vars, serverVars>>
    PROVE  FeedShape'
<1> SUFFICES ASSUME NEW d \in Connection
             PROVE  /\ IsSeq(outbox'[d])
                    /\ \A s \in DOMAIN subscriptions'[d] :
                           subscriptions'[d][s].from <= lastRevision'
                    /\ \A i \in DOMAIN inbox'[d] : inbox'[d][i].cmd = "subscribe" =>
                           inbox'[d][i].from <= lastRevision'
                    /\ \A i \in DOMAIN outbox'[d] :
                           Known(outbox'[d][i], nextSubscriptionId'[d])
  BY ClosedStep DEF FeedShape, Closed, Past
<1> DEFINE Starts == \A s \in DOMAIN subscriptions'[d] :
                         subscriptions'[d][s].from <= lastRevision'
           Stream == /\ IsSeq(outbox'[d])
                     /\ \A i \in DOMAIN outbox'[d] :
                            Known(outbox'[d][i], nextSubscriptionId'[d])
<1>1. /\ lastRevision \in Nat
      /\ nextSubscriptionId[d] \in Nat /\ nextSubscriptionId'[d] \in Nat
      /\ \A s \in DOMAIN subscriptions[d] :
             /\ subscriptions[d][s].from \in Nat
             /\ subscriptions[d][s].from <= lastRevision
  BY BoundAssumption DEF TypeOK, ServerTypes, ServerTypeOK, ServerShape, ChangeQuery,
                         FeedShape
<1>2. CASE Silent(d)
  BY <1>2, ShortSequences DEF Silent
<1>3. CASE ~Silent(d)
  <2>1. Unheard(d) \/ Hears(d) \/ Joins(d) \/ Misled(d)
    BY <1>3, StepMoves
  <2>2. lastRevision' >= lastRevision /\ lastRevision' \in Int
    BY <1>1, <2>1, RevisionsGrow DEF Unheard, Hears, Joins, Misled, Logged
  <2>3. \A i \in DOMAIN inbox'[d] : inbox'[d][i].cmd = "subscribe" =>
                                     inbox'[d][i].from <= lastRevision'
    <3> SUFFICES ASSUME NEW i \in DOMAIN inbox'[d], inbox'[d][i].cmd = "subscribe"
                 PROVE  inbox'[d][i].from <= lastRevision'
      OBVIOUS
    <3>1. inbox'[d][i].from <= lastRevision
      BY InboxStep DEF Past
    <3>2. inbox'[d][i] \in Incoming
      BY DEF ServerTypes, ServerShape
    <3>3. inbox'[d][i].from \in Nat
      BY <3>2, MessageFields
    <3> QED
      BY <1>1, <2>2, <3>1, <3>3
  <2>4. CASE Unheard(d)
    <3>1. Starts
      BY <1>1, <2>4 DEF Unheard, FewerSubscriptions
    <3>2. PICK answers : /\ Appends(d, <<>>, answers)
                         /\ \A i \in DOMAIN answers : NoNews(answers[i])
      BY <2>4 DEF Unheard
    <3>3. \A i \in DOMAIN answers : Known(answers[i], nextSubscriptionId'[d])
      BY <3>2 DEF NoNews, Known
    <3>4. nextSubscriptionId'[d] >= nextSubscriptionId[d]
      BY <1>1, <2>4 DEF Unheard, FewerSubscriptions
    <3>5. Stream
      BY <1>1, <3>2, <3>3, <3>4, NewMessages
    <3> QED
      BY <2>3, <3>1, <3>5
  <2>5. CASE Hears(d) \/ Misled(d)
    <3>1. SameSubscriptions(d)
      BY <2>5 DEF Hears, Misled
    <3>2. Starts
      BY <1>1, <2>2, <3>1 DEF SameSubscriptions
    <3>3. PICK ch, answers :
              /\ Appends(d, Pushes(d, ch), answers)
              /\ \A i \in DOMAIN answers : Known(answers[i], nextSubscriptionId'[d])
      BY <2>5 DEF Hears, Misled, Known, Confirms
    <3>4. \A k \in DOMAIN Pushes(d, ch) :
              Known(Pushes(d, ch)[k], nextSubscriptionId'[d])
      BY <3>1, PushesAreKnown DEF Known, SameSubscriptions
    <3>5. nextSubscriptionId'[d] >= nextSubscriptionId[d]
      BY <1>1, <3>1 DEF SameSubscriptions
    <3>6. Stream
      BY <1>1, <3>3, <3>4, <3>5, NewMessages
    <3> QED
      BY <2>3, <3>2, <3>6
  <2>6. CASE Joins(d)
    <3>1. PICK q, answer :
              /\ q.from <= lastRevision
              /\ subscriptions'[d] = With(subscriptions[d], nextSubscriptionId[d], q)
              /\ Appends(d, <<>>, <<answer>>)
              /\ \/ change = {} /\ answer.cmd = "error"
                 \/ /\ answer.cmd = "reply" /\ answer.answers = "subscribe"
                    /\ answer.data.subscription = nextSubscriptionId[d]
                    /\ answer.data.changes = Changes(q.query, q.from)
      BY <2>6 DEF Joins
    <3>2. lastRevision' = lastRevision /\ nextSubscriptionId'[d] = nextSubscriptionId[d] + 1
      BY <2>6 DEF Joins
    <3>3. Starts
      BY <1>1, <3>1, <3>2 DEF With
    <3>4. nextSubscriptionId[d] \in 1..nextSubscriptionId'[d] - 1
      BY <1>1, <3>2 DEF ServerTypes, ServerShape
    <3>5. Known(answer, nextSubscriptionId'[d])
      BY <3>1, <3>4 DEF Known
    <3>6. \A k \in DOMAIN <<answer>> : Known(<<answer>>[k], nextSubscriptionId'[d])
      BY <3>5
    <3>7. nextSubscriptionId'[d] >= nextSubscriptionId[d]
      BY <1>1, <3>2
    <3>8. Stream
      BY <1>1, <3>1, <3>6, <3>7, NewMessages
    <3> QED
      BY <2>3, <3>3, <3>8
  <2> QED
    BY <2>1, <2>4, <2>5, <2>6
<1> QED
  BY <1>2, <1>3

LEMMA FeedShapeInit == ServerInit => FeedShape
BY ShortSequences DEF ServerInit, Nothing, FeedShape, Closed

\* The invariants of the engine and of the server, together.
Base == IInv /\ OnePerRevision /\ ServerTypes /\ FeedShape

LEMMA BaseAlways == ServerSpec => []Base
<1>1. IInv => TypeOK
  BY DEF IInv
<1>2. FeedShape /\ TypeOK /\ ServerTypes /\ ServerTypes'
          /\ [ServerNext]_<<vars, serverVars>> => FeedShape'
  BY FeedShapeStep
<1>3. ServerSpec => [](IInv /\ OnePerRevision)
  BY ServerImplementsEngine, OnePerRevisionAlways, PTL
<1>4. ServerSpec => [](IInv /\ OnePerRevision /\ ServerTypes)
  BY <1>3, ServerTypesHold, PTL
<1> QED
  BY <1>1, <1>2, <1>4, FeedShapeInit, PTL DEF ServerSpec, Base

-----------------------------------------------------------------------------
(* What is acknowledged is in the log. *)

LEMMA AcknowledgedStep ==
    ASSUME TypeOK, ServerTypes, FeedShape, AcknowledgedIsCommitted,
           [ServerNext]_<<vars, serverVars>>
    PROVE  AcknowledgedIsCommitted'
<1> SUFFICES ASSUME NEW d \in Connection, NEW i \in DOMAIN outbox'[d],
                    Acknowledges(outbox'[d][i])
             PROVE  \E ch \in change' : Wrote(outbox'[d][i], ch)
  BY DEF AcknowledgedIsCommitted, Acknowledges, Wrote, RevisionIn
<1>1. ~Silent(d)
  BY DEF Silent
<1>2. Unheard(d) \/ Hears(d) \/ Joins(d) \/ Misled(d)
  BY <1>1, StepMoves
<1>3. IsSeq(outbox[d]) /\ change \subseteq change'
  BY <1>2, RevisionsGrow DEF FeedShape
<1>4. ASSUME i \in DOMAIN outbox[d], outbox'[d][i] = outbox[d][i]
      PROVE  \E ch \in change' : Wrote(outbox'[d][i], ch)
  BY <1>3, <1>4 DEF AcknowledgedIsCommitted
<1>5. CASE Unheard(d)
  <2>1. PICK answers : /\ Appends(d, <<>>, answers)
                       /\ \A k \in DOMAIN answers : NoNews(answers[k])
    BY <1>5 DEF Unheard
  <2>2. \A k \in DOMAIN answers : ~Acknowledges(answers[k])
    BY <2>1 DEF NoNews, Acknowledges
  <2>3. i \in DOMAIN outbox[d] /\ outbox'[d][i] = outbox[d][i]
    BY <1>3, <2>1, <2>2, Appended
  <2> QED
    BY <1>4, <2>3
<1>6. CASE Hears(d)
  <2>1. PICK new, ch, answers : /\ Logged(new, ch)
                                /\ Appends(d, Pushes(d, ch), answers)
                                /\ \A k \in DOMAIN answers : Confirms(answers[k], new)
    BY <1>6 DEF Hears
  <2>2. \A k \in DOMAIN Pushes(d, ch) : ~Acknowledges(Pushes(d, ch)[k])
    BY PushesAreKnown DEF Acknowledges
  <2>3. \/ i \in DOMAIN outbox[d] /\ outbox'[d][i] = outbox[d][i]
        \/ \E k \in DOMAIN answers : outbox'[d][i] = answers[k]
    BY <1>3, <2>1, <2>2, Appended
  <2>4. ASSUME NEW k \in DOMAIN answers, outbox'[d][i] = answers[k]
        PROVE  Wrote(outbox'[d][i], new) /\ new \in change'
    BY <2>1, <2>4 DEF Confirms, Acknowledges, Logged
  <2> QED
    BY <1>4, <2>3, <2>4
<1>7. CASE Joins(d)
  <2>1. PICK answer : /\ Appends(d, <<>>, <<answer>>)
                      /\ answer.cmd = "reply" => answer.answers = "subscribe"
    BY <1>7 DEF Joins
  <2>2. ~Acknowledges(answer)
    BY <2>1 DEF Acknowledges
  <2>3. \A k \in DOMAIN <<answer>> : ~Acknowledges(<<answer>>[k])
    BY <2>2
  <2>4. i \in DOMAIN outbox[d] /\ outbox'[d][i] = outbox[d][i]
    BY <1>3, <2>1, <2>3, Appended
  <2> QED
    BY <1>4, <2>4
<1>8. CASE Misled(d)
  <2>1. PICK ch, answers : /\ Appends(d, Pushes(d, ch), answers)
                           /\ \A k \in DOMAIN answers : answers[k].cmd = "error"
    BY <1>8 DEF Misled
  <2>2. /\ \A k \in DOMAIN answers : ~Acknowledges(answers[k])
        /\ \A k \in DOMAIN Pushes(d, ch) : ~Acknowledges(Pushes(d, ch)[k])
    BY <2>1, PushesAreKnown DEF Acknowledges
  <2>3. i \in DOMAIN outbox[d] /\ outbox'[d][i] = outbox[d][i]
    BY <1>3, <2>1, <2>2, Appended
  <2> QED
    BY <1>4, <2>3
<1> QED
  BY <1>2, <1>5, <1>6, <1>7, <1>8

\* Whoever is told that a write succeeded finds it in the change table, under
\* the revision it was told, even if other writes, pushes and commits fail
\* (DatabaseServer.cpp:241-257 with DatabaseEngine.cpp:304-340).
THEOREM AcknowledgedHolds == ServerSpec => []AcknowledgedIsCommitted
<1>1. ServerInit => AcknowledgedIsCommitted
  BY DEF ServerInit, Nothing, AcknowledgedIsCommitted
<1>2. Base /\ AcknowledgedIsCommitted /\ [ServerNext]_<<vars, serverVars>>
          => AcknowledgedIsCommitted'
  BY AcknowledgedStep DEF Base, IInv
<1> QED
  BY <1>1, <1>2, BaseAlways, PTL DEF ServerSpec

-----------------------------------------------------------------------------
(* The feed of a subscription. *)

\* The feed only grows.
LEMMA FeedStays ==
    ASSUME FeedShape, NEW d \in Connection, NEW s, NEW pushes, NEW answers,
           Appends(d, pushes, answers)
    PROVE  /\ \A i \in Feed(d, s) : i \in Feed(d, s)' /\ outbox'[d][i] = outbox[d][i]
           /\ FedRevisions(d, s) \subseteq FedRevisions(d, s)'
<1>1. \A i \in DOMAIN outbox[d] : i \in DOMAIN outbox'[d] /\ outbox'[d][i] = outbox[d][i]
  BY Appended DEF FeedShape
<1>2. \A i \in Feed(d, s) : i \in Feed(d, s)' /\ outbox'[d][i] = outbox[d][i]
  BY <1>1 DEF Feed
<1> QED
  BY <1>2 DEF FedRevisions

\* A push is a part of the feed of its subscription.
LEMMA FeedPushed ==
    ASSUME ServerTypes, FeedShape, NEW d \in Connection, NEW ch, NEW answers,
           Appends(d, Pushes(d, ch), answers), link[d] = "open",
           NEW s \in DOMAIN subscriptions[d], Matches(subscriptions[d][s], ch)
    PROVE  \E k \in DOMAIN Pushes(d, ch) :
               /\ Len(outbox[d]) + k \in Feed(d, s)'
               /\ ChangesIn(outbox'[d][Len(outbox[d]) + k]) = {ch}
<1>1. PICK k \in DOMAIN Pushes(d, ch) : Pushes(d, ch)[k] = Push(s, ch)
  BY PushesOf
<1>2. /\ Len(outbox[d]) + k \in DOMAIN outbox'[d]
      /\ outbox'[d][Len(outbox[d]) + k] = Push(s, ch)
  BY <1>1, Appended DEF FeedShape
<1>3. Push(s, ch).cmd = "changes" /\ Push(s, ch).reply_to = s /\ Push(s, ch).changes = {ch}
  BY DEF Push
<1>4. Carries(Push(s, ch), s) /\ ChangesIn(Push(s, ch)) = {ch}
  BY <1>3 DEF Carries, ChangesIn
<1> QED
  BY <1>2, <1>4 DEF Feed

\* What a plain subscription asks for, it is pushed.
LEMMA DueIsMatched ==
    ASSUME TypeOK, ServerTypes, FeedShape, NEW d \in Connection, NEW s \in Plain(d),
           NEW new, NEW ch, Logged(new, ch),
           new.key[1] = subscriptions[d][s].query.table,
           new.key[2] \in subscriptions[d][s].query.ids
    PROVE  link[d] = "open" /\ Matches(subscriptions[d][s], ch)
<1>1. /\ s \in DOMAIN subscriptions[d]
      /\ \A f \in Field : subscriptions[d][s].query.accepts[f] = Value
  BY DEF Plain
<1>2. link[d] = "open"
  BY <1>1 DEF FeedShape, Closed
<1>3. ch.revision >= subscriptions[d][s].from
  <2>1. subscriptions[d][s].from \in Nat /\ subscriptions[d][s].from <= lastRevision
    BY <1>1 DEF FeedShape, ServerTypes, ServerTypeOK, ChangeQuery
  <2> QED
    BY <2>1, BoundAssumption DEF Logged, TypeOK
<1>4. \A f \in Field : ch.record.values[f] \in subscriptions[d][s].query.accepts[f]
  BY <1>1 DEF Logged
<1> QED
  BY <1>2, <1>3, <1>4 DEF Matches, Selects, Logged

LEMMA FeedMissesNothingStep ==
    ASSUME TypeOK, OnePerRevision, ServerTypes, FeedShape, FeedMissesNothing,
           [ServerNext]_<<vars, serverVars>>
    PROVE  FeedMissesNothing'
<1> SUFFICES ASSUME NEW d \in Connection, NEW s \in Plain(d)',
                    NEW r \in DueRevisions(d, s)', r \notin FedRevisions(d, s)'
             PROVE  \E i \in Feed(d, s)' : CutBefore(outbox'[d][i], r)
  BY DEF FeedMissesNothing, CutBefore
<1>1. ~Silent(d)
  BY DEF Silent, Plain
<1>2. Unheard(d) \/ Hears(d) \/ Joins(d) \/ Misled(d)
  BY <1>1, StepMoves
<1>3. PICK c \in change' : /\ r = c.revision /\ c.revision > subscriptions'[d][s].from
                           /\ c.key[1] = subscriptions'[d][s].query.table
                           /\ c.key[2] \in subscriptions'[d][s].query.ids
  BY DEF DueRevisions, LogSince
<1>4. /\ s \in DOMAIN subscriptions'[d]
      /\ \A f \in Field : subscriptions'[d][s].query.accepts[f] = Value
  BY DEF Plain
\* An old subscription and an old change: what was there is still there.
<1>5. ASSUME s \in DOMAIN subscriptions[d], subscriptions'[d][s] = subscriptions[d][s],
             c \in change, NEW pushes, NEW answers, Appends(d, pushes, answers)
      PROVE  \E i \in Feed(d, s)' : CutBefore(outbox'[d][i], r)
  <2>1. s \in Plain(d) /\ r \in DueRevisions(d, s)
    BY <1>3, <1>4, <1>5 DEF Plain, DueRevisions, LogSince
  <2>2. r \notin FedRevisions(d, s)
    BY <1>5, FeedStays
  <2>3. PICK i \in Feed(d, s) : CutBefore(outbox[d][i], r)
    BY <2>1, <2>2 DEF FeedMissesNothing
  <2>4. i \in Feed(d, s)' /\ outbox'[d][i] = outbox[d][i]
    BY <1>5, FeedStays
  <2> QED
    BY <2>3, <2>4
<1>6. CASE Unheard(d) \/ Misled(d)
  <2>1. /\ s \in DOMAIN subscriptions[d] /\ subscriptions'[d][s] = subscriptions[d][s]
        /\ c \in change
    BY <1>4, <1>6 DEF Unheard, Misled, FewerSubscriptions, SameSubscriptions
  <2>2. PICK pushes, answers : Appends(d, pushes, answers)
    BY <1>6 DEF Unheard, Misled
  <2> QED
    BY <1>5, <2>1, <2>2
<1>7. CASE Hears(d)
  <2>1. PICK new, ch, answers : /\ Logged(new, ch)
                                /\ Appends(d, Pushes(d, ch), answers)
    BY <1>7 DEF Hears
  <2>2. s \in DOMAIN subscriptions[d] /\ subscriptions'[d][s] = subscriptions[d][s]
    BY <1>4, <1>7 DEF Hears, SameSubscriptions
  <2>3. CASE c \in change
    BY <1>5, <2>1, <2>2, <2>3
  <2>4. CASE c = new
    <3>1. s \in Plain(d)
      BY <1>4, <2>2 DEF Plain
    <3>2. link[d] = "open" /\ Matches(subscriptions[d][s], ch)
      BY <1>3, <2>1, <2>2, <2>4, <3>1, DueIsMatched
    <3>3. PICK i \in Feed(d, s)' : ChangesIn(outbox'[d][i]) = {ch}
      BY <2>1, <2>2, <3>2, FeedPushed
    <3>4. ch.revision = r
      BY <1>3, <2>1, <2>4 DEF Logged
    <3>5. r \in FedRevisions(d, s)'
      BY <3>3, <3>4 DEF FedRevisions
    <3> QED
      BY <3>5
  <2> QED
    BY <2>1, <2>3, <2>4 DEF Logged
<1>8. CASE Joins(d)
  <2> DEFINE id == nextSubscriptionId[d]
  <2>1. PICK q, answer :
            /\ q.from <= lastRevision
            /\ subscriptions'[d] = With(subscriptions[d], id, q)
            /\ Appends(d, <<>>, <<answer>>)
            /\ \/ change = {} /\ answer.cmd = "error"
               \/ /\ answer.cmd = "reply" /\ answer.answers = "subscribe"
                  /\ answer.data.subscription = id
                  /\ answer.data.changes = Changes(q.query, q.from)
    BY <1>8 DEF Joins
  <2>2. c \in change
    BY <1>8 DEF Joins
  <2>3. CASE s # id
    <3>1. s \in DOMAIN subscriptions[d] /\ subscriptions'[d][s] = subscriptions[d][s]
      BY <1>4, <2>1, <2>3 DEF With
    <3> QED
      BY <1>5, <2>1, <2>2, <3>1
  <2>4. CASE s = id
    <3> DEFINE i == Len(outbox[d]) + 1
    <3>1. subscriptions'[d][s] = q
      BY <2>1, <2>4 DEF With
    <3>2. i \in DOMAIN outbox'[d] /\ outbox'[d][i] = answer
      <4>1. /\ 1 \in DOMAIN <<answer>> /\ <<answer>>[1] = answer /\ Len(<<>>) = 0
            /\ IsSeq(outbox[d])
        BY DEF FeedShape
      <4>2. /\ Len(outbox[d]) \in Nat
            /\ Len(outbox[d]) + Len(<<>>) + 1 \in DOMAIN outbox'[d]
            /\ outbox'[d][Len(outbox[d]) + Len(<<>>) + 1] = answer
        BY <2>1, <4>1, Appended
      <4> QED
        BY <4>1, <4>2
    <3> HIDE DEF i
    <3>3. /\ answer.cmd = "reply" /\ answer.answers = "subscribe"
          /\ answer.data.subscription = s
          /\ answer.data.changes = Changes(q.query, q.from)
      BY <2>1, <2>2, <2>4
    <3>4. i \in Feed(d, s)' /\ ChangesIn(outbox'[d][i]) = Changes(q.query, q.from)
      <4>1. Carries(answer, s) /\ ChangesIn(answer) = Changes(q.query, q.from)
        BY <3>3 DEF Carries, ChangesIn
      <4> QED
        BY <3>2, <4>1 DEF Feed
    <3>5. c \in LogSince(q.query, q.from)
      BY <1>3, <2>2, <3>1 DEF LogSince
    <3>6. c \notin ChangesSince(q.query, q.from)
      <4> SUFFICES ASSUME c \in ChangesSince(q.query, q.from) PROVE FALSE
        OBVIOUS
      <4> DEFINE x == [revision |-> c.revision, type |-> c.type, fields |-> c.fields,
                       record |-> Found(c.key)]
      <4>1. x \in Changes(q.query, q.from) /\ x.revision = r
        BY <1>3 DEF Changes
      <4> HIDE DEF x
      <4>2. r \in FedRevisions(d, s)'
        BY <3>4, <4>1 DEF FedRevisions
      <4> QED
        BY <4>2
    <3>7. /\ Cardinality(Changes(q.query, q.from)) >= ChangesLimit
          /\ \A x \in Changes(q.query, q.from) : x.revision < r
      BY <1>3, <3>5, <3>6, AnswerIsOldest
    <3>8. CutBefore(outbox'[d][i], r)
      BY <3>2, <3>3, <3>7 DEF CutBefore
    <3> QED
      BY <3>4, <3>8
  <2> QED
    BY <2>3, <2>4
<1> QED
  BY <1>2, <1>6, <1>7, <1>8

\* A subscription misses no change it asked for, but what the LIMIT cut off its
\* answer and the client can see: whatever commands, connections, failures and
\* restarts come in between (DatabaseServer.cpp:169-178, 267-288).
THEOREM FeedComplete == ServerSpec => []FeedMissesNothing
<1>1. ServerInit => FeedMissesNothing
  BY DEF ServerInit, FeedMissesNothing, Plain
<1>2. Base /\ FeedMissesNothing /\ [ServerNext]_<<vars, serverVars>>
          => FeedMissesNothing'
  BY FeedMissesNothingStep DEF Base, IInv
<1> QED
  BY <1>1, <1>2, BaseAlways, PTL DEF ServerSpec

\* Messages that carry nothing of s leave its feed as it was.
LEMMA FeedUntouched ==
    ASSUME FeedShape, NEW d \in Connection, NEW s, NEW pushes, NEW answers,
           Appends(d, pushes, answers),
           \A k \in DOMAIN pushes : ~Carries(pushes[k], s),
           \A k \in DOMAIN answers : ~Carries(answers[k], s)
    PROVE  /\ Feed(d, s)' = Feed(d, s)
           /\ \A i \in Feed(d, s) : outbox'[d][i] = outbox[d][i]
           /\ FedRevisions(d, s)' = FedRevisions(d, s)
<1>1. IsSeq(outbox[d])
  BY DEF FeedShape
<1>2. \A i \in DOMAIN outbox[d] : i \in DOMAIN outbox'[d] /\ outbox'[d][i] = outbox[d][i]
  BY <1>1, Appended
<1>3. \A i \in DOMAIN outbox'[d] :
          Carries(outbox'[d][i], s) => i \in DOMAIN outbox[d]
  BY <1>1, Appended
<1>4. Feed(d, s)' = Feed(d, s) /\ \A i \in Feed(d, s) : outbox'[d][i] = outbox[d][i]
  BY <1>2, <1>3 DEF Feed
<1> QED
  BY <1>4 DEF FedRevisions

\* A broadcast adds one push to the feed of s, or none.
LEMMA FeedBroadcast ==
    ASSUME ServerTypes, FeedShape, NEW d \in Connection, NEW s, NEW ch, NEW answers,
           Appends(d, Pushes(d, ch), answers),
           \A k \in DOMAIN answers : ~Carries(answers[k], s)
    PROVE  /\ \A i \in Feed(d, s)' :
                  \/ i \in Feed(d, s) /\ outbox'[d][i] = outbox[d][i]
                  \/ /\ i \notin Feed(d, s) /\ ChangesIn(outbox'[d][i]) = {ch}
                     /\ s \in DOMAIN subscriptions[d] /\ Matches(subscriptions[d][s], ch)
                     /\ \A j \in Feed(d, s) : j < i
           /\ \A i, j \in Feed(d, s)' : i < j => i \in Feed(d, s)
<1> DEFINE n == Len(outbox[d])
<1>1. IsSeq(outbox[d])
  BY DEF FeedShape
<1>2. n \in Nat /\ DOMAIN outbox[d] = 1..n
  BY <1>1, Appended
<1>3. DOMAIN Pushes(d, ch) = 1..Len(Pushes(d, ch)) /\ Len(Pushes(d, ch)) \in Nat
  BY <1>1, Appended
<1>4. ASSUME NEW i \in Feed(d, s)', i \notin Feed(d, s)
      PROVE  \E k \in DOMAIN Pushes(d, ch) :
                 i = n + k /\ outbox'[d][i] = Pushes(d, ch)[k] /\ Pushes(d, ch)[k].reply_to = s
  <2>1. i \in DOMAIN outbox'[d] /\ Carries(outbox'[d][i], s)
    BY DEF Feed
  <2>2. i \notin DOMAIN outbox[d]
    <3>1. i \in DOMAIN outbox[d] => outbox'[d][i] = outbox[d][i]
      BY <1>1, Appended
    <3> QED
      BY <1>4, <2>1, <3>1 DEF Feed
  <2>3. ~(\E k \in DOMAIN answers : i = n + Len(Pushes(d, ch)) + k)
    <3> SUFFICES ASSUME NEW k \in DOMAIN answers, i = n + Len(Pushes(d, ch)) + k
                 PROVE  FALSE
      OBVIOUS
    <3>1. outbox'[d][i] = answers[k]
      BY <1>1, Appended
    <3> QED
      BY <2>1, <3>1
  <2>4. PICK k \in DOMAIN Pushes(d, ch) : i = n + k
    BY <1>1, <2>1, <2>2, <2>3, Appended
  <2>5. outbox'[d][i] = Pushes(d, ch)[k]
    BY <1>1, <2>4, Appended
  <2>6. Pushes(d, ch)[k].cmd = "changes"
    BY PushesAreKnown
  <2>7. Pushes(d, ch)[k].reply_to = s
    BY <2>1, <2>5, <2>6 DEF Carries
  <2> QED
    BY <2>4, <2>5, <2>7
<1>5. ASSUME NEW i \in Feed(d, s)', i \notin Feed(d, s)
      PROVE  /\ ChangesIn(outbox'[d][i]) = {ch}
             /\ s \in DOMAIN subscriptions[d] /\ Matches(subscriptions[d][s], ch)
             /\ i > n /\ i \in Nat
  <2>1. PICK k \in DOMAIN Pushes(d, ch) :
            i = n + k /\ outbox'[d][i] = Pushes(d, ch)[k] /\ Pushes(d, ch)[k].reply_to = s
    BY <1>4, <1>5
  <2>2. /\ Pushes(d, ch)[k].cmd = "changes" /\ Pushes(d, ch)[k].changes = {ch}
        /\ s \in DOMAIN subscriptions[d] /\ Matches(subscriptions[d][s], ch)
    BY <2>1, PushesAreKnown
  <2>3. i > n /\ i \in Nat
    BY <1>2, <1>3, <2>1
  <2>4. ChangesIn(outbox'[d][i]) = {ch}
    BY <2>1, <2>2 DEF ChangesIn
  <2> QED
    BY <2>2, <2>3, <2>4
<1>6. \A j \in Feed(d, s) : j \in Nat /\ j <= n /\ outbox'[d][j] = outbox[d][j]
  <2>1. \A j \in DOMAIN outbox[d] : outbox'[d][j] = outbox[d][j]
    BY <1>1, Appended
  <2> QED
    BY <1>2, <2>1 DEF Feed
<1> HIDE DEF n
<1>7. \A i, j \in Feed(d, s)' : i < j => i \in Feed(d, s)
  <2> SUFFICES ASSUME NEW i \in Feed(d, s)', NEW j \in Feed(d, s)', i < j,
                      i \notin Feed(d, s)
               PROVE  FALSE
    OBVIOUS
  <2>1. i > n /\ i \in Nat
    BY <1>5
  <2>2. j \notin Feed(d, s)
    BY <1>2, <1>6, <2>1
  <2>3. PICK k \in DOMAIN Pushes(d, ch) : i = n + k /\ Pushes(d, ch)[k].reply_to = s
    BY <1>4
  <2>4. PICK l \in DOMAIN Pushes(d, ch) : j = n + l /\ Pushes(d, ch)[l].reply_to = s
    BY <1>4, <2>2
  <2>5. k = l
    BY <2>3, <2>4, PushesOf
  <2> QED
    BY <1>2, <1>3, <2>3, <2>4, <2>5
<1>8. ASSUME NEW i \in Feed(d, s)'
      PROVE  \/ i \in Feed(d, s) /\ outbox'[d][i] = outbox[d][i]
             \/ /\ i \notin Feed(d, s) /\ ChangesIn(outbox'[d][i]) = {ch}
                /\ s \in DOMAIN subscriptions[d] /\ Matches(subscriptions[d][s], ch)
                /\ \A j \in Feed(d, s) : j < i
  <2>1. CASE i \in Feed(d, s)
    BY <1>6, <2>1
  <2>2. CASE i \notin Feed(d, s)
    <3>1. i > n /\ i \in Nat
      BY <1>5, <2>2
    <3>2. \A j \in Feed(d, s) : j < i
      BY <1>2, <1>6, <3>1
    <3> QED
      BY <1>5, <2>2, <3>2
  <2> QED
    BY <2>1, <2>2
<1> QED
  BY <1>7, <1>8

\* A new subscription is carried by nothing that is older.
LEMMA NewIsUnknown ==
    ASSUME ServerTypes, FeedShape, NEW d \in Connection
    PROVE  Feed(d, nextSubscriptionId[d]) = {}
<1>1. nextSubscriptionId[d] \notin 1..nextSubscriptionId[d] - 1
  BY DEF ServerTypes, ServerShape
<1> QED
  BY <1>1 DEF FeedShape, Known, Feed, Carries

\* The feed of s is in order and has nothing that is not in the log.
Exact(d, s) ==
    /\ FedRevisions(d, s) \subseteq DueRevisions(d, s)
    /\ \A i, j \in Feed(d, s) :
           i < j => \A x \in ChangesIn(outbox[d][i]), y \in ChangesIn(outbox[d][j]) :
                        x.revision < y.revision

LEMMA ExactUntouched ==
    ASSUME FeedIsExact, FeedShape, NEW d \in Connection, NEW s \in Plain(d),
           subscriptions'[d][s] = subscriptions[d][s], change \subseteq change',
           NEW pushes, NEW answers, Appends(d, pushes, answers),
           \A k \in DOMAIN pushes : ~Carries(pushes[k], s),
           \A k \in DOMAIN answers : ~Carries(answers[k], s)
    PROVE  Exact(d, s)'
<1>1. /\ Feed(d, s)' = Feed(d, s)
      /\ \A i \in Feed(d, s) : outbox'[d][i] = outbox[d][i]
      /\ FedRevisions(d, s)' = FedRevisions(d, s)
  BY FeedUntouched
<1>2. Exact(d, s)
  BY DEF FeedIsExact, Exact
<1>3. DueRevisions(d, s) \subseteq DueRevisions(d, s)'
  BY DEF DueRevisions, LogSince
<1>4. FedRevisions(d, s)' \subseteq DueRevisions(d, s)'
  BY <1>1, <1>2, <1>3 DEF Exact
<1>5. ASSUME NEW i \in Feed(d, s)', NEW j \in Feed(d, s)', i < j,
             NEW x \in ChangesIn(outbox'[d][i]), NEW y \in ChangesIn(outbox'[d][j])
      PROVE  x.revision < y.revision
  BY <1>1, <1>2, <1>5 DEF Exact
<1> QED
  BY <1>4, <1>5 DEF Exact, ChangesIn

\* A change that is told now comes behind all that was told before.
LEMMA ExactBroadcast ==
    ASSUME IInv, ServerTypes, FeedShape, FeedIsExact,
           NEW d \in Connection, NEW s \in Plain(d),
           subscriptions'[d][s] = subscriptions[d][s],
           NEW new, NEW ch, Logged(new, ch), NEW answers,
           Appends(d, Pushes(d, ch), answers),
           \A k \in DOMAIN answers : ~Carries(answers[k], s)
    PROVE  Exact(d, s)'
<1>1. Exact(d, s)
  BY DEF FeedIsExact, Exact
<1>2. /\ s \in DOMAIN subscriptions[d]
      /\ subscriptions[d][s].from \in Nat /\ subscriptions[d][s].from <= lastRevision
      /\ lastRevision \in Nat
  BY BoundAssumption DEF Plain, FeedShape, ServerTypes, ServerTypeOK, ChangeQuery,
                         IInv, TypeOK
<1>3. \A r \in DueRevisions(d, s) : r \in Int /\ r <= lastRevision
  BY DEF DueRevisions, LogSince, IInv, TypeOK, CountersAhead, Change, Revision
<1>4. DueRevisions(d, s) \subseteq DueRevisions(d, s)'
  BY DEF DueRevisions, LogSince, Logged
<1>5. Matches(subscriptions[d][s], ch) => ch.revision \in DueRevisions(d, s)'
  <2> SUFFICES ASSUME Matches(subscriptions[d][s], ch)
               PROVE  ch.revision \in DueRevisions(d, s)'
    OBVIOUS
  <2>1. /\ new.key[1] = subscriptions[d][s].query.table
        /\ new.key[2] \in subscriptions[d][s].query.ids
    BY DEF Matches, Selects, Logged
  <2>2. new \in change' /\ new.revision > subscriptions[d][s].from
    BY <1>2 DEF Logged
  <2>3. new \in LogSince(subscriptions[d][s].query, subscriptions[d][s].from)'
    BY <2>1, <2>2 DEF LogSince
  <2> QED
    BY <2>3 DEF DueRevisions, Logged
<1>6. \A i \in Feed(d, s)' :
          \/ i \in Feed(d, s) /\ outbox'[d][i] = outbox[d][i]
          \/ /\ i \notin Feed(d, s) /\ ChangesIn(outbox'[d][i]) = {ch}
             /\ Matches(subscriptions[d][s], ch)
             /\ \A j \in Feed(d, s) : j < i
  BY FeedBroadcast
<1>7. \A i, j \in Feed(d, s)' : i < j => i \in Feed(d, s)
  BY FeedBroadcast
<1>8. \A i \in Feed(d, s)' : i \in Nat
  <2>1. IsSeq(outbox'[d])
    BY Appended DEF FeedShape
  <2> QED
    BY <2>1 DEF Feed, IsSeq
<1>9. FedRevisions(d, s)' \subseteq DueRevisions(d, s)'
  <2> SUFFICES ASSUME NEW i \in Feed(d, s)', NEW x \in ChangesIn(outbox'[d][i])
               PROVE  x.revision \in DueRevisions(d, s)'
    BY DEF FedRevisions
  <2>1. CASE i \in Feed(d, s) /\ outbox'[d][i] = outbox[d][i]
    <3>1. x.revision \in FedRevisions(d, s)
      BY <2>1 DEF FedRevisions, ChangesIn
    <3> QED
      BY <1>1, <1>4, <3>1 DEF Exact
  <2>2. CASE ChangesIn(outbox'[d][i]) = {ch} /\ Matches(subscriptions[d][s], ch)
    BY <1>5, <2>2
  <2> QED
    BY <1>6, <2>1, <2>2
<1>10. ASSUME NEW i \in Feed(d, s)', NEW j \in Feed(d, s)', i < j,
              NEW x \in ChangesIn(outbox'[d][i]), NEW y \in ChangesIn(outbox'[d][j])
       PROVE  x.revision < y.revision
  <2>1. i \in Feed(d, s)
    BY <1>7, <1>10
  <2>2. outbox'[d][i] = outbox[d][i]
    BY <1>6, <2>1
  <2>3. CASE j \in Feed(d, s)
    <3>1. outbox'[d][j] = outbox[d][j]
      BY <1>6, <2>3
    <3> QED
      BY <1>1, <1>10, <2>1, <2>2, <2>3, <3>1 DEF Exact, ChangesIn
  <2>4. CASE j \notin Feed(d, s)
    <3>1. y = ch
      BY <1>6, <2>4
    <3>2. x.revision \in FedRevisions(d, s)
      BY <2>1, <2>2 DEF FedRevisions, ChangesIn
    <3>3. x.revision \in Int /\ x.revision <= lastRevision
      BY <1>1, <1>3, <3>2 DEF Exact
    <3> QED
      BY <1>2, <3>1, <3>3 DEF Logged
  <2> QED
    BY <2>3, <2>4
<1> QED
  BY <1>9, <1>10 DEF Exact, ChangesIn

\* A new subscription starts with the answer alone.
LEMMA ExactJoined ==
    ASSUME ServerTypes, FeedShape, NEW d \in Connection, UNCHANGED change,
           NEW s, s = nextSubscriptionId[d], NEW q, subscriptions'[d][s] = q,
           NEW answer, Appends(d, <<>>, <<answer>>),
           \/ answer.cmd = "error"
           \/ answer.cmd = "reply" /\ answer.data.changes = Changes(q.query, q.from)
    PROVE  Exact(d, s)'
<1>1. IsSeq(outbox[d]) /\ Len(outbox[d]) \in Nat
  BY Appended DEF FeedShape
<1>2. \A i \in Feed(d, s)' : i = Len(outbox[d]) + 1 /\ outbox'[d][i] = answer
  <2> SUFFICES ASSUME NEW i \in Feed(d, s)'
               PROVE  i = Len(outbox[d]) + 1 /\ outbox'[d][i] = answer
    OBVIOUS
  <2>1. i \in DOMAIN outbox'[d] /\ Carries(outbox'[d][i], s)
    BY DEF Feed
  <2>2. i \notin DOMAIN outbox[d]
    <3>1. i \in DOMAIN outbox[d] => outbox'[d][i] = outbox[d][i]
      BY <1>1, Appended
    <3> QED
      BY <2>1, <3>1, NewIsUnknown DEF Feed
  <2>3. PICK k \in DOMAIN <<answer>> : i = Len(outbox[d]) + Len(<<>>) + k
    BY <1>1, <2>1, <2>2, Appended
  <2>4. outbox'[d][i] = <<answer>>[k]
    BY <1>1, <2>3, Appended
  <2>5. k = 1 /\ Len(<<>>) = 0
    OBVIOUS
  <2> QED
    BY <1>1, <2>3, <2>4, <2>5
<1>3. \A i, j \in Feed(d, s)' : ~(i < j)
  BY <1>1, <1>2
<1>4. FedRevisions(d, s)' \subseteq DueRevisions(d, s)'
  <2> SUFFICES ASSUME NEW i \in Feed(d, s)', NEW x \in ChangesIn(outbox'[d][i])
               PROVE  x.revision \in DueRevisions(d, s)'
    BY DEF FedRevisions
  <2>1. outbox'[d][i] = answer /\ Carries(answer, s)
    BY <1>2 DEF Feed
  <2>2. answer.cmd = "reply" /\ answer.data.changes = Changes(q.query, q.from)
    BY <2>1 DEF Carries
  <2>3. x \in Changes(q.query, q.from)
    BY <2>1, <2>2 DEF ChangesIn
  <2>4. PICK c \in LogSince(q.query, q.from) : x.revision = c.revision
    <3>1. ChangesSince(q.query, q.from) \subseteq LogSince(q.query, q.from)
      BY DEF ChangesSince
    <3>2. \E c \in ChangesSince(q.query, q.from) : x.revision = c.revision
      BY <2>3 DEF Changes
    <3> QED
      BY <3>1, <3>2
  <2>5. c \in LogSince(q.query, q.from)'
    BY DEF LogSince
  <2> QED
    BY <2>4, <2>5 DEF DueRevisions
<1> QED
  BY <1>3, <1>4 DEF Exact

LEMMA FeedIsExactStep ==
    ASSUME "rollback" \notin Faults, IInv, ServerTypes, FeedShape, FeedIsExact,
           [ServerNext]_<<vars, serverVars>>
    PROVE  FeedIsExact'
<1> SUFFICES ASSUME NEW d \in Connection, NEW s \in Plain(d)'
             PROVE  Exact(d, s)'
  BY DEF FeedIsExact, Exact
<1>0. TypeOK
  BY DEF IInv
<1>1. ~Silent(d)
  BY DEF Silent, Plain
<1>2. Unheard(d) \/ Hears(d) \/ Joins(d)
  BY <1>0, <1>1, StepMoves DEF Misled
<1>3. /\ s \in DOMAIN subscriptions'[d]
      /\ \A f \in Field : subscriptions'[d][s].query.accepts[f] = Value
  BY DEF Plain
<1>4. ASSUME s \in DOMAIN subscriptions[d], subscriptions'[d][s] = subscriptions[d][s]
      PROVE  s \in Plain(d)
  BY <1>3, <1>4 DEF Plain
<1>5. CASE Unheard(d)
  <2>1. s \in Plain(d) /\ subscriptions'[d][s] = subscriptions[d][s]
    BY <1>3, <1>4, <1>5 DEF Unheard, FewerSubscriptions
  <2>2. PICK answers : /\ Appends(d, <<>>, answers)
                       /\ \A k \in DOMAIN answers : NoNews(answers[k])
    BY <1>5 DEF Unheard
  <2>3. \A k \in DOMAIN answers : ~Carries(answers[k], s)
    BY <2>2 DEF NoNews, Carries
  <2>4. change \subseteq change'
    BY <1>5 DEF Unheard
  <2>5. \A k \in DOMAIN <<>> : ~Carries(<<>>[k], s)
    OBVIOUS
  <2> QED
    BY <2>1, <2>2, <2>3, <2>4, <2>5, ExactUntouched
<1>6. CASE Hears(d)
  <2>1. s \in Plain(d) /\ subscriptions'[d][s] = subscriptions[d][s]
    BY <1>3, <1>4, <1>6 DEF Hears, SameSubscriptions
  <2>2. PICK new, ch, answers : /\ Logged(new, ch)
                                /\ Appends(d, Pushes(d, ch), answers)
                                /\ \A k \in DOMAIN answers : Confirms(answers[k], new)
    BY <1>6 DEF Hears
  <2>3. \A k \in DOMAIN answers : ~Carries(answers[k], s)
    BY <2>2 DEF Confirms, Carries
  <2> QED
    BY <2>1, <2>2, <2>3, ExactBroadcast
<1>7. CASE Joins(d)
  <2>1. PICK q, answer :
            /\ subscriptions'[d] = With(subscriptions[d], nextSubscriptionId[d], q)
            /\ Appends(d, <<>>, <<answer>>)
            /\ \/ answer.cmd = "error"
               \/ /\ answer.cmd = "reply" /\ answer.answers = "subscribe"
                  /\ answer.data.subscription = nextSubscriptionId[d]
                  /\ answer.data.changes = Changes(q.query, q.from)
    BY <1>7 DEF Joins
  <2>2. UNCHANGED change
    BY <1>7 DEF Joins
  <2>3. CASE s = nextSubscriptionId[d]
    <3>1. subscriptions'[d][s] = q
      BY <2>1, <2>3 DEF With
    <3> QED
      BY <2>1, <2>2, <2>3, <3>1, ExactJoined
  <2>4. CASE s # nextSubscriptionId[d]
    <3>1. s \in Plain(d) /\ subscriptions'[d][s] = subscriptions[d][s]
      BY <1>3, <1>4, <2>1, <2>4 DEF With
    <3>2. ~Carries(answer, s)
      BY <2>1, <2>4 DEF Carries
    <3>3. \A k \in DOMAIN <<answer>> : ~Carries(<<answer>>[k], s)
      BY <3>2
    <3>4. \A k \in DOMAIN <<>> : ~Carries(<<>>[k], s)
      OBVIOUS
    <3> QED
      BY <2>1, <2>2, <3>1, <3>3, <3>4, ExactUntouched
  <2> QED
    BY <2>3, <2>4
<1> QED
  BY <1>2, <1>5, <1>6, <1>7

\* If nothing is rolled back after a push of it, a subscription is sent nothing
\* but changes in the log that it asked for, each once and in the order of their
\* revisions, the answer to its subscribe command included
\* (DatabaseServer.cpp:169-178, 267-288).
THEOREM FeedOrdered ==
    ASSUME "rollback" \notin Faults
    PROVE  ServerSpec => []FeedIsExact
<1>1. ServerInit => FeedIsExact
  BY DEF ServerInit, FeedIsExact, Plain
<1>2. Base /\ FeedIsExact /\ [ServerNext]_<<vars, serverVars>> => FeedIsExact'
  BY FeedIsExactStep DEF Base
<1> QED
  BY <1>1, <1>2, BaseAlways, PTL DEF ServerSpec

-----------------------------------------------------------------------------
(* One's own change comes before its acknowledgement. *)

\* Message i acknowledges change c, which subscription s, joined at message j,
\* had asked for; and it was sent it in between.
Awaits(d, s, i, j, c) ==
    /\ Acknowledges(outbox[d][i])
    /\ outbox[d][j].cmd = "reply" /\ Carries(outbox[d][j], s)
    /\ c.revision = RevisionIn(outbox[d][i])
    /\ c.key[1] = subscriptions[d][s].query.table
    /\ c.key[2] \in subscriptions[d][s].query.ids
Shows(msg, s, c) ==
    Carries(msg, s) /\ c.revision \in {x.revision : x \in ChangesIn(msg)}
Arrives(d, s, i, j, c) == \E n \in j..i : Shows(outbox[d][n], s, c)

LEMMA OwnPushMeans ==
    OwnPushComesFirst <=>
        \A d \in Connection : \A s \in Plain(d) : \A i \in DOMAIN outbox[d] :
            \A j \in 1..i : \A c \in change :
                Awaits(d, s, i, j, c) => Arrives(d, s, i, j, c)
BY DEF OwnPushComesFirst, Awaits, Arrives, Shows

\* The revision a client was told is not one to come.
LEMMA AcknowledgedIsPast ==
    ASSUME IInv, AcknowledgedIsCommitted, NEW d \in Connection,
           NEW i \in DOMAIN outbox[d], Acknowledges(outbox[d][i])
    PROVE  RevisionIn(outbox[d][i]) \in Nat /\ RevisionIn(outbox[d][i]) <= lastRevision
<1>1. PICK c \in change : c.revision = RevisionIn(outbox[d][i])
  BY DEF AcknowledgedIsCommitted, Wrote
<1>2. c.revision \in Nat /\ c.revision <= lastRevision
  BY BoundAssumption DEF IInv, TypeOK, CountersAhead, Change, Revision
<1> QED
  BY <1>1, <1>2

\* An acknowledgement that was there keeps the push it had before it.
LEMMA OwnPushStays ==
    ASSUME IInv, FeedShape, AcknowledgedIsCommitted, OwnPushComesFirst,
           NEW d \in Connection, NEW s \in Plain(d),
           subscriptions'[d][s] = subscriptions[d][s],
           NEW pushes, NEW answers, Appends(d, pushes, answers),
           NEW i \in DOMAIN outbox[d], NEW j \in 1..i, NEW c,
           c \in change <=> ~(c.revision > lastRevision), Awaits(d, s, i, j, c)'
    PROVE  Arrives(d, s, i, j, c)'
<1>1. /\ \A n \in DOMAIN outbox[d] : outbox'[d][n] = outbox[d][n]
      /\ Len(outbox[d]) \in Nat /\ DOMAIN outbox[d] = 1..Len(outbox[d])
  BY Appended DEF FeedShape
<1>2. \A n \in 1..i : n \in DOMAIN outbox[d] /\ outbox'[d][n] = outbox[d][n]
  BY <1>1
<1>3. Acknowledges(outbox[d][i]) /\ c \in change
  <2>0. Acknowledges(outbox[d][i])
    BY <1>1 DEF Awaits, Acknowledges
  <2>1. RevisionIn(outbox[d][i]) \in Nat /\ RevisionIn(outbox[d][i]) <= lastRevision
    BY <2>0, AcknowledgedIsPast
  <2>2. c.revision = RevisionIn(outbox[d][i])
    BY <1>1 DEF Awaits, RevisionIn
  <2>3. lastRevision \in Nat
    BY BoundAssumption DEF IInv, TypeOK
  <2> QED
    BY <2>0, <2>1, <2>2, <2>3
<1>4. outbox[d][j].cmd = "reply" /\ Carries(outbox[d][j], s)
  BY <1>2 DEF Awaits, Carries
<1>5. /\ c.revision = RevisionIn(outbox[d][i])
      /\ c.key[1] = subscriptions[d][s].query.table
      /\ c.key[2] \in subscriptions[d][s].query.ids
  BY <1>1 DEF Awaits, RevisionIn
<1>6. Awaits(d, s, i, j, c)
  BY <1>3, <1>4, <1>5 DEF Awaits
<1>7. PICK n \in j..i : Shows(outbox[d][n], s, c)
  BY <1>3, <1>6, OwnPushMeans DEF Arrives
<1>8. n \in 1..i
  BY <1>1, <1>7
<1>9. Shows(outbox'[d][n], s, c)
  BY <1>2, <1>7, <1>8
<1> QED
  BY <1>7, <1>9 DEF Arrives, Shows, Carries, ChangesIn

\* A message behind those that were there is a push or an answer.
LEMMA PlacesOf ==
    ASSUME FeedShape, NEW d \in Connection, NEW pushes, NEW answers,
           Appends(d, pushes, answers), NEW l \in DOMAIN outbox'[d]
    PROVE  \/ l \in DOMAIN outbox[d]
           \/ \E k \in DOMAIN pushes : l = Len(outbox[d]) + k
           \/ \E k \in DOMAIN answers : l = Len(outbox[d]) + Len(pushes) + k
<1>1. IsSeq(outbox[d])
  BY DEF FeedShape
<1> QED
  BY <1>1, Appended

\* The acknowledgement of a new write comes with the push of it before it.
LEMMA OwnPushAppears ==
    ASSUME IInv, ServerTypes, FeedShape, NEW d \in Connection, NEW s \in Plain(d),
           NEW new, NEW ch, Logged(new, ch), NEW answers,
           Appends(d, Pushes(d, ch), answers),
           \A k \in DOMAIN answers : Confirms(answers[k], new),
           subscriptions'[d][s] = subscriptions[d][s],
           NEW i \in DOMAIN outbox'[d], i \notin DOMAIN outbox[d], NEW j \in 1..i,
           NEW c \in change', Awaits(d, s, i, j, c)'
    PROVE  Arrives(d, s, i, j, c)'
<1> DEFINE L == Len(outbox[d])
           P == Len(Pushes(d, ch))
<1>0. /\ Acknowledges(outbox'[d][i])
      /\ outbox'[d][j].cmd = "reply" /\ Carries(outbox'[d][j], s)
      /\ c.revision = RevisionIn(outbox'[d][i])
      /\ c.key[1] = subscriptions[d][s].query.table
      /\ c.key[2] \in subscriptions[d][s].query.ids
  BY DEF Awaits, Acknowledges, Carries, RevisionIn
<1>1. /\ IsSeq(outbox[d]) /\ L \in Nat /\ DOMAIN outbox[d] = 1..L
      /\ P \in Nat /\ DOMAIN Pushes(d, ch) = 1..P
      /\ Len(answers) \in Nat /\ DOMAIN answers = 1..Len(answers)
  <2>1. IsSeq(outbox[d])
    BY DEF FeedShape
  <2> QED
    BY <2>1, Appended
<1>2. \A k \in DOMAIN Pushes(d, ch) :
          Pushes(d, ch)[k].cmd = "changes" /\ ~Acknowledges(Pushes(d, ch)[k])
  BY PushesAreKnown DEF Acknowledges
<1>3. /\ \A k \in DOMAIN Pushes(d, ch) : outbox'[d][L + k] = Pushes(d, ch)[k]
      /\ \A k \in DOMAIN answers : outbox'[d][L + P + k] = answers[k]
      /\ \A l \in DOMAIN outbox'[d] :
             \/ l \in DOMAIN outbox[d]
             \/ \E k \in DOMAIN Pushes(d, ch) : l = L + k
             \/ \E k \in DOMAIN answers : l = L + P + k
  <2>1. ASSUME NEW k \in DOMAIN Pushes(d, ch)
        PROVE  outbox'[d][L + k] = Pushes(d, ch)[k]
    BY <1>1, Appended
  <2>2. \A k \in DOMAIN answers : outbox'[d][L + P + k] = answers[k]
    BY <1>1, Appended
  <2>3. ASSUME NEW l \in DOMAIN outbox'[d]
        PROVE  \/ l \in DOMAIN outbox[d]
               \/ \E k \in DOMAIN Pushes(d, ch) : l = L + k
               \/ \E k \in DOMAIN answers : l = L + P + k
    BY PlacesOf
  <2> QED
    BY <2>1, <2>2, <2>3
<1>4. PICK k \in DOMAIN answers : i = L + P + k /\ outbox'[d][i] = answers[k]
  BY <1>0, <1>2, <1>3
<1>5. c = new /\ c.revision = lastRevision + 1
  <2>1. new.revision = RevisionIn(outbox'[d][i]) /\ new.revision = lastRevision + 1
    BY <1>0, <1>4 DEF Confirms, Acknowledges, Wrote, Logged
  <2>2. \A x \in change : x.revision \in Int /\ x.revision <= lastRevision
    BY DEF IInv, TypeOK, CountersAhead, Change, Revision
  <2>3. lastRevision \in Nat
    BY BoundAssumption DEF IInv, TypeOK
  <2>4. c \notin change
    BY <1>0, <2>1, <2>2, <2>3
  <2> QED
    BY <1>0, <2>1, <2>4 DEF Logged
<1>6. link[d] = "open" /\ Matches(subscriptions[d][s], ch)
  <2>1. new.key[1] = subscriptions[d][s].query.table /\ new.key[2] \in subscriptions[d][s].query.ids
    BY <1>0, <1>5
  <2> QED
    BY <2>1, DueIsMatched DEF IInv
<1>7. PICK p \in DOMAIN Pushes(d, ch) : /\ L + p \in Feed(d, s)'
                                        /\ ChangesIn(outbox'[d][L + p]) = {ch}
  BY <1>6, FeedPushed DEF Plain
<1>8. j \in DOMAIN outbox[d]
  <2>1. j \in DOMAIN outbox'[d]
    <3>1. IsSeq(outbox'[d])
      BY <1>1, Appended
    <3>2. DOMAIN outbox'[d] = 1..Len(outbox'[d]) /\ Len(outbox'[d]) \in Nat
      BY <3>1 DEF IsSeq
    <3> QED
      BY <3>2
  <2>2. \A n \in DOMAIN Pushes(d, ch) : j # L + n
    BY <1>0, <1>2, <1>3
  <2>3. \A n \in DOMAIN answers : j # L + P + n
    <3>1. \A n \in DOMAIN answers : ~Carries(answers[n], s)
      BY <1>0 DEF Confirms, Carries
    <3> QED
      BY <1>0, <1>3, <3>1
  <2> QED
    BY <1>3, <2>1, <2>2, <2>3
<1>9. L + p \in j..i
  <2> HIDE DEF L, P
  <2> QED
    BY <1>1, <1>4, <1>7, <1>8
<1>10. Carries(outbox'[d][L + p], s)
  BY <1>7 DEF Feed
<1>11. c.revision \in {x.revision : x \in ChangesIn(outbox'[d][L + p])}
  BY <1>5, <1>7 DEF Logged
<1> QED
  BY <1>9, <1>10, <1>11 DEF Arrives, Shows, Carries, ChangesIn

LEMMA OwnPushStep ==
    ASSUME IInv, ServerTypes, FeedShape, AcknowledgedIsCommitted, OwnPushComesFirst,
           [ServerNext]_<<vars, serverVars>>
    PROVE  OwnPushComesFirst'
<1> SUFFICES ASSUME NEW d \in Connection, NEW s \in Plain(d)',
                    NEW i \in DOMAIN outbox'[d], NEW j \in 1..i, NEW c \in change',
                    Awaits(d, s, i, j, c)'
             PROVE  Arrives(d, s, i, j, c)'
  BY DEF OwnPushComesFirst, Awaits, Arrives, Shows
<1>0. TypeOK
  BY DEF IInv
<1>ack. Acknowledges(outbox'[d][i]) /\ Carries(outbox'[d][j], s)
  BY DEF Awaits, Acknowledges, Carries
<1>1. Unheard(d) \/ Hears(d) \/ Joins(d) \/ Misled(d)
  <2>1. ~Silent(d)
    BY DEF Silent
  <2> QED
    BY <1>0, <2>1, StepMoves
<1>2. /\ s \in DOMAIN subscriptions'[d]
      /\ \A f \in Field : subscriptions'[d][s].query.accepts[f] = Value
  BY DEF Plain
<1>3. c \in change <=> ~(c.revision > lastRevision)
  <2>1. \A x \in change : x.revision \in Int /\ x.revision <= lastRevision
    BY DEF IInv, TypeOK, CountersAhead, Change, Revision
  <2>2. lastRevision \in Nat
    BY <1>0, BoundAssumption DEF TypeOK
  <2>3. c \in change \/ c.revision = lastRevision + 1
    BY <1>1 DEF Unheard, Hears, Joins, Misled, Logged
  <2> QED
    BY <2>1, <2>2, <2>3
\* An acknowledgement that was there, and a subscription that was there.
<1>4. ASSUME s \in DOMAIN subscriptions[d], subscriptions'[d][s] = subscriptions[d][s],
             NEW pushes, NEW answers, Appends(d, pushes, answers),
             i \in DOMAIN outbox[d]
      PROVE  Arrives(d, s, i, j, c)'
  <2>1. s \in Plain(d)
    BY <1>2, <1>4 DEF Plain
  <2> QED
    BY <1>3, <1>4, <2>1, OwnPushStays
<1>5. CASE Unheard(d)
  <2>1. PICK answers : /\ Appends(d, <<>>, answers)
                       /\ \A k \in DOMAIN answers : NoNews(answers[k])
    BY <1>5 DEF Unheard
  <2>2. \A k \in DOMAIN answers : ~Acknowledges(answers[k])
    BY <2>1 DEF NoNews, Acknowledges
  <2>3. i \in DOMAIN outbox[d]
    BY <1>ack, <2>1, <2>2, Appended DEF FeedShape
  <2>4. s \in DOMAIN subscriptions[d] /\ subscriptions'[d][s] = subscriptions[d][s]
    BY <1>2, <1>5 DEF Unheard, FewerSubscriptions
  <2> QED
    BY <1>4, <2>1, <2>3, <2>4
<1>6. CASE Misled(d)
  <2>1. PICK ch, answers : /\ Appends(d, Pushes(d, ch), answers)
                           /\ \A k \in DOMAIN answers : answers[k].cmd = "error"
    BY <1>6 DEF Misled
  <2>2. /\ \A k \in DOMAIN answers : ~Acknowledges(answers[k])
        /\ \A k \in DOMAIN Pushes(d, ch) : ~Acknowledges(Pushes(d, ch)[k])
    BY <2>1, PushesAreKnown DEF Acknowledges
  <2>3. i \in DOMAIN outbox[d]
    BY <1>ack, <2>1, <2>2, Appended DEF FeedShape
  <2>4. s \in DOMAIN subscriptions[d] /\ subscriptions'[d][s] = subscriptions[d][s]
    BY <1>2, <1>6 DEF Misled, SameSubscriptions
  <2> QED
    BY <1>4, <2>1, <2>3, <2>4
<1>7. CASE Hears(d)
  <2>1. PICK new, ch, answers : /\ Logged(new, ch)
                                /\ Appends(d, Pushes(d, ch), answers)
                                /\ \A k \in DOMAIN answers : Confirms(answers[k], new)
    BY <1>7 DEF Hears
  <2>2. s \in DOMAIN subscriptions[d] /\ subscriptions'[d][s] = subscriptions[d][s]
    BY <1>2, <1>7 DEF Hears, SameSubscriptions
  <2>3. CASE i \in DOMAIN outbox[d]
    BY <1>4, <2>1, <2>2, <2>3
  <2>4. CASE i \notin DOMAIN outbox[d]
    <3>1. s \in Plain(d)
      BY <1>2, <2>2 DEF Plain
    <3> QED
      BY <2>1, <2>2, <2>4, <3>1, OwnPushAppears
  <2> QED
    BY <2>3, <2>4
<1>8. CASE Joins(d)
  <2>1. PICK q, answer :
            /\ subscriptions'[d] = With(subscriptions[d], nextSubscriptionId[d], q)
            /\ Appends(d, <<>>, <<answer>>)
            /\ answer.cmd = "reply" => answer.answers = "subscribe"
    BY <1>8 DEF Joins
  <2>2. i \in DOMAIN outbox[d]
    <3>1. ~Acknowledges(answer)
      BY <2>1 DEF Acknowledges
    <3>2. \A k \in DOMAIN <<answer>> : ~Acknowledges(<<answer>>[k])
      BY <3>1
    <3> QED
      BY <1>ack, <2>1, <3>2, Appended DEF FeedShape
  <2>3. CASE s # nextSubscriptionId[d]
    <3>1. s \in DOMAIN subscriptions[d] /\ subscriptions'[d][s] = subscriptions[d][s]
      BY <1>2, <2>1, <2>3 DEF With
    <3> QED
      BY <1>4, <2>1, <2>2, <3>1
  <2>4. CASE s = nextSubscriptionId[d]
    <3>1. Len(outbox[d]) \in Nat /\ DOMAIN outbox[d] = 1..Len(outbox[d])
      BY <2>1, Appended DEF FeedShape
    <3>2. j \in DOMAIN outbox[d]
      BY <2>2, <3>1
    <3>3. outbox'[d][j] = outbox[d][j]
      BY <2>1, <3>2, Appended DEF FeedShape
    <3>4. j \in Feed(d, nextSubscriptionId[d])
      BY <1>ack, <2>4, <3>2, <3>3 DEF Feed
    <3> QED
      BY <3>4, NewIsUnknown
  <2> QED
    BY <2>3, <2>4
<1> QED
  BY <1>1, <1>5, <1>6, <1>7, <1>8

\* A client that subscribed finds its own change in what it was sent before it
\* is told that its write is done, whatever fails (DatabaseServer.cpp:241-257:
\* the callback runs inside the engine's transaction, the answer after it).
THEOREM OwnPushFirst == ServerSpec => []OwnPushComesFirst
<1>1. ServerInit => OwnPushComesFirst
  BY DEF ServerInit, OwnPushComesFirst, Plain
<1>2. Base /\ AcknowledgedIsCommitted /\ OwnPushComesFirst
          /\ [ServerNext]_<<vars, serverVars>> => OwnPushComesFirst'
  BY OwnPushStep DEF Base
<1> QED
  BY <1>1, <1>2, BaseAlways, AcknowledgedHolds, PTL DEF ServerSpec

=============================================================================
