------------------------ MODULE MessageSocket_proofs ------------------------
(***************************************************************************)
(* Proofs about the framing of messages: for any messages, sizes, pieces   *)
(* in which the bytes arrive, and number of devices.                       *)
(***************************************************************************)
EXTENDS MessageSocket, SequenceTheorems, TLAPS

-----------------------------------------------------------------------------
(* Parts of sequences. *)

LEMMA FirstOf ==
    ASSUME NEW S, NEW s \in Seq(S), NEW n \in 0..Len(s)
    PROVE  /\ First(s, n) \in Seq(S) /\ Len(First(s, n)) = n
           /\ \A k \in 1..n : First(s, n)[k] = s[k]
<1>1. First(s, n) = SubSeq(s, 1, n)
  BY DEF First, Smaller
<1>2. \A k \in 1..n : s[k] \in S
  OBVIOUS
<1>3. n \in Int
  OBVIOUS
<1> QED
  BY <1>1, <1>2, <1>3, SubSeqProperties

LEMMA RestOf ==
    ASSUME NEW S, NEW s \in Seq(S), NEW n \in 0..Len(s)
    PROVE  /\ Rest(s, n) \in Seq(S) /\ Len(Rest(s, n)) = Len(s) - n
           /\ \A k \in 1..Len(s) - n : Rest(s, n)[k] = s[n + k]
<1>1. Rest(s, n) = SubSeq(s, n + 1, Len(s))
  <2>1. Smaller(n, Len(s)) = n
    BY DEF Smaller
  <2> QED
    BY <2>1 DEF Rest
<1>2. \A k \in n + 1..Len(s) : s[k] \in S
  OBVIOUS
<1>3. /\ SubSeq(s, n + 1, Len(s)) \in Seq(S)
      /\ Len(SubSeq(s, n + 1, Len(s))) = IF n + 1 <= Len(s) THEN Len(s) - (n + 1) + 1 ELSE 0
      /\ \A i \in 1..Len(s) - (n + 1) + 1 : SubSeq(s, n + 1, Len(s))[i] = s[(n + 1) + i - 1]
  <2> DEFINE a == n + 1
             b == Len(s)
  <2>1. a \in Int /\ b \in Int /\ \A k \in a..b : s[k] \in S
    BY <1>2
  <2> HIDE DEF a, b
  <2>2. /\ SubSeq(s, a, b) \in Seq(S)
        /\ Len(SubSeq(s, a, b)) = IF a <= b THEN b - a + 1 ELSE 0
        /\ \A i \in 1..b - a + 1 : SubSeq(s, a, b)[i] = s[a + i - 1]
    BY <2>1, SubSeqProperties
  <2> QED
    BY <2>2 DEF a, b
<1>4. \A k : (n + 1) + k - 1 = n + k \/ k \notin Int
  OBVIOUS
<1> QED
  BY <1>1, <1>3, <1>4

\* Bytes that arrive leave the stream as it is.
LEMMA Moved ==
    ASSUME NEW S, NEW s \in Seq(S), NEW t \in Seq(S), NEW n \in 0..Len(t)
    PROVE  (s \o First(t, n)) \o Rest(t, n) = s \o t
<1>1. First(t, n) \in Seq(S) /\ Rest(t, n) \in Seq(S)
  BY FirstOf, RestOf
<1>2. First(t, n) \o Rest(t, n) = t
  <2>1. First(t, n) = SubSeq(t, 1, n) /\ Rest(t, n) = SubSeq(t, n + 1, Len(t))
    <3>1. Smaller(n, Len(t)) = n
      BY DEF Smaller
    <3> QED
      BY <3>1 DEF First, Rest
  <2>2. SubSeq(t, 1, n) \o SubSeq(t, n + 1, Len(t)) = SubSeq(t, 1, Len(t))
    <3> DEFINE a == 1
               b == Len(t)
    <3>1. a \in 1..Len(t) + 1 /\ n \in a - 1..Len(t) /\ b \in n..Len(t)
      OBVIOUS
    <3> HIDE DEF a, b
    <3>2. SubSeq(t, a, n) \o SubSeq(t, n + 1, b) = SubSeq(t, a, b)
      BY <3>1, ConcatAdjacentSubSeq
    <3> QED
      BY <3>2 DEF a, b
  <2> QED
    BY <2>1, <2>2, SubSeqFull
<1> DEFINE f == First(t, n)
           r == Rest(t, n)
<1> HIDE DEF f, r
<1>3. (s \o f) \o r = s \o (f \o r)
  BY <1>1, ConcatAssociative DEF f, r
<1> QED
  BY <1>2, <1>3 DEF f, r

\* What is read is gone from the head of the stream.
LEMMA Consumed ==
    ASSUME NEW S, NEW s \in Seq(S), NEW t \in Seq(S), NEW n \in 0..Len(s)
    PROVE  Rest(s, n) \o t = Rest(s \o t, n)
<1>1. /\ Rest(s, n) \in Seq(S) /\ Len(Rest(s, n)) = Len(s) - n
      /\ \A k \in 1..Len(s) - n : Rest(s, n)[k] = s[n + k]
  BY RestOf
<1>2. /\ s \o t \in Seq(S) /\ Len(s \o t) = Len(s) + Len(t)
      /\ \A i \in 1..Len(s) + Len(t) :
             (s \o t)[i] = IF i <= Len(s) THEN s[i] ELSE t[i - Len(s)]
  BY ConcatProperties
<1> DEFINE st == s \o t
           a == Rest(s, n) \o t
           b == Rest(st, n)
<1>3. /\ a \in Seq(S) /\ Len(a) = Len(s) - n + Len(t)
      /\ \A i \in 1..Len(s) - n + Len(t) :
             a[i] = IF i <= Len(s) - n THEN Rest(s, n)[i] ELSE t[i - (Len(s) - n)]
  <2> DEFINE r == Rest(s, n)
  <2>1. r \in Seq(S) /\ Len(r) = Len(s) - n
    BY <1>1
  <2> HIDE DEF r
  <2>2. /\ r \o t \in Seq(S)
        /\ Len(r \o t) = Len(r) + Len(t)
        /\ \A i \in 1..Len(r) + Len(t) :
               (r \o t)[i] = IF i <= Len(r) THEN r[i] ELSE t[i - Len(r)]
    BY <2>1, ConcatProperties
  <2> QED
    BY <2>1, <2>2 DEF r
<1>4. /\ b \in Seq(S) /\ Len(b) = Len(st) - n
      /\ \A k \in 1..Len(st) - n : b[k] = st[n + k]
  <2>1. n \in 0..Len(st) /\ st \in Seq(S)
    BY <1>2
  <2> HIDE DEF st
  <2> QED
    BY <2>1, RestOf
<1> HIDE DEF st, a, b
<1>5. \A i \in 1..Len(a) : a[i] = b[i]
  <2> SUFFICES ASSUME NEW i \in 1..Len(a) PROVE a[i] = b[i]
    OBVIOUS
  <2>1. Len(a) = Len(s) - n + Len(t) /\ Len(s) \in Nat /\ Len(t) \in Nat /\ n \in Nat
    BY <1>3
  <2>2. b[i] = st[n + i]
    BY <1>2, <1>4, <2>1 DEF st
  <2>3. st[n + i] = IF n + i <= Len(s) THEN s[n + i] ELSE t[n + i - Len(s)]
    BY <1>2, <2>1 DEF st
  <2>4. CASE i <= Len(s) - n
    BY <1>1, <1>3, <2>1, <2>2, <2>3, <2>4
  <2>5. CASE ~(i <= Len(s) - n)
    <3>1. i - (Len(s) - n) = n + i - Len(s)
      BY <2>1
    <3> QED
      BY <1>3, <2>1, <2>2, <2>3, <2>5, <3>1
  <2> QED
    BY <2>4, <2>5
<1>6. Len(a) = Len(b)
  BY <1>2, <1>3, <1>4 DEF st
<1> QED
  BY <1>3, <1>4, <1>5, <1>6, SeqEqual DEF a, b, st

-----------------------------------------------------------------------------
(* Frames. *)

Byte == Message \X (Nat \ {0})
Bytes(m) == HeaderSize + Size(m)

LEMMA FrameOf ==
    ASSUME NEW m \in Message
    PROVE  /\ Frame(m) \in Seq(Byte) /\ Len(Frame(m)) = Bytes(m)
           /\ Bytes(m) \in Nat /\ Bytes(m) > HeaderSize
           /\ \A i \in 1..Bytes(m) : Frame(m)[i] = <<m, i>>
<1>1. Bytes(m) \in Nat /\ Bytes(m) > HeaderSize
  BY HeaderAssumption, SizeAssumption DEF Bytes
<1>2. Frame(m) = [i \in 1..Bytes(m) |-> <<m, i>>]
  BY DEF Frame, Bytes
<1>3. \A i \in 1..Bytes(m) : <<m, i>> \in Byte
  BY <1>1 DEF Byte
<1> QED
  BY <1>1, <1>2, <1>3

LEMMA HeaderOf ==
    ASSUME NEW m \in Message
    PROVE  /\ Header(m) \in Seq(Byte) /\ Len(Header(m)) = HeaderSize
           /\ \A i \in 1..HeaderSize : Header(m)[i] = <<m, i>>
<1>1. /\ Frame(m) \in Seq(Byte) /\ Len(Frame(m)) = Bytes(m)
      /\ Bytes(m) \in Nat /\ Bytes(m) > HeaderSize
      /\ \A i \in 1..Bytes(m) : Frame(m)[i] = <<m, i>>
  BY FrameOf
<1>2. \A i \in 1..HeaderSize : Frame(m)[i] \in Byte /\ Frame(m)[i] = <<m, i>>
  BY <1>1, HeaderAssumption
<1>3. HeaderSize \in Int /\ HeaderSize >= 1
  BY HeaderAssumption
<1>4. /\ SubSeq(Frame(m), 1, HeaderSize) \in Seq(Byte)
      /\ Len(SubSeq(Frame(m), 1, HeaderSize)) =
             IF 1 <= HeaderSize THEN HeaderSize - 1 + 1 ELSE 0
      /\ \A i \in 1..HeaderSize - 1 + 1 :
             SubSeq(Frame(m), 1, HeaderSize)[i] = Frame(m)[1 + i - 1]
  <2>1. \A i \in 1..HeaderSize : Frame(m)[i] \in Byte
    BY <1>2
  <2> QED
    BY <1>3, <2>1, SubSeqProperties
<1> QED
  BY <1>2, <1>3, <1>4 DEF Header

LEMMA PayloadOf ==
    ASSUME NEW m \in Message
    PROVE  /\ Payload(m) \in Seq(Byte) /\ Len(Payload(m)) = Size(m)
           /\ \A i \in 1..Size(m) : Payload(m)[i] = <<m, HeaderSize + i>>
<1>1. /\ Frame(m) \in Seq(Byte) /\ Len(Frame(m)) = Bytes(m)
      /\ Bytes(m) \in Nat /\ Bytes(m) > HeaderSize
      /\ \A i \in 1..Bytes(m) : Frame(m)[i] = <<m, i>>
  BY FrameOf
<1>2. Size(m) \in Nat /\ HeaderSize \in Nat /\ Size(m) >= 1
  BY HeaderAssumption, SizeAssumption
<1> DEFINE a == HeaderSize + 1
           b == HeaderSize + Size(m)
<1>3. /\ SubSeq(Frame(m), a, b) \in Seq(Byte)
      /\ Len(SubSeq(Frame(m), a, b)) = IF a <= b THEN b - a + 1 ELSE 0
      /\ \A i \in 1..b - a + 1 : SubSeq(Frame(m), a, b)[i] = Frame(m)[a + i - 1]
  <2>1. \A i \in a..b : Frame(m)[i] \in Byte
    BY <1>1, <1>2 DEF Bytes
  <2>2. a \in Int /\ b \in Int
    BY <1>2
  <2> HIDE DEF a, b
  <2> QED
    BY <2>1, <2>2, SubSeqProperties
<1>4. b - a + 1 = Size(m) /\ a <= b
  BY <1>2
<1>5. \A i \in 1..Size(m) : a + i - 1 = HeaderSize + i /\ HeaderSize + i \in 1..Bytes(m)
  BY <1>2 DEF Bytes
<1>6. Payload(m) = SubSeq(Frame(m), a, b)
  BY DEF Payload
<1> HIDE DEF a, b
<1> QED
  BY <1>1, <1>3, <1>4, <1>5, <1>6

\* A header, and a message, tell whose they are.
LEMMA PayloadIsUnique ==
    ASSUME NEW m \in Message, NEW n \in Message, Payload(m) = Payload(n)
    PROVE  m = n
<1>1. 1 \in 1..Size(m) /\ 1 \in 1..Size(n)
  BY SizeAssumption
<1>2. Payload(m)[1] = <<m, HeaderSize + 1>> /\ Payload(n)[1] = <<n, HeaderSize + 1>>
  BY <1>1, PayloadOf
<1> QED
  BY <1>2

LEMMA HeaderIsUnique ==
    ASSUME NEW m \in Message
    PROVE  SizesRead(Header(m)) = {Size(m)}
<1>1. \A n \in Message : Header(n) = Header(m) => n = m
  <2> SUFFICES ASSUME NEW n \in Message, Header(n) = Header(m) PROVE n = m
    OBVIOUS
  <2>1. 1 \in 1..HeaderSize
    BY HeaderAssumption
  <2>2. Header(m)[1] = <<m, 1>> /\ Header(n)[1] = <<n, 1>>
    BY <2>1, HeaderOf
  <2> QED
    BY <2>2
<1>2. {n \in Message : Header(n) = Header(m)} = {m}
  BY <1>1
<1> QED
  BY <1>2 DEF SizesRead

\* Place k of t is byte i of message m, and the rest of the frame follows up to
\* place e, and behind it the frame of the next message, if m is not the last.
FrameAt(t, last, k, m, i, e) ==
    /\ m \in Message /\ m <= last /\ i \in 1..Bytes(m)
    /\ e <= Len(t)
    /\ \A l \in k..e : t[l] = <<m, i + (l - k)>>
    /\ e < Len(t) => t[e + 1] = <<m + 1, 1>>
    /\ e = Len(t) => m = last

\* Sequence t is made of whole frames, the first of which may lack its head,
\* and ends with that of message last.
Framed(t, last) ==
    \A k \in 1..Len(t) : \A m, i :
        t[k] = <<m, i>> => FrameAt(t, last, k, m, i, k + (Bytes(m) - i))

LEMMA FramedEmpty ==
    ASSUME NEW n
    PROVE  Framed(<<>>, n)
BY DEF Framed

\* A frame more.
LEMMA FramedAppend ==
    ASSUME NEW t \in Seq(Byte), NEW n \in Nat, Framed(t, n), n + 1 \in Message
    PROVE  Framed(t \o Frame(n + 1), n + 1)
<1> DEFINE f == Frame(n + 1)
           z == t \o f
<1>1. /\ f \in Seq(Byte) /\ Len(f) = Bytes(n + 1)
      /\ Bytes(n + 1) \in Nat /\ Bytes(n + 1) > 0
      /\ \A i \in 1..Bytes(n + 1) : f[i] = <<n + 1, i>>
  BY FrameOf, HeaderAssumption
<1> HIDE DEF f
<1>2. /\ Len(z) = Len(t) + Len(f)
      /\ \A i \in 1..Len(t) + Len(f) :
             z[i] = IF i <= Len(t) THEN t[i] ELSE f[i - Len(t)]
  BY <1>1, ConcatProperties
<1>3. Len(t) \in Nat
  OBVIOUS
<1> HIDE DEF z
<1>4. \A i \in 1..Len(t) : z[i] = t[i]
  BY <1>1, <1>2, <1>3
<1>5. \A i \in 1..Bytes(n + 1) : z[Len(t) + i] = <<n + 1, i>>
  BY <1>1, <1>2, <1>3
<1>6. SUFFICES ASSUME NEW k \in 1..Len(z), NEW m, NEW i, NEW e,
                      z[k] = <<m, i>>, e = k + (Bytes(m) - i)
               PROVE  FrameAt(z, n + 1, k, m, i, e)
  <2>1. Framed(z, n + 1)
    BY DEF Framed
  <2> QED
    BY <2>1 DEF z, f
<1>7. CASE k \in 1..Len(t)
  <2>1. t[k] = <<m, i>>
    BY <1>4, <1>6, <1>7
  <2>2. /\ m \in Message /\ m <= n /\ i \in 1..Bytes(m)
        /\ e <= Len(t)
        /\ \A l \in k..e : t[l] = <<m, i + (l - k)>>
        /\ e < Len(t) => t[e + 1] = <<m + 1, 1>>
        /\ e = Len(t) => m = n
    <3>1. FrameAt(t, n, k, m, i, e)
      BY <1>6, <1>7, <2>1 DEF Framed
    <3> QED
      BY <3>1 DEF FrameAt
  <2>3. m \in Nat /\ Bytes(m) \in Nat
    BY <2>2, FrameOf, MessageAssumption
  <2>4. e \in Int /\ e >= k
    BY <1>6, <1>7, <2>2, <2>3
  <2>5. e < Len(z)
    BY <1>1, <1>2, <1>3, <2>2, <2>4
  <2>6. ASSUME NEW l \in k..e PROVE z[l] = <<m, i + (l - k)>>
    <3>1. l \in 1..Len(t)
      BY <1>3, <1>7, <2>2, <2>4
    <3>2. z[l] = t[l] /\ t[l] = <<m, i + (l - k)>>
      BY <1>4, <2>2, <3>1
    <3> QED
      BY <3>2
  <2>7. z[e + 1] = <<m + 1, 1>>
    <3>1. CASE e < Len(t)
      BY <1>3, <1>4, <1>7, <2>2, <2>4, <3>1
    <3>2. CASE e = Len(t)
      BY <1>1, <1>5, <2>2, <3>2
    <3> QED
      BY <1>3, <2>2, <2>4, <3>1, <3>2
  <2> QED
    <3>1. m <= n + 1 /\ e <= Len(z) /\ e # Len(z)
      BY <1>1, <1>2, <1>3, <2>2, <2>3, <2>4, <2>5
    <3> QED
      BY <2>2, <2>6, <2>7, <3>1 DEF FrameAt
<1>8. CASE k \notin 1..Len(t)
  <2>1. k - Len(t) \in 1..Bytes(n + 1) /\ k = Len(t) + (k - Len(t))
    BY <1>1, <1>2, <1>3, <1>8
  <2>2. m = n + 1 /\ i = k - Len(t)
    <3>1. z[Len(t) + (k - Len(t))] = <<n + 1, k - Len(t)>>
      BY <1>5, <2>1
    <3> QED
      BY <1>6, <2>1, <3>1
  <2>3. e = Len(z)
    BY <1>1, <1>2, <1>3, <1>6, <2>1, <2>2
  <2>4. ASSUME NEW l \in k..e PROVE z[l] = <<m, i + (l - k)>>
    <3>1. l - Len(t) \in 1..Bytes(n + 1) /\ l = Len(t) + (l - Len(t))
      BY <1>1, <1>2, <1>3, <2>1, <2>3
    <3>2. z[Len(t) + (l - Len(t))] = <<n + 1, l - Len(t)>>
      BY <1>5, <3>1
    <3>3. i + (l - k) = l - Len(t)
      BY <1>3, <2>1, <2>2
    <3> QED
      BY <2>2, <3>1, <3>2, <3>3
  <2>5. /\ n + 1 <= n + 1 /\ i \in 1..Bytes(m) /\ e <= Len(z) /\ ~(e < Len(z))
    BY <1>1, <1>2, <1>3, <2>1, <2>2, <2>3
  <2> QED
    BY <2>2, <2>4, <2>5 DEF FrameAt
<1> QED
  BY <1>7, <1>8

\* Some bytes less at the head.
LEMMA FramedRest ==
    ASSUME NEW t \in Seq(Byte), NEW last, Framed(t, last), NEW n \in 0..Len(t)
    PROVE  Framed(Rest(t, n), last)
<1> DEFINE z == Rest(t, n)
<1>1. Len(z) = Len(t) - n /\ \A k \in 1..Len(t) - n : z[k] = t[n + k]
  BY RestOf
<1>2. Len(t) \in Nat /\ n \in Nat /\ n <= Len(t)
  OBVIOUS
<1> HIDE DEF z
<1>3. SUFFICES ASSUME NEW k \in 1..Len(z), NEW m, NEW i, NEW e,
                      z[k] = <<m, i>>, e = k + (Bytes(m) - i)
               PROVE  FrameAt(z, last, k, m, i, e)
  <2>1. Framed(z, last)
    BY DEF Framed
  <2> QED
    BY <2>1 DEF z
<1>4. n + k \in 1..Len(t) /\ t[n + k] = <<m, i>>
  BY <1>1, <1>2, <1>3
<1> DEFINE o == n + k
           d == o + (Bytes(m) - i)
<1>5. /\ m \in Message /\ m <= last /\ i \in 1..Bytes(m)
      /\ d <= Len(t)
      /\ \A l \in o..d : t[l] = <<m, i + (l - o)>>
      /\ d < Len(t) => t[d + 1] = <<m + 1, 1>>
      /\ d = Len(t) => m = last
  <2>1. o \in 1..Len(t) /\ t[o] = <<m, i>>
    BY <1>4
  <2> HIDE DEF o
  <2>2. FrameAt(t, last, o, m, i, d)
    BY <2>1 DEF Framed
  <2> HIDE DEF d
  <2> QED
    BY <2>2 DEF FrameAt
<1>6. Bytes(m) \in Nat /\ i \in Nat
  BY <1>5, FrameOf
<1>7. d = n + e /\ e \in Int /\ e >= k
  BY <1>2, <1>3, <1>5, <1>6
<1>8. ASSUME NEW l \in k..e PROVE z[l] = <<m, i + (l - k)>>
  <2>1. n + l \in o..d /\ (n + l) - o = l - k
    BY <1>2, <1>3, <1>7
  <2>2. t[n + l] = <<m, i + ((n + l) - o)>>
    BY <1>5, <2>1
  <2>3. l \in 1..Len(t) - n
    BY <1>1, <1>2, <1>3, <1>5, <1>7
  <2> QED
    BY <1>1, <2>1, <2>2, <2>3
<1>9. e < Len(z) => z[e + 1] = <<m + 1, 1>>
  <2> SUFFICES ASSUME e < Len(z) PROVE z[e + 1] = <<m + 1, 1>>
    OBVIOUS
  <2>1. e + 1 \in 1..Len(t) - n /\ n + (e + 1) = d + 1 /\ d < Len(t)
    BY <1>1, <1>2, <1>3, <1>7
  <2>2. z[e + 1] = t[n + (e + 1)]
    BY <1>1, <2>1
  <2> QED
    BY <1>5, <2>1, <2>2
<1>10. e <= Len(z) /\ (e = Len(z) => d = Len(t))
  BY <1>1, <1>2, <1>5, <1>7
<1> QED
  BY <1>5, <1>8, <1>9, <1>10 DEF FrameAt

-----------------------------------------------------------------------------
(* The receiver. *)

\* The bytes that are still to be read.
Stream == device \o wire

\* What was delivered was sent before message m.
Behind(m) == \A i \in DOMAIN delivered :
                 \E n \in Message : n < m /\ delivered[i] = Payload(n)

SocketTypes ==
    /\ sent \in Nat
    /\ wire \in Seq(Byte) /\ device \in Seq(Byte)
    /\ buffer \in Seq(Byte) /\ delivered \in Seq(Seq(Byte))
    /\ running \in BOOLEAN /\ emitting \in BOOLEAN

DeliveredInOrder ==
    /\ \A i \in DOMAIN delivered : \E m \in Message : IsPayload(delivered[i], m)
    /\ \A i, j \in DOMAIN delivered, m, n \in Message :
           /\ i < j
           /\ IsPayload(delivered[i], m) /\ IsPayload(delivered[j], n)
           => m < n

\* The next byte is the first of a message behind all that were delivered.
Between ==
    /\ currentMessageSize = -1 /\ buffer = <<>>
    /\ \A m, i : Stream # <<>> /\ Stream[1] = <<m, i>> => i = 1 /\ Behind(m)

\* The buffer holds the first bytes of message m, and the next byte goes on.
Inside(m) ==
    /\ m <= sent /\ Behind(m)
    /\ currentMessageSize = Size(m) /\ Len(buffer) < Size(m)
    /\ \A k \in 1..Len(buffer) : buffer[k] = <<m, HeaderSize + k>>
    /\ Stream # <<>> /\ Stream[1] = <<m, HeaderSize + Len(buffer) + 1>>

\* A slot of message() waits: nothing is read from this device any more.
Stuck == currentMessageSize # -1 /\ emitting /\ ~running

\* WholeAndInOrder says nothing of what is under way.  That the bytes there are
\* lie in whole frames, and that buffer and stream fit together, is what makes
\* the next message a whole one.
SocketInv ==
    ~cut => /\ SocketTypes /\ DeliveredInOrder
            /\ Framed(Stream, sent)
            /\ \/ Stuck
               \/ /\ running = emitting
                  /\ Between \/ \E m \in Message : Inside(m)

LEMMA SocketInit == Init => SocketInv
<1> SUFFICES ASSUME Init PROVE SocketInv
  OBVIOUS
<1>1. SocketTypes /\ DeliveredInOrder
  <2>1. /\ sent = 0 /\ wire = <<>> /\ device = <<>> /\ buffer = <<>>
        /\ delivered = <<>> /\ running = FALSE /\ emitting = FALSE
    BY DEF Init
  <2>2. <<>> \in Seq(Byte) /\ <<>> \in Seq(Seq(Byte)) /\ DOMAIN <<>> = {}
    OBVIOUS
  <2>3. SocketTypes
    BY <2>1, <2>2 DEF SocketTypes
  <2>4. DeliveredInOrder
    BY <2>1, <2>2 DEF DeliveredInOrder
  <2> QED
    BY <2>3, <2>4
<1>2. Stream = <<>>
  BY DEF Init, Stream
<1>3. Framed(Stream, sent)
  BY <1>2, FramedEmpty
<1>4. Between /\ running = emitting
  BY <1>2 DEF Init, Between
<1> QED
  BY <1>1, <1>3, <1>4 DEF SocketInv

\* The stream, in terms of its parts.
LEMMA StreamIs ==
    ASSUME SocketTypes
    PROVE  /\ Stream \in Seq(Byte) /\ Len(Stream) = Len(device) + Len(wire)
           /\ \A k \in 1..Len(device) : Stream[k] = device[k]
<1>1. device \in Seq(Byte) /\ wire \in Seq(Byte)
  BY DEF SocketTypes
<1>2. /\ device \o wire \in Seq(Byte)
      /\ Len(device \o wire) = Len(device) + Len(wire)
      /\ \A i \in 1..Len(device) + Len(wire) :
             (device \o wire)[i] = IF i <= Len(device) THEN device[i]
                                   ELSE wire[i - Len(device)]
  BY <1>1, ConcatProperties
<1>3. Len(device) \in Nat /\ Len(wire) \in Nat
  BY <1>1
<1> QED
  BY <1>2, <1>3 DEF Stream

LEMMA SendStep ==
    ASSUME SocketInv, NEW m0 \in Message, Send(m0)
    PROVE  SocketInv'
<1> SUFFICES ASSUME ~cut
             PROVE  /\ SocketTypes' /\ DeliveredInOrder'
                    /\ Framed(Stream, sent)'
                    /\ \/ Stuck'
                       \/ /\ running' = emitting'
                          /\ Between' \/ \E m \in Message : Inside(m)'
  BY DEF SocketInv, Send, history, loopVars, socketVars
<1>1. /\ SocketTypes /\ DeliveredInOrder /\ Framed(Stream, sent)
      /\ \/ Stuck
         \/ running = emitting /\ (Between \/ \E m \in Message : Inside(m))
  BY DEF SocketInv
<1>2. /\ m0 = sent + 1 /\ sent' = sent + 1 /\ sent \in Nat /\ sent + 1 \in Message
      /\ wire' = wire \o Frame(sent + 1)
      /\ UNCHANGED <<device, currentMessageSize, buffer, running, emitting, delivered>>
  BY <1>1 DEF Send, SocketTypes, socketVars, loopVars, history
<1> DEFINE f == Frame(sent + 1)
<1>3. /\ f \in Seq(Byte) /\ Len(f) > 0 /\ Len(f) \in Nat /\ f[1] = <<sent + 1, 1>>
  <2>1. Bytes(sent + 1) > 0
    BY <1>2, FrameOf, HeaderAssumption
  <2> QED
    BY <1>2, <2>1, FrameOf
<1>4. Stream' = Stream \o f
  <2>1. wire \in Seq(Byte) /\ device \in Seq(Byte)
    BY <1>1 DEF SocketTypes
  <2> HIDE DEF f
  <2>2. device \o (wire \o f) = (device \o wire) \o f
    BY <1>3, <2>1, ConcatAssociative
  <2> QED
    BY <1>2, <2>2 DEF Stream, f
<1>5. Framed(Stream, sent)'
  BY <1>1, <1>2, <1>4, FramedAppend, StreamIs
<1>6. SocketTypes'
  <2>1. wire \in Seq(Byte)
    BY <1>1 DEF SocketTypes
  <2> HIDE DEF f
  <2>2. wire \o f \in Seq(Byte)
    BY <1>3, <2>1
  <2> QED
    BY <1>1, <1>2, <2>2 DEF SocketTypes, f
<1>7. \A bytes : \A m \in Message : IsPayload(bytes, m) => IsPayload(bytes, m)'
  <2>1. \A m \in Message : m \in Nat
    BY MessageAssumption
  <2> QED
    BY <1>2, <2>1 DEF IsPayload
<1>8. \A i \in DOMAIN delivered : \A m \in Message :
          IsPayload(delivered[i], m)' => IsPayload(delivered[i], m)
  <2> SUFFICES ASSUME NEW i \in DOMAIN delivered, NEW m \in Message,
                      delivered[i] = Payload(m)
               PROVE  IsPayload(delivered[i], m)
    BY <1>2 DEF IsPayload
  <2>1. PICK n \in Message : n <= sent /\ delivered[i] = Payload(n)
    BY <1>1 DEF DeliveredInOrder, IsPayload
  <2>2. n = m
    BY <2>1, PayloadIsUnique
  <2> QED
    BY <2>1, <2>2 DEF IsPayload
<1>9. DeliveredInOrder'
  BY <1>1, <1>2, <1>7, <1>8 DEF DeliveredInOrder, IsPayload
<1>10. Stream \in Seq(Byte) /\ Len(Stream) \in Nat
  BY <1>1, StreamIs
<1>11. /\ Stream # <<>> => Stream' # <<>> /\ Stream'[1] = Stream[1]
       /\ Stream = <<>> => Stream'[1] = <<sent + 1, 1>>
  <2> DEFINE t == Stream
             z == t \o f
  <2>1. t \in Seq(Byte) /\ Len(t) \in Nat
    BY <1>10
  <2> HIDE DEF f, t
  <2>2. /\ Len(z) = Len(t) + Len(f)
        /\ \A i \in 1..Len(t) + Len(f) :
               z[i] = IF i <= Len(t) THEN t[i] ELSE f[i - Len(t)]
    BY <1>3, <2>1, ConcatProperties
  <2>3. CASE t = <<>>
    <3>1. Len(t) = 0 /\ 1 \in 1..Len(t) + Len(f) /\ ~(1 <= Len(t)) /\ 1 - Len(t) = 1
      BY <1>3, <2>3
    <3>2. z[1] = f[1]
      BY <2>2, <3>1
    <3> QED
      BY <1>3, <1>4, <2>3, <3>2 DEF t
  <2>4. CASE t # <<>>
    <3>1. Len(t) >= 1
      BY <2>1, <2>4
    <3>2. 1 \in 1..Len(t) + Len(f) /\ Len(z) # 0
      BY <1>3, <2>1, <2>2, <3>1
    <3>3. z[1] = t[1] /\ z # <<>>
      BY <2>2, <3>1, <3>2
    <3> QED
      BY <1>4, <2>4, <3>3 DEF t
  <2> QED
    BY <2>3, <2>4 DEF t
<1>12. \A m : Behind(m) => Behind(m)'
  BY <1>2 DEF Behind
<1>13. CASE Stuck
  BY <1>2, <1>5, <1>6, <1>9, <1>13 DEF Stuck
<1>14. CASE running = emitting /\ Between
  <2>1. Stream = <<>> => Behind(sent + 1)
    <3>1. \A m \in Message : m \in Nat /\ (m <= sent => m < sent + 1)
      BY <1>2, MessageAssumption
    <3> QED
      BY <1>1, <3>1 DEF DeliveredInOrder, Behind, IsPayload
  <2>2. Between'
    <3> SUFFICES ASSUME NEW m, NEW i, Stream' # <<>>, Stream'[1] = <<m, i>>
                 PROVE  i = 1 /\ Behind(m)'
      BY <1>2, <1>14 DEF Between
    <3>1. CASE Stream = <<>>
      <4>1. m = sent + 1 /\ i = 1
        BY <1>11, <3>1
      <4> QED
        BY <1>12, <2>1, <3>1, <4>1
    <3>2. CASE Stream # <<>>
      BY <1>11, <1>12, <1>14, <3>2 DEF Between
    <3> QED
      BY <3>1, <3>2
  <2> QED
    BY <1>2, <1>5, <1>6, <1>9, <1>14, <2>2
<1>15. ASSUME running = emitting, NEW m \in Message, Inside(m)
       PROVE  Inside(m)' /\ running' = emitting'
  <2>1. m <= sent'
    BY <1>2, <1>15, MessageAssumption DEF Inside
  <2> QED
    BY <1>2, <1>11, <1>12, <1>15, <2>1 DEF Inside
<1> QED
  BY <1>1, <1>5, <1>6, <1>9, <1>13, <1>14, <1>15

LEMMA ArriveStep ==
    ASSUME SocketInv, NEW n \in 1..Len(wire), Arrive(n)
    PROVE  SocketInv'
<1> SUFFICES ASSUME ~cut PROVE SocketInv'
  BY DEF SocketInv, Arrive, history
<1>1. /\ SocketTypes /\ DeliveredInOrder /\ Framed(Stream, sent)
      /\ \/ Stuck
         \/ running = emitting /\ (Between \/ \E m \in Message : Inside(m))
  BY DEF SocketInv
<1>2. /\ ~running /\ running' = ~emitting /\ emitting' = TRUE
      /\ device' = device \o First(wire, n) /\ wire' = Rest(wire, n)
      /\ UNCHANGED <<sent, currentMessageSize, buffer, delivered>>
  BY DEF Arrive, socketVars, history
<1>3. /\ wire \in Seq(Byte) /\ device \in Seq(Byte) /\ n \in 0..Len(wire)
      /\ emitting \in BOOLEAN
  BY <1>1 DEF SocketTypes
<1>4. First(wire, n) \in Seq(Byte) /\ Rest(wire, n) \in Seq(Byte)
  BY <1>3, FirstOf, RestOf
<1>5. SocketTypes'
  BY <1>1, <1>2, <1>3, <1>4 DEF SocketTypes
<1>6. Stream' = Stream
  BY <1>2, <1>3, Moved DEF Stream
<1>7. DeliveredInOrder' /\ Framed(Stream, sent)'
  BY <1>1, <1>2, <1>6 DEF DeliveredInOrder, IsPayload
<1>8. Stuck => Stuck'
  BY <1>2 DEF Stuck
<1>9. /\ Between => Between'
      /\ \A m \in Message : Inside(m) => Inside(m)'
  BY <1>2, <1>6 DEF Between, Inside, Behind
<1>10. running = emitting => running' = emitting'
  <2> SUFFICES ASSUME running = emitting PROVE running' = emitting'
    OBVIOUS
  <2>1. emitting = FALSE
    BY <1>2, <1>3
  <2>2. running' = TRUE
    BY <1>2, <2>1
  <2> QED
    BY <1>2, <2>2
<1> QED
  BY <1>1, <1>5, <1>7, <1>8, <1>9, <1>10 DEF SocketInv

\* A message that is read to its end is delivered whole, and as the last.
LEMMA Delivered ==
    ASSUME SocketTypes, DeliveredInOrder, NEW m \in Message, m <= sent, Behind(m),
           delivered' = Append(delivered, Payload(m)), sent' = sent
    PROVE  /\ delivered' \in Seq(Seq(Byte))
           /\ DeliveredInOrder'
           /\ Behind(m + 1)'
<1> DEFINE L == Len(delivered)
<1>1. delivered \in Seq(Seq(Byte)) /\ L \in Nat /\ DOMAIN delivered = 1..L
  BY DEF SocketTypes
<1>2. Payload(m) \in Seq(Byte)
  BY PayloadOf
<1>3. /\ delivered' \in Seq(Seq(Byte)) /\ DOMAIN delivered' = 1..L + 1
      /\ \A i \in 1..L : delivered'[i] = delivered[i]
      /\ delivered'[L + 1] = Payload(m)
  BY <1>1, <1>2
<1> HIDE DEF L
<1>4. \A n \in Message : n \in Nat
  BY MessageAssumption
<1>5. \A i \in 1..L : \E n \in Message : n < m /\ delivered'[i] = Payload(n)
  BY <1>1, <1>3 DEF Behind
<1>6. Behind(m + 1)'
  <2>1. \A n \in Message : n < m => n < m + 1
    BY <1>4
  <2>2. m < m + 1
    BY <1>4
  <2>3. ASSUME NEW i \in 1..L + 1
        PROVE  \E n \in Message : n < m + 1 /\ delivered'[i] = Payload(n)
    <3>1. CASE i \in 1..L
      BY <1>5, <2>1, <3>1
    <3>2. CASE i = L + 1
      BY <1>3, <2>2, <3>2
    <3> QED
      BY <1>1, <3>1, <3>2
  <2> QED
    BY <1>3, <2>3 DEF Behind
<1>7. ASSUME NEW i \in 1..L + 1
      PROVE  \E n \in Message : n <= sent /\ delivered'[i] = Payload(n)
  <2>1. CASE i \in 1..L
    BY <1>1, <1>3, <2>1 DEF DeliveredInOrder, IsPayload
  <2>2. CASE i = L + 1
    BY <1>3, <2>2
  <2> QED
    BY <1>1, <2>1, <2>2
<1>8. ASSUME NEW i \in 1..L + 1, NEW j \in 1..L + 1, NEW a \in Message, NEW b \in Message,
             i < j, a <= sent, delivered'[i] = Payload(a),
             b <= sent, delivered'[j] = Payload(b)
      PROVE  a < b
  <2>1. i \in 1..L
    BY <1>1, <1>8
  <2>2. CASE j \in 1..L
    <3>1. IsPayload(delivered[i], a) /\ IsPayload(delivered[j], b)
      BY <1>3, <1>8, <2>1, <2>2 DEF IsPayload
    <3> QED
      BY <1>1, <1>8, <2>1, <2>2, <3>1 DEF DeliveredInOrder
  <2>3. CASE j = L + 1
    <3>1. b = m
      BY <1>3, <1>8, <2>3, PayloadIsUnique
    <3>2. PICK n \in Message : n < m /\ delivered'[i] = Payload(n)
      BY <1>5, <2>1
    <3>3. n = a
      BY <1>8, <3>2, PayloadIsUnique
    <3> QED
      BY <3>1, <3>2, <3>3
  <2> QED
    BY <1>1, <2>2, <2>3
<1>9. DeliveredInOrder'
  BY <1>3, <1>7, <1>8 DEF DeliveredInOrder, IsPayload
<1> QED
  BY <1>3, <1>6, <1>9

\* Bytes that go on with message m are taken into the buffer.
LEMMA TakeStep ==
    ASSUME SocketTypes, DeliveredInOrder, running = TRUE, emitting = TRUE,
           NEW available \in Seq(Byte), NEW m \in Message, m <= sent, Behind(m),
           Framed(available \o wire, sent), available \o wire # <<>>,
           (available \o wire)[1] = <<m, HeaderSize + Len(buffer) + 1>>,
           Len(buffer) < Size(m),
           \A k \in 1..Len(buffer) : buffer[k] = <<m, HeaderSize + k>>,
           Take(Size(m), available), UNCHANGED <<sent, wire, cut>>
    PROVE  SocketInv'
<1> DEFINE R == available \o wire
           b == Len(buffer)
           size == Size(m)
           n == Smaller(size - b, Len(available))
           bytes == buffer \o First(available, n)
<1>1. /\ buffer \in Seq(Byte) /\ wire \in Seq(Byte) /\ b \in Nat
      /\ size \in Nat \ {0} /\ HeaderSize \in Nat \ {0} /\ Len(available) \in Nat
      /\ m \in Nat
  BY SizeAssumption, HeaderAssumption, MessageAssumption DEF SocketTypes
<1>2. /\ n \in 0..Len(available) /\ n <= size - b
      /\ n = size - b \/ n = Len(available)
  BY <1>1 DEF Smaller
<1>3. First(available, n) \in Seq(Byte) /\ Len(First(available, n)) = n
      /\ \A k \in 1..n : First(available, n)[k] = available[k]
  <2> HIDE DEF n
  <2> QED
    BY <1>2, FirstOf
<1>4. /\ R \in Seq(Byte) /\ Len(R) = Len(available) + Len(wire) /\ Len(wire) \in Nat
      /\ \A i \in 1..Len(available) : R[i] = available[i]
  <2>1. /\ available \o wire \in Seq(Byte)
        /\ Len(available \o wire) = Len(available) + Len(wire)
        /\ \A i \in 1..Len(available) + Len(wire) :
               (available \o wire)[i] = IF i <= Len(available) THEN available[i]
                                        ELSE wire[i - Len(available)]
    BY <1>1, ConcatProperties
  <2> QED
    BY <1>1, <2>1
\* How the stream goes on: with the rest of m, and then with the next message.
<1>5. /\ Len(R) >= 1 /\ size - b <= Len(R)
      /\ \A l \in 1..size - b : R[l] = <<m, HeaderSize + b + l>>
      /\ size - b < Len(R) => R[size - b + 1] = <<m + 1, 1>>
  <2> HIDE DEF R
  <2>1. 1 \in 1..Len(R)
    <3>1. Len(R) # 0
      BY <1>4 DEF R
    <3> QED
      BY <1>1, <1>4, <3>1
  <2>2. FrameAt(R, sent, 1, m, HeaderSize + b + 1, 1 + (Bytes(m) - (HeaderSize + b + 1)))
    <3>1. R[1] = <<m, HeaderSize + b + 1>> /\ Framed(R, sent)
      BY DEF R
    <3> HIDE DEF b
    <3> QED
      BY <2>1, <3>1 DEF Framed
  <2>3. 1 + (Bytes(m) - (HeaderSize + b + 1)) = size - b
    BY <1>1 DEF Bytes
  <2>4. FrameAt(R, sent, 1, m, HeaderSize + b + 1, size - b)
    BY <2>2, <2>3
  <2>5. \A l \in 1..size - b : HeaderSize + b + 1 + (l - 1) = HeaderSize + b + l
    BY <1>1
  <2> HIDE DEF b, size
  <2> QED
    BY <2>1, <2>4, <2>5 DEF FrameAt
<1>6. /\ bytes \in Seq(Byte) /\ Len(bytes) = b + n
      /\ \A k \in 1..b + n : bytes[k] = <<m, HeaderSize + k>>
  <2> DEFINE f == First(available, n)
  <2>1. f \in Seq(Byte) /\ Len(f) = n /\ \A k \in 1..n : f[k] = <<m, HeaderSize + b + k>>
    <3>1. \A k \in 1..n : k \in 1..Len(available) /\ k \in 1..size - b
      BY <1>1, <1>2
    <3> HIDE DEF n, R, b, size
    <3> QED
      BY <1>3, <1>4, <1>5, <3>1
  <2> HIDE DEF f, n
  <2>2. /\ buffer \o f \in Seq(Byte) /\ Len(buffer \o f) = Len(buffer) + Len(f)
        /\ \A i \in 1..Len(buffer) + Len(f) :
               (buffer \o f)[i] = IF i <= Len(buffer) THEN buffer[i] ELSE f[i - Len(buffer)]
    BY <1>1, <2>1, ConcatProperties
  <2>3. ASSUME NEW k \in 1..b + n PROVE (buffer \o f)[k] = <<m, HeaderSize + k>>
    <3>1. CASE k <= b
      BY <1>1, <1>2, <2>1, <2>2, <3>1
    <3>2. CASE ~(k <= b)
      <4>1. k - b \in 1..n /\ HeaderSize + b + (k - b) = HeaderSize + k
        BY <1>1, <1>2, <3>2
      <4> QED
        BY <2>1, <2>2, <3>2, <4>1
    <3> QED
      BY <3>1, <3>2
  <2> QED
    BY <2>1, <2>2, <2>3 DEF f
<1>7. /\ device' = Rest(available, n)
      /\ \/ Len(bytes) = size /\ Emit(bytes, size)
         \/ /\ Len(bytes) # size
            /\ buffer' = bytes /\ currentMessageSize' = size
            /\ UNCHANGED <<loopVars, history>>
  <2>1. (IF n < 0 THEN 0 ELSE n) = n
    BY <1>2
  <2> QED
    BY <2>1 DEF Take
<1>8. device' \in Seq(Byte) /\ Stream' = Rest(R, n) /\ n \in 0..Len(R)
  <2>1. n \in 0..Len(R)
    BY <1>1, <1>2, <1>4
  <2> HIDE DEF n
  <2>2. Rest(available, n) \in Seq(Byte)
    BY <1>2, RestOf
  <2>3. Rest(available, n) \o wire = Rest(available \o wire, n)
    BY <1>1, <1>2, Consumed
  <2> QED
    BY <1>7, <2>1, <2>2, <2>3 DEF Stream
<1> HIDE DEF n, bytes, R, size, b
<1>9. Framed(Stream, sent)'
  <2>1. Framed(R, sent)
    BY DEF R
  <2> QED
    BY <1>4, <1>8, <2>1, FramedRest
<1>10. /\ Len(Stream') = Len(R) - n /\ Stream' \in Seq(Byte)
       /\ \A k \in 1..Len(R) - n : Stream'[k] = R[n + k]
  BY <1>4, <1>8, RestOf
<1>11. CASE Len(bytes) = size /\ Emit(bytes, size)
  <2>1. bytes = Payload(m)
    <3>1. Payload(m) \in Seq(Byte) /\ Len(Payload(m)) = size
          /\ \A k \in 1..size : Payload(m)[k] = <<m, HeaderSize + k>>
      BY PayloadOf DEF size
    <3>2. Len(bytes) = size /\ b + n = size
      BY <1>6, <1>11
    <3> DEFINE p == Payload(m)
    <3>3. /\ bytes \in Seq(Byte) /\ p \in Seq(Byte) /\ Len(bytes) = Len(p)
          /\ \A k \in 1..Len(bytes) : bytes[k] = p[k]
      BY <1>6, <3>1, <3>2
    <3> HIDE DEF p
    <3> QED
      BY <3>3, SeqEqual DEF p
  <2>2. delivered' = Append(delivered, Payload(m))
    BY <1>11, <2>1 DEF Emit
  <2>3. delivered' \in Seq(Seq(Byte)) /\ DeliveredInOrder' /\ Behind(m + 1)'
    BY <2>2, Delivered
  <2>4. n = size - b
    BY <1>1, <1>2, <1>6, <1>11
  <2>5. CASE buffer' = <<>> /\ currentMessageSize' = -1 /\ UNCHANGED loopVars
    <3>1. SocketTypes'
      BY <1>8, <2>3, <2>5 DEF SocketTypes, loopVars
    <3>2. ASSUME NEW p, NEW i, Stream' # <<>>, Stream'[1] = <<p, i>>
          PROVE  i = 1 /\ Behind(p)'
      <4>1. n < Len(R) /\ 1 \in 1..Len(R) - n
        <5>1. Len(R) - n # 0
          BY <1>10, <3>2, EmptySeq
        <5>2. Len(R) \in Nat /\ n \in Nat /\ n <= Len(R)
          BY <1>1, <1>4, <1>8
        <5> QED
          BY <5>1, <5>2
      <4>2. Stream'[1] = <<m + 1, 1>>
        BY <1>5, <1>10, <2>4, <4>1
      <4> QED
        BY <2>3, <3>2, <4>2
    <3>3. Between'
      BY <2>5, <3>2 DEF Between
    <3>4. running' = emitting'
      BY <2>5 DEF loopVars
    <3> QED
      BY <1>9, <2>3, <3>1, <3>3, <3>4 DEF SocketInv
  <2>6. CASE /\ buffer' = bytes /\ currentMessageSize' = size
             /\ running' = FALSE /\ UNCHANGED emitting
    <3>1. SocketTypes'
      BY <1>6, <1>8, <2>3, <2>6 DEF SocketTypes
    <3>2. Stuck'
      BY <1>1, <2>6 DEF Stuck, size
    <3> QED
      BY <1>9, <2>3, <3>1, <3>2 DEF SocketInv
  <2> QED
    BY <1>11, <2>5, <2>6 DEF Emit
<1>12. CASE /\ Len(bytes) # size
            /\ buffer' = bytes /\ currentMessageSize' = size
            /\ UNCHANGED <<loopVars, history>>
  <2>1. UNCHANGED <<running, emitting, delivered>>
    BY <1>12 DEF loopVars, history
  <2>2. SocketTypes' /\ DeliveredInOrder' /\ Behind(m)'
    BY <1>6, <1>8, <1>12, <2>1 DEF SocketTypes, DeliveredInOrder, IsPayload, Behind
  <2>3. b + n < size /\ n + 1 \in 1..size - b
    BY <1>1, <1>2, <1>6, <1>12
  <2>4. 1 \in 1..Len(R) - n /\ Stream' # <<>>
    <3>1. Len(R) - n > 0
      BY <1>1, <1>4, <1>5, <1>8, <2>3
    <3>2. Len(<<>>) = 0
      OBVIOUS
    <3> QED
      BY <1>1, <1>4, <1>8, <1>10, <3>1, <3>2
  <2>5. Stream'[1] = <<m, HeaderSize + (b + n) + 1>>
    <3>1. Stream'[1] = <<m, HeaderSize + b + (n + 1)>>
      BY <1>5, <1>10, <2>3, <2>4
    <3>2. HeaderSize + b + (n + 1) = HeaderSize + (b + n) + 1
      BY <1>1, <1>2
    <3> QED
      BY <3>1, <3>2
  <2>6. Inside(m)'
    BY <1>6, <1>12, <2>2, <2>3, <2>4, <2>5 DEF Inside, size
  <2>7. running' = emitting'
    BY <2>1
  <2> QED
    BY <1>9, <2>2, <2>6, <2>7 DEF SocketInv
<1> QED
  BY <1>7, <1>11, <1>12

LEMMA DataReadyStep ==
    ASSUME SocketInv, DataReady
    PROVE  SocketInv'
<1> SUFFICES ASSUME ~cut PROVE SocketInv'
  BY DEF SocketInv, DataReady, Return, Take, Emit, history
<1>1. /\ SocketTypes /\ DeliveredInOrder /\ Framed(Stream, sent)
      /\ \/ Stuck
         \/ running = emitting /\ (Between \/ \E m \in Message : Inside(m))
  BY DEF SocketInv
<1>2. running = TRUE /\ running \in BOOLEAN
  BY <1>1 DEF SocketTypes, DataReady
<1>3. running = emitting /\ emitting = TRUE /\ (Between \/ \E m \in Message : Inside(m))
  BY <1>1, <1>2 DEF Stuck
<1>4. /\ device \in Seq(Byte) /\ wire \in Seq(Byte) /\ Len(device) \in Nat
      /\ HeaderSize \in Nat \ {0}
  BY <1>1, HeaderAssumption DEF SocketTypes
<1>5. CASE ~Enough /\ Return
  <2>1. running' = FALSE /\ emitting' = FALSE
        /\ UNCHANGED <<streamVars, socketVars, history>>
    BY <1>5 DEF Return
  <2>2. SocketTypes' /\ DeliveredInOrder' /\ Framed(Stream, sent)'
    BY <1>1, <2>1 DEF SocketTypes, DeliveredInOrder, IsPayload, Stream, streamVars,
                      socketVars, history
  <2>3. Between' \/ \E m \in Message : Inside(m)'
    BY <1>3, <2>1 DEF Between, Inside, Behind, Stream, streamVars, socketVars, history
  <2> QED
    BY <2>1, <2>2, <2>3 DEF SocketInv
<1>6. ASSUME Enough, UNCHANGED <<sent, wire>>, currentMessageSize = -1,
             NEW size \in SizesRead(First(device, HeaderSize)),
             Take(size, Rest(device, HeaderSize))
      PROVE  SocketInv'
  <2> DEFINE available == Rest(device, HeaderSize)
  <2>1. Between
    <3>1. \A m \in Message : ~Inside(m)
      BY <1>6, SizeAssumption DEF Inside
    <3> QED
      BY <1>3, <3>1
  <2>2. Len(device) >= HeaderSize /\ device # <<>>
    BY <1>6 DEF Enough
  <2>3. /\ Stream \in Seq(Byte) /\ Len(Stream) = Len(device) + Len(wire)
        /\ \A k \in 1..Len(device) : Stream[k] = device[k]
    BY <1>1, StreamIs
  <2>4. Len(wire) \in Nat /\ 1 \in 1..Len(Stream) /\ Stream # <<>>
    <3>1. Len(wire) \in Nat /\ Len(Stream) >= 1
      BY <1>4, <2>2, <2>3
    <3> QED
      BY <3>1
  <2>5. PICK m, i : Stream[1] = <<m, i>>
    BY <2>3, <2>4 DEF Byte
  <2>6. i = 1 /\ Behind(m)
    BY <2>1, <2>4, <2>5 DEF Between
  <2>7. FrameAt(Stream, sent, 1, m, 1, 1 + (Bytes(m) - 1))
    BY <1>1, <2>4, <2>5, <2>6 DEF Framed
  <2>8. m \in Message /\ m <= sent
    BY <2>7 DEF FrameAt
  <2>9. Bytes(m) \in Nat /\ Bytes(m) > HeaderSize /\ 1 + (Bytes(m) - 1) = Bytes(m)
    <3>1. Bytes(m) \in Nat /\ Bytes(m) > HeaderSize
      BY <2>8, FrameOf
    <3> QED
      BY <3>1
  <2>10. /\ Bytes(m) <= Len(Stream)
         /\ \A l \in 1..Bytes(m) : Stream[l] = <<m, l>>
    <3>1. FrameAt(Stream, sent, 1, m, 1, Bytes(m))
      BY <2>7, <2>9
    <3>2. \A l \in 1..Bytes(m) : 1 + (l - 1) = l
      BY <2>9
    <3> QED
      BY <3>1, <3>2 DEF FrameAt
  <2>11. First(device, HeaderSize) = Header(m)
    <3> DEFINE h == First(device, HeaderSize)
               g == Header(m)
    <3>1. HeaderSize \in 0..Len(device)
      BY <1>4, <2>2
    <3>2. h \in Seq(Byte) /\ Len(h) = HeaderSize /\ \A k \in 1..HeaderSize : h[k] = device[k]
      BY <1>4, <3>1, FirstOf
    <3>3. g \in Seq(Byte) /\ Len(g) = HeaderSize /\ \A k \in 1..HeaderSize : g[k] = <<m, k>>
      BY <2>8, HeaderOf
    <3> HIDE DEF h, g
    <3>4. \A k \in 1..HeaderSize : h[k] = g[k]
      <4>1. \A k \in 1..HeaderSize : k \in 1..Len(device) /\ k \in 1..Bytes(m)
        BY <1>4, <2>2, <2>9
      <4> QED
        BY <2>3, <2>10, <3>2, <3>3, <4>1
    <3> QED
      BY <3>2, <3>3, <3>4, SeqEqual DEF h, g
  <2>12. size = Size(m)
    BY <1>6, <2>8, <2>11, HeaderIsUnique
  <2>13. HeaderSize \in 0..Len(device)
    BY <1>4, <2>2
  <2>14. available \in Seq(Byte) /\ available \o wire = Rest(Stream, HeaderSize)
    BY <1>4, <2>13, RestOf, Consumed DEF Stream
  <2>15. /\ Rest(Stream, HeaderSize) # <<>>
         /\ Rest(Stream, HeaderSize)[1] = <<m, HeaderSize + 1>>
    <3>1. /\ HeaderSize \in 0..Len(Stream) /\ 1 \in 1..Len(Stream) - HeaderSize
          /\ HeaderSize + 1 \in 1..Bytes(m)
      BY <1>4, <2>3, <2>4, <2>9, <2>10
    <3> DEFINE t == Stream
               r == Rest(t, HeaderSize)
    <3>2. t \in Seq(Byte) /\ HeaderSize \in 0..Len(t)
      BY <2>3, <3>1
    <3> HIDE DEF t
    <3>3. /\ Len(r) = Len(t) - HeaderSize
          /\ \A k \in 1..Len(t) - HeaderSize : r[k] = t[HeaderSize + k]
      BY <3>2, RestOf
    <3> HIDE DEF r
    <3>4. r[1] = t[HeaderSize + 1]
      BY <3>1, <3>3 DEF t
    <3>5. Len(r) # 0
      BY <1>4, <2>3, <2>4, <3>1, <3>2, <3>3 DEF t
    <3>6. r # <<>>
      BY <3>5
    <3> QED
      BY <2>10, <3>1, <3>4, <3>6 DEF r, t
  <2>16. Framed(available \o wire, sent)
    <3>1. HeaderSize \in 0..Len(Stream)
      BY <1>4, <2>3, <2>9, <2>10
    <3> QED
      BY <1>1, <2>3, <2>14, <3>1, FramedRest
  <2>17. /\ buffer = <<>> /\ Len(buffer) = 0 /\ Len(buffer) < Size(m)
         /\ \A k \in 1..Len(buffer) : buffer[k] = <<m, HeaderSize + k>>
         /\ HeaderSize + Len(buffer) + 1 = HeaderSize + 1
    <3>1. buffer = <<>> /\ Len(<<>>) = 0
      BY <2>1 DEF Between
    <3>2. Size(m) > 0
      BY <2>8, SizeAssumption
    <3> QED
      BY <1>4, <3>1, <3>2
  <2>18. UNCHANGED cut
    BY <1>6 DEF Take, Emit, history
  <2>19. available \o wire # <<>>
         /\ (available \o wire)[1] = <<m, HeaderSize + Len(buffer) + 1>>
    BY <2>14, <2>15, <2>17
  <2>20. Take(Size(m), available)
    BY <1>6, <2>12
  <2> HIDE DEF available
  <2> QED
    BY <1>1, <1>2, <1>3, <1>6, <2>6, <2>8, <2>14, <2>16, <2>17, <2>18, <2>19, <2>20,
       TakeStep
<1>7. ASSUME UNCHANGED <<sent, wire>>, currentMessageSize # -1,
             Take(currentMessageSize, device)
      PROVE  SocketInv'
  <2>1. PICK m \in Message : Inside(m)
    BY <1>3, <1>7 DEF Between
  <2>2. UNCHANGED cut
    BY <1>7 DEF Take, Emit, history
  <2>3. /\ m <= sent /\ Behind(m) /\ Take(Size(m), device) /\ Len(buffer) < Size(m)
        /\ \A k \in 1..Len(buffer) : buffer[k] = <<m, HeaderSize + k>>
        /\ device \o wire # <<>>
        /\ (device \o wire)[1] = <<m, HeaderSize + Len(buffer) + 1>>
        /\ Framed(device \o wire, sent)
    BY <1>1, <1>7, <2>1 DEF Inside, Stream
  <2> QED
    BY <1>1, <1>2, <1>3, <1>4, <1>7, <2>2, <2>3, TakeStep
<1> QED
  BY <1>5, <1>6, <1>7 DEF DataReady

LEMMA SetDeviceStep ==
    ASSUME SocketInv, SetDevice
    PROVE  SocketInv'
<1> SUFFICES ASSUME ~cut' PROVE SocketInv'
  BY DEF SocketInv
<1>1. /\ ~cut /\ currentMessageSize = -1
      /\ ~running /\ wire' = <<>> /\ device' = <<>> /\ emitting' = FALSE
      /\ UNCHANGED <<sent, currentMessageSize, buffer, running, delivered>>
  BY DEF SetDevice, socketVars
<1>2. SocketTypes /\ DeliveredInOrder /\ (Between \/ \E m \in Message : Inside(m))
  BY <1>1 DEF SocketInv, Stuck
<1>3. Between
  <2>1. \A m \in Message : ~Inside(m)
    BY <1>1, SizeAssumption DEF Inside
  <2> QED
    BY <1>2, <2>1
<1>4. SocketTypes' /\ DeliveredInOrder'
  <2>1. <<>> \in Seq(Byte)
    OBVIOUS
  <2> QED
    BY <1>1, <1>2, <2>1 DEF SocketTypes, DeliveredInOrder, IsPayload
<1>5. Stream' = <<>>
  <2>1. <<>> \in Seq(Byte)
    OBVIOUS
  <2>2. <<>> \o <<>> = <<>>
    BY <2>1, ConcatEmptySeq
  <2> QED
    BY <1>1, <2>2 DEF Stream
<1>6. Framed(Stream, sent)'
  BY <1>5, FramedEmpty
<1>7. Between'
  BY <1>1, <1>3, <1>5 DEF Between
<1>8. running' = emitting'
  <2>1. running = FALSE
    BY <1>1, <1>2 DEF SocketTypes
  <2> QED
    BY <1>1, <2>1
<1> QED
  BY <1>4, <1>6, <1>7, <1>8 DEF SocketInv

LEMMA SocketStep == SocketInv /\ [Next]_vars => SocketInv'
<1> SUFFICES ASSUME SocketInv, [Next]_vars PROVE SocketInv'
  OBVIOUS
<1>1. CASE UNCHANGED vars
  <2>1. UNCHANGED <<sent, wire, device, currentMessageSize, buffer, running, emitting,
                    delivered, cut>>
    BY <1>1 DEF vars, streamVars, socketVars, loopVars, history
  <2>2. (SocketTypes <=> SocketTypes') /\ (Stuck <=> Stuck')
        /\ (DeliveredInOrder <=> DeliveredInOrder')
    BY <2>1 DEF SocketTypes, Stuck, DeliveredInOrder, IsPayload
  <2>3. Stream' = Stream
    BY <2>1 DEF Stream
  <2>4. /\ Framed(Stream, sent) => Framed(Stream, sent)'
        /\ Between => Between'
        /\ \A m \in Message : Inside(m) => Inside(m)'
    BY <2>1, <2>3 DEF Between, Inside, Behind
  <2> QED
    BY <2>1, <2>2, <2>4 DEF SocketInv
<1>2. CASE Next
  BY <1>2, SendStep, ArriveStep, DataReadyStep, SetDeviceStep DEF Next, Arrives
<1> QED
  BY <1>1, <1>2

\* Whatever the pieces in which the bytes arrive, message() is emitted with
\* whole messages, in the order they were sent and with none twice, unless a
\* device is replaced inside a message (MessageSocket.cpp:14-24, 45-76).
THEOREM MessagesWholeAndInOrder == Spec => []WholeAndInOrder
<1>1. SocketInv => WholeAndInOrder
  BY DEF SocketInv, DeliveredInOrder, WholeAndInOrder
<1> QED
  BY <1>1, SocketInit, SocketStep, PTL DEF Spec

=============================================================================
