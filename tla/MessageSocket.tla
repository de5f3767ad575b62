--------------------------- MODULE MessageSocket ---------------------------
(***************************************************************************)
(* The framing of messages in a byte stream (commonlib/MessageSocket.cpp): *)
(* each message goes out behind its size, and the receiver puts messages   *)
(* together again from the pieces in which the bytes arrive.  A slot of    *)
(* message() may wait for an answer in an event loop of its own            *)
(* (FutureImpl::get, Async.cpp), and when the connection breaks the client *)
(* goes on with another device (setDevice).                                *)
(*                                                                         *)
(* A byte is known by its message and its place in the frame of it.        *)
(***************************************************************************)
EXTENDS Integers, SequencesExt

CONSTANTS
    Message,        \* 1..n: messages in the order they are sent
    Size(_),        \* bytes of a message
    HeaderSize,     \* bytes of the size in front of it: 4 in the code
    Misread,        \* what bytes that are no header may be taken for, as a size
    MaxDevices      \* bound: devices one after the other

ASSUME MessageAssumption == Message \in SUBSET Nat /\ 0 \notin Message
\* A message is a JSON object: it has at least its two brackets.
ASSUME SizeAssumption == \A m \in Message : Size(m) \in Nat \ {0}
ASSUME HeaderAssumption == HeaderSize \in Nat \ {0}

VARIABLES
    sent,               \* the last message sent, 0 before the first
    wire,               \* bytes under way
    device,             \* bytes m_device has available
    currentMessageSize, \* -1 between messages
    buffer,             \* m_buffer
    running,            \* dataReady() is in its loop
    emitting,           \* readyRead of m_device is being emitted: the device
                        \* does not emit it again before the slot returns
    waiting,            \* slots of message() that wait in an event loop
    delivered,          \* history: what message() was emitted with
    devices,            \* history: devices so far
    cut                 \* history: a device was replaced inside a message

streamVars == <<sent, wire, device>>
socketVars == <<currentMessageSize, buffer>>
loopVars == <<running, emitting, waiting>>
history == <<delivered, devices, cut>>
vars == <<streamVars, socketVars, loopVars, history>>

Frame(m) == [i \in 1..HeaderSize + Size(m) |-> <<m, i>>]
Header(m) == SubSeq(Frame(m), 1, HeaderSize)
Payload(m) == SubSeq(Frame(m), HeaderSize + 1, HeaderSize + Size(m))

Smaller(x, y) == IF x < y THEN x ELSE y
First(s, n) == SubSeq(s, 1, Smaller(n, Len(s)))
Rest(s, n) == SubSeq(s, Smaller(n, Len(s)) + 1, Len(s))

-----------------------------------------------------------------------------
(* The sender. *)

Send(m) ==
    /\ m = sent + 1
    /\ sent' = m
    /\ wire' = wire \o Frame(m)
    /\ UNCHANGED <<device, socketVars, loopVars, history>>

-----------------------------------------------------------------------------
(* The receiver: dataReady(), one turn of its loop at a time. *)

\* Bytes arrive; the event loop of the receiver emits readyRead if it may.
Arrive(n) ==
    /\ ~running /\ n \in 1..Len(wire)
    /\ device' = device \o First(wire, n)
    /\ wire' = Rest(wire, n)
    /\ running' = ~emitting
    /\ emitting' = TRUE
    /\ UNCHANGED <<sent, socketVars, waiting, history>>

\* The loop ends, and with it the slot of readyRead.
Return ==
    /\ running' = FALSE
    /\ emitting' = FALSE
    /\ UNCHANGED <<streamVars, socketVars, waiting, history>>

\* Mutant of Enough: the header is read as soon as anything is there.
Something == device # <<>>

\* Is there something to read, and if a header is due, all of it?
Enough == /\ device # <<>>
          /\ currentMessageSize = -1 => Len(device) >= HeaderSize

\* The sizes the next bytes may give.
SizesRead(bytes) ==
    LET headers == {m \in Message : Header(m) = bytes}
    IN  IF headers # {} THEN {Size(m) : m \in headers} ELSE Misread

\* A message is complete: message() is emitted, with the message still in the
\* buffer.  Its slots return, or one of them waits.
Emit(bytes, size) ==
    /\ delivered' = Append(delivered, bytes)
    /\ \/ /\ buffer' = <<>> /\ currentMessageSize' = -1
          /\ UNCHANGED loopVars
       \/ /\ buffer' = bytes /\ currentMessageSize' = size
          /\ running' = FALSE /\ waiting' = waiting + 1
          /\ UNCHANGED emitting
    /\ UNCHANGED <<devices, cut>>

\* Read what belongs to the message.  A negative size reads nothing, for ever.
Take(size, available) ==
    LET n == Smaller(size - Len(buffer), Len(available))
        bytes == buffer \o First(available, n)
    IN  /\ device' = Rest(available, IF n < 0 THEN 0 ELSE n)
        /\ \/ Len(bytes) = size /\ Emit(bytes, size)
           \/ /\ Len(bytes) # size
              /\ buffer' = bytes /\ currentMessageSize' = size
              /\ UNCHANGED <<loopVars, history>>

\* Mutant of DataReady: one message for each readyRead.
DataReadyOnce ==
    /\ running
    /\ \/ ~Enough /\ Return
       \/ /\ Enough
          /\ \E size \in SizesRead(First(device, HeaderSize)) :
                 /\ currentMessageSize = -1
                 /\ buffer' = <<>> /\ currentMessageSize' = -1
                 /\ delivered' = Append(delivered,
                        First(Rest(device, HeaderSize), size))
                 /\ device' = Rest(device, HeaderSize + size)
          /\ running' = FALSE /\ emitting' = FALSE
          /\ UNCHANGED <<sent, wire, waiting, devices, cut>>

DataReady ==
    /\ running
    /\ \/ ~Enough /\ Return
       \/ /\ Enough
          /\ \/ /\ currentMessageSize = -1
                /\ \E size \in SizesRead(First(device, HeaderSize)) :
                       Take(size, Rest(device, HeaderSize))
             \/ currentMessageSize # -1 /\ Take(currentMessageSize, device)
          /\ UNCHANGED <<sent, wire>>

-----------------------------------------------------------------------------
(* Another connection. *)

\* setDevice().  What m_buffer and m_currentMessageSize hold of a message stays.
SetDevice ==
    /\ ~running /\ devices < MaxDevices
    /\ wire' = <<>> /\ device' = <<>>
    /\ emitting' = FALSE
    /\ devices' = devices + 1
    /\ cut' = (cut \/ currentMessageSize # -1)
    /\ UNCHANGED <<sent, socketVars, running, waiting, delivered>>

-----------------------------------------------------------------------------
Init ==
    /\ sent = 0 /\ wire = <<>> /\ device = <<>>
    /\ currentMessageSize = -1 /\ buffer = <<>>
    /\ running = FALSE /\ emitting = FALSE /\ waiting = 0
    /\ delivered = <<>> /\ devices = 1 /\ cut = FALSE

Arrives == \E n \in 1..Len(wire) : Arrive(n)

Next ==
    \/ \E m \in Message : Send(m)
    \/ Arrives
    \/ DataReady
    \/ SetDevice

\* Bytes under way arrive in time, and the receiver's thread runs on.
Spec == Init /\ [][Next]_vars /\ WF_vars(Arrives) /\ WF_vars(DataReady)

-----------------------------------------------------------------------------
(* Properties. *)

IsPayload(bytes, m) == m <= sent /\ bytes = Payload(m)

\* However the bytes are cut into pieces, and although messages are lost with
\* a connection, message() is emitted with whole messages, in the order they
\* were sent and with none twice: unless a device is replaced inside a message,
\* of which setDevice() keeps the part it has (MessageSocket.cpp:14-24).
WholeAndInOrder ==
    ~cut => /\ \A i \in DOMAIN delivered :
                   \E m \in Message : IsPayload(delivered[i], m)
            /\ \A i, j \in DOMAIN delivered, m, n \in Message :
                   /\ i < j
                   /\ IsPayload(delivered[i], m) /\ IsPayload(delivered[j], n)
                   => m < n

\* Every message arrives, unless the connection is replaced or a slot waits:
\* inside the slot no further message is read, and so a get() that is called
\* there (ConnectionDialog.cpp:84, ClientMainWindow.cpp:42) has no end, while
\* one called elsewhere is answered.
EveryMessageArrives ==
    \A m \in Message :
        sent = m ~> \/ \E i \in DOMAIN delivered : delivered[i] = Payload(m)
                    \/ devices > 1 \/ waiting > 0
=============================================================================
