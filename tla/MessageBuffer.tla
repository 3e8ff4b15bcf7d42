---------------------------- MODULE MessageBuffer ----------------------------
(***************************************************************************)
(* MessageBuffer of src/src/MessageBuffer.cpp: one direction of a          *)
(* connection.  Messages are pushed as text into the outgoing buffer of    *)
(* one end, carried by the kernel as bytes in pieces of any size, and cut  *)
(* out of the incoming buffer of the other end at the separator.           *)
(*                                                                         *)
(* The ends differ in one thing: after a read the client pops all messages *)
(* (Client.cpp), the server's ConnectionStore pops one.                    *)
(***************************************************************************)
EXTENDS Messages

CONSTANTS
    Talks,          \* the sequences of messages one end may push
    BufferSize      \* of the buffer for a system call, 4096 in the code

ASSUME BufferAssumption == BufferSize \in Nat \ {0}

VARIABLES
    talk,           \* what is pushed on this connection
    nPushed,        \* how many of them have been pushed
    reader,         \* the end that reads: "client" or "server"
    outgoing,       \* MessageBuffer::outgoing at the end that writes
    pipe,           \* the bytes in the kernel, external
    incoming,       \* MessageBuffer::incoming at the end that reads
    received,       \* the texts popped
    writing,        \* the end that writes has not gone away
    isOpen          \* MessageBuffer::isOpen at the end that reads

vars == <<talk, nPushed, reader, outgoing, pipe, incoming, received, writing, isOpen>>

Separator == <<"\r", "\n">>

Init ==
    /\ talk \in Talks /\ nPushed = 0
    /\ reader \in {"client", "server"}
    /\ outgoing = <<>> /\ pipe = <<>> /\ incoming = <<>> /\ received = <<>>
    /\ writing = TRUE /\ isOpen = TRUE

PushMessage ==
    /\ writing
    /\ nPushed < Len(talk)
    /\ nPushed' = nPushed + 1
    /\ outgoing' = outgoing \o Str(talk[nPushed + 1]) \o Separator
    /\ UNCHANGED <<talk, reader, pipe, incoming, received, writing, isOpen>>

(* write takes a part of what it is offered, and no more of it leaves the   *)
(* buffer.                                                                  *)
BugAllErased(len, ret) == len
Erased(len, ret)       == ret

Send ==
    /\ writing /\ outgoing # <<>>
    /\ LET len == Min({Len(outgoing), BufferSize}) IN
       \E ret \in 1 .. len :
          /\ pipe' = pipe \o SubSeq(outgoing, 1, ret)
          /\ outgoing' = SubSeq(outgoing, Erased(len, ret) + 1, Len(outgoing))
    /\ UNCHANGED <<talk, nPushed, reader, incoming, received, writing, isOpen>>

(* PopMessage, as often as the reader calls it after a read: the separator  *)
(* is searched in all that has been read, the message before it is popped   *)
(* and erased with it.                                                      *)
Separators(text) ==
    {i \in 1 .. Len(text) - 1 : <<text[i], text[i + 1]>> = Separator}
BugHalfErased == 1
SeparatorSize == Len(Separator)
BugOneCall(found) == Min({1, found})
Calls(found) == IF reader = "client" THEN found ELSE Min({1, found})

PopMessages(text) ==
    \E ends \in {SetToSortSeq(Separators(text), <)} :
       LET start(n) == IF n = 1 THEN 1 ELSE ends[n - 1] + SeparatorSize
           calls    == Calls(Len(ends))
       IN  /\ incoming' = SubSeq(text, start(calls + 1), Len(text))
           /\ received' = received \o
                  [n \in 1 .. calls |-> SubSeq(text, start(n), ends[n] - 1)]

Receive ==
    /\ isOpen /\ pipe # <<>>
    /\ \E ret \in 1 .. Min({Len(pipe), BufferSize}) :
          /\ pipe' = SubSeq(pipe, ret + 1, Len(pipe))
          /\ \E text \in {incoming \o SubSeq(pipe, 1, ret)} : PopMessages(text)
    /\ UNCHANGED <<talk, nPushed, reader, outgoing, writing, isOpen>>

(* read returns 0, or fails with ECONNRESET: the buffer is closed.          *)
ReceiveEnd ==
    /\ isOpen /\ ~writing /\ pipe = <<>>
    /\ isOpen' = FALSE
    /\ UNCHANGED <<talk, nPushed, reader, outgoing, pipe, incoming, received, writing>>

(* The end that writes goes away.  Its buffer goes with it; the kernel may  *)
(* drop what has not been read.                                             *)
GoesAway ==
    /\ writing /\ writing' = FALSE
    /\ outgoing' = <<>>
    /\ \E n \in 0 .. Len(pipe) : pipe' = SubSeq(pipe, 1, n)
    /\ UNCHANGED <<talk, nPushed, reader, incoming, received, isOpen>>

Ended == ~isOpen /\ UNCHANGED vars

Next == PushMessage \/ Send \/ Receive \/ ReceiveEnd \/ GoesAway \/ Ended
Spec == Init /\ [][Next]_vars /\ WF_vars(PushMessage) /\ WF_vars(Send) /\ WF_vars(Receive)

-----------------------------------------------------------------------------
(* However the bytes are cut into writes and reads, and wherever the        *)
(* stream breaks off: what has been received are the first of the messages  *)
(* pushed, each of them the same.  None is read across a separator, none    *)
(* made of a part of another (a TRICK13 cut short is no TRICK1), and no     *)
(* number runs into the card after it.                                      *)
ReceivedAsPushed ==
    /\ Len(received) <= nPushed
    /\ \A i \in DOMAIN received : Deserialize(received[i]) = talk[i]

(* No byte is lost, added or overtaken: as long as nobody has gone away,    *)
(* what is pushed and not received is in the three buffers, in order.       *)
StreamComplete ==
    writing => incoming \o pipe \o outgoing =
                   FlattenSeq([i \in 1 .. nPushed - Len(received) |->
                                  Str(talk[Len(received) + i]) \o Separator])

(* The client receives every message that is pushed, without waiting for    *)
(* another one to follow it, unless the server goes away.                   *)
AllReceived ==
    \A n \in 1 .. 3 :
        (reader = "client" /\ nPushed >= n) ~> (Len(received) >= n \/ ~writing)
=============================================================================
