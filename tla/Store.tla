------------------------------- MODULE Store --------------------------------
(***************************************************************************)
(* ConnectionStore as its caller sees it: which connections are polled for *)
(* input and which have unsent data, and what a call of Update makes of    *)
(* updateData.  Server is built on these steps; AbstractStore makes a      *)
(* specification of them that the detailed ConnectionStore implements.     *)
(***************************************************************************)
EXTENDS Network, FiniteSetsExt

CONSTANTS
    ClientMessages, \* what a client may send
    Faults          \* what the network may do besides delivering messages

ASSUME FaultsAssumption == Faults \subseteq FaultKinds

VARIABLES
    receiving,      \* the connections whose events hold POLLIN
    sending,        \* the connections whose outgoing is not empty
    updateData      \* Server::updateData: both argument and result of Update

store == <<receiving, sending>>

InStore   == receiving \cup sending
Lingering == sending \ receiving

(***************************************************************************)
(* PrePoll: outgoing messages are queued, closed connections are no longer *)
(* read and stay only while they have unsent data.  An fd that the store   *)
(* does not hold, or no longer holds when it is closed a second time, is   *)
(* refused.                                                                *)
(***************************************************************************)
Refused(data) ==
    \/ ~ (Addressed(data) \cup ToSet(data.closed) \subseteq InStore)
    \/ \E i, j \in DOMAIN data.closed :
          /\ i # j /\ data.closed[i] = data.closed[j]
          /\ data.closed[i] \notin sending \cup Addressed(data)

HandOver(data) ==
    /\ ~Refused(data)
    /\ updateData' = data
    /\ sending' = sending \cup Addressed(data)
    /\ receiving' = receiving \ ToSet(data.closed)

(***************************************************************************)
(* poll with an event, UpdateBuffers and UpdateListening.  The environment *)
(* chooses who sent a message, who is gone, whose outgoing data is flushed *)
(* and whether a client connects.  At most one message is taken from a     *)
(* connection.  All of these may be empty: an incomplete line, a partial   *)
(* write.  The order of the fds in closed tells the caller nothing, one    *)
(* order stands for all.  room bounds the messages of one call.            *)
(***************************************************************************)
Losable ==
    UNION {IF "Disconnect" \in Faults THEN receiving ELSE {},
           IF "LingeringLost" \in Faults THEN Lingering ELSE {}}

(* POLLERR makes the store read also from a connection it no longer polls   *)
(* for input.                                                               *)
Readable == receiving \cup (IF "LingeringLost" \in Faults THEN Lingering ELSE {})

(* read, or else write, found this connection gone *)
CanLose(gone, senders) ==
    /\ gone \subseteq Losable
    /\ gone \cap senders \subseteq
          IF "WriteFails" \in Faults THEN sending ELSE {}

Batches(room) == {s \in SeqOf(Readable, room) : IsInjective(s)}

(* A peer that reads leaves room to write, so poll reports POLLOUT at once. *)
Flushes(gone) == IF "SlowPeer" \in Faults THEN SUBSET (sending \ gone)
                                           ELSE {sending \ gone}

(* Update returns these messages, these lost connections and perhaps a new *)
(* one; the data of flushed has been written.                              *)
ReportOf(msgs, gone, flushed, connects) ==
    LET sent == sending \ (flushed \cup gone)
        recv == receiving \ gone
        new  == IF connects THEN {Min(Free(sent \cup recv))} ELSE {}
    IN  /\ connects => Free(sent \cup recv) # {}
        /\ sending' = sent
        /\ receiving' = recv \cup new
        /\ updateData' = [msgs   |-> msgs,
                          closed |-> SetToSeq(gone),
                          opened |-> IF connects THEN Min(new) ELSE NoFd]

Report(room) ==
    \E senders \in Batches(room), gone \in SUBSET Losable, connects \in BOOLEAN :
    \E flushed \in Flushes(gone), contents \in [DOMAIN senders -> ClientMessages] :
    /\ CanLose(gone, ToSet(senders))
    /\ connects \/ InStore # {}
    /\ ReportOf([i \in DOMAIN senders |-> To(senders[i], contents[i])],
                gone, flushed, connects)

(* poll returns 0.  UpdateBuffers is not called, so updateData is returned  *)
(* as it was handed in, with the caller's own messages and closed fds in    *)
(* it.                                                                      *)
ReportNothing ==
    /\ "SlowPeer" \in Faults \/ sending = {}
    /\ UNCHANGED <<receiving, sending, updateData>>

(***************************************************************************)
(* ConnectionStore::Close: no more reading; connections with nothing left  *)
(* to send are closed, the others when it has been sent.                   *)
(***************************************************************************)
StopAll == receiving' = {} /\ UNCHANGED sending

FlushMore ==
    /\ sending # {}
    /\ \E flushed \in Flushes({}) : sending' = sending \ flushed
    /\ UNCHANGED <<receiving, updateData>>
=============================================================================
