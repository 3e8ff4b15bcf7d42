-------------------------- MODULE ConnectionStore ---------------------------
(***************************************************************************)
(* Class ConnectionStore of src/src/ConnectionStore.cpp with the           *)
(* MessageBuffers it holds: three containers that describe one connection  *)
(* each under the same index, from which connections are removed by moving *)
(* the last one into the gap.                                              *)
(*                                                                         *)
(* The caller's thread goes through Update one connection at a time,       *)
(*                                                                         *)
(*   idle -> push -> stop -> poll -> read, write, ... -> pop -> listen     *)
(*                                                                         *)
(* and its peers write and hang up between any two of its steps.  Close    *)
(* starts at stop, with every connection, and goes round from poll to      *)
(* listen until there is none.  A message of which only a part has been    *)
(* read counts as not read, but a part alone makes a connection readable.  *)
(***************************************************************************)
EXTENDS Network, FiniteSetsExt

CONSTANTS
    Inputs,         \* the updateData a caller may hand in
    MaxUnsent,      \* bound on the messages that wait in outgoing
    MaxArrived      \* bound on the messages of a peer that are not popped

(* UpdateData.  What a caller or a peer says to a connection stands for its *)
(* text, and is the fd of that connection.                                  *)
UpdateDatas == [msgs   : Seq([fd : Fds, content : Fds]),
                closed : Seq(Fds),
                opened : Fds \cup {NoFd}]

ASSUME StoreAssumption ==
    /\ MaxUnsent \in Nat
    /\ \A input \in Inputs :
          /\ input \in UpdateDatas
          /\ \A i \in DOMAIN input.msgs : input.msgs[i].content = input.msgs[i].fd

VARIABLES
    pollfds,        \* ConnectionStore::pollfds; the first one is the listening
                    \* socket, so connection i has pollfd i + 1
    connections,    \* ConnectionStore::connections, the MessageBuffers
    fdMap,          \* ConnectionStore::fdMap, from fds to indices
    data,           \* the argument of Update
    closing,        \* the thread is in Close
    todo,           \* fds that StopReceiving (in stop) or Pop (in pop) is still
                    \* to be called for
    at,             \* the index of the message (in push) or connection it is at
    ready,          \* the fds with POLLIN or POLLERR, and those with POLLOUT,
                    \* in the revents of the last poll
    connects,       \* a connection waits at the listening socket, at that poll
    peers,          \* the other ends: what they have written, if they are there
    pc,             \* where the thread is
    view            \* what the caller knew when it called, for refinement only

containers == <<pollfds, connections, fdMap>>
local      == <<data, closing, todo, at, ready, connects>>
vars       == <<containers, local, peers, pc, view>>

(* A MessageBuffer: the messages not yet popped, and how many not yet sent. *)
Buffer(fd) == [fd |-> fd, incoming |-> <<>>, outgoing |-> 0]
Pollfd(fd) == [fd |-> fd, in |-> TRUE, out |-> FALSE]
NoPeer     == [state |-> "none", arrived |-> <<>>]

Indices     == DOMAIN connections
Held        == DOMAIN fdMap
PollfdOf(i) == pollfds[i + 1]
PollfdFor(fd) == PollfdOf(fdMap[fd])
BufferFor(fd) == connections[fdMap[fd]]

(* What the caller knows: Store's variables and the phase of AbstractStore. *)
Receiving == {PollfdOf(i).fd : i \in {j \in Indices : PollfdOf(j).in}}
Sending   == {connections[i].fd : i \in {j \in Indices : connections[j].outgoing # 0}}
Phase     == CASE pc \in {"idle", "closed", "error"} -> pc
               [] OTHER -> IF closing THEN "closing" ELSE "poll"
Seen == [receiving |-> Receiving, sending |-> Sending, phase |-> Phase,
         data |-> IF closing THEN NoUpdate ELSE data]

(* The order of the lost connections tells the caller nothing.              *)
AnyOrder(seen) == [seen EXCEPT !.data.closed = SetToSeq(ToSet(@))]

Init ==
    /\ pollfds = <<Pollfd(NoFd)>> /\ connections = <<>> /\ fdMap = <<>>
    /\ data = NoUpdate /\ closing = FALSE /\ todo = <<>> /\ at = 1
    /\ ready = [in |-> {}, out |-> {}] /\ connects = FALSE
    /\ peers = [fd \in Fds |-> NoPeer]
    /\ pc = "idle"
    /\ view = Seen

(* An error is returned: the program ends and the kernel closes everything. *)
Fail ==
    /\ pollfds' = <<Pollfd(NoFd)>> /\ connections' = <<>> /\ fdMap' = <<>>
    /\ data' = NoUpdate /\ closing' = FALSE /\ todo' = <<>> /\ at' = 1
    /\ ready' = [in |-> {}, out |-> {}] /\ connects' = FALSE
    /\ peers' = [fd \in Fds |-> NoPeer]
    /\ pc' = "error"
    /\ view' = Seen'

(* Pop: the last connection takes the place of the one that goes.           *)
BugMapNotMoved(fd) == [f \in Held \ {fd} |-> fdMap[f]]
MapWithout(fd) ==
    [f \in Held \ {fd} |-> IF f = Last(pollfds).fd THEN fdMap[fd] ELSE fdMap[f]]

BugNotMoved(seq, i) == Front(seq)
MovedInto(seq, i) == Front([seq EXCEPT ![i] = Last(seq)])

BugHalfMoved(fd) ==
    /\ pollfds' = MovedInto(pollfds, fdMap[fd] + 1)
    /\ connections' = Front(connections)
    /\ fdMap' = MapWithout(fd)
    /\ peers' = [peers EXCEPT ![fd] = NoPeer]

Pop(fd) ==
    /\ pollfds' = MovedInto(pollfds, fdMap[fd] + 1)
    /\ connections' = MovedInto(connections, fdMap[fd])
    /\ fdMap' = MapWithout(fd)
    /\ peers' = [peers EXCEPT ![fd] = NoPeer]       \* close(fd)

-----------------------------------------------------------------------------
(* Update and Close are called.                                             *)
Unsent(fd, input) ==
    (IF fd \in Held THEN BufferFor(fd).outgoing ELSE 0)
        + Cardinality({i \in DOMAIN input.msgs : input.msgs[i].fd = fd})

CallUpdate ==
    /\ pc = "idle"
    /\ \E input \in Inputs :
          /\ \A fd \in Fds : Unsent(fd, input) <= MaxUnsent
          /\ data' = input
    /\ at' = 1
    /\ pc' = "push"
    /\ UNCHANGED <<containers, closing, todo, ready, connects, peers, view>>

CallClose ==
    /\ pc = "idle"
    /\ data' = NoUpdate /\ closing' = TRUE
    /\ pollfds' = [pollfds EXCEPT ![1].in = FALSE]
    /\ todo' = [i \in Indices |-> PollfdOf(i).fd]
    /\ pc' = "stop"
    /\ UNCHANGED <<connections, fdMap, at, ready, connects, peers, view>>

(* PushBuffers, one message.                                                *)
BugNoPollout(p) == p
Polling(p) == [p EXCEPT !.out = TRUE]

PushBuffer ==
    /\ pc = "push" /\ at <= Len(data.msgs)
    /\ LET fd == data.msgs[at].fd IN
       IF fd \notin Held THEN Fail
       ELSE /\ pollfds' = [pollfds EXCEPT ![fdMap[fd] + 1] = Polling(@)]
            /\ connections' = [connections EXCEPT ![fdMap[fd]].outgoing = @ + 1]
            /\ at' = at + 1
            /\ UNCHANGED <<fdMap, data, closing, todo, ready, connects, peers,
                           pc, view>>

BeginStop ==
    /\ pc = "push" /\ at > Len(data.msgs)
    /\ todo' = data.closed
    /\ pc' = "stop"
    /\ UNCHANGED <<containers, data, closing, at, ready, connects, peers, view>>

(* StopReceiving, one fd: a connection with unsent data lingers.            *)
BugPopAtOnce(fd) == FALSE
Lingers(fd) == BufferFor(fd).outgoing # 0

StopReceiving ==
    /\ pc = "stop" /\ todo # <<>>
    /\ LET fd == Head(todo) IN
       IF fd \notin Held THEN Fail
       ELSE /\ IF Lingers(fd)
               THEN /\ pollfds' = [pollfds EXCEPT ![fdMap[fd] + 1].in = FALSE]
                    /\ connections' =
                         [connections EXCEPT ![fdMap[fd]].incoming = <<>>]
                    /\ UNCHANGED <<fdMap, peers>>
               ELSE Pop(fd)
            /\ todo' = Tail(todo)
            /\ UNCHANGED <<data, closing, at, ready, connects, pc, view>>

BeginPoll ==
    /\ pc = "stop" /\ todo = <<>>
    /\ pc' = "poll"
    /\ UNCHANGED <<containers, local, peers>>
    /\ view' = Seen'

-----------------------------------------------------------------------------
(* poll.  POLLIN is reported where it is asked for and there is something   *)
(* to read, the end of the stream included; POLLERR also elsewhere.         *)
MustRead == {fd \in Held : /\ PollfdFor(fd).in
                           /\ \/ peers[fd].arrived # <<>>
                              \/ peers[fd].state = "left"}
MayRead  == {fd \in Held : PollfdFor(fd).in \/ peers[fd].state = "left"}
MayWrite == {fd \in Held : PollfdFor(fd).out}

(* UpdateBuffers starts with empty results. *)
BugClosedKept(d) == [d EXCEPT !.msgs = <<>>]
Cleared(d) == [d EXCEPT !.msgs = <<>>, !.closed = <<>>]

PollReady ==
    /\ pc = "poll"
    /\ closing => connections # <<>>
    /\ \E in \in SUBSET MayRead, out \in SUBSET MayWrite, new \in BOOLEAN :
          /\ MustRead \subseteq in
          /\ new => pollfds[1].in /\ Cardinality(Held) < Cardinality(Fds)
          /\ in # {} \/ out # {} \/ new
          /\ ready' = [in |-> in, out |-> out]
          /\ connects' = new
    /\ data' = Cleared(data)
    /\ at' = 1
    /\ pc' = "read"
    /\ UNCHANGED <<containers, closing, todo, peers, view>>

(* The timeout, which Close does not set. *)
PollTimeout ==
    /\ pc = "poll" /\ ~closing
    /\ MustRead = {}
    /\ pc' = "idle"
    /\ UNCHANGED <<containers, local, peers>>
    /\ view' = Seen'

-----------------------------------------------------------------------------
(* UpdateBuffers at connection i = at: Receive and PopMessage.              *)
Here == connections[at]
Reported == PollfdOf(at).fd         \* the fd as UpdateBuffers sees it

SkipRead ==
    /\ pc = "read" /\ at \in Indices
    /\ Reported \notin ready.in
    /\ pc' = "write"
    /\ UNCHANGED <<containers, local, peers, view>>

Receive ==
    /\ pc = "read" /\ at \in Indices
    /\ Reported \in ready.in
    /\ peers[Here.fd].arrived # <<>> \/ peers[Here.fd].state = "up"
    /\ \E n \in 0 .. Len(peers[Here.fd].arrived) :
       LET arrived  == peers[Here.fd].arrived
           incoming == Here.incoming \o SubSeq(arrived, 1, n)
       IN  /\ peers' = [peers EXCEPT ![Here.fd].arrived =
                                        SubSeq(arrived, n + 1, Len(arrived))]
           /\ IF incoming = <<>>
              THEN UNCHANGED <<connections, data>>
              ELSE /\ connections' = [connections EXCEPT ![at].incoming = Tail(incoming)]
                   /\ data' = [data EXCEPT !.msgs =
                                  Append(@, To(Reported, Head(incoming)))]
    /\ pc' = "write"
    /\ UNCHANGED <<pollfds, fdMap, closing, todo, at, ready, connects, view>>

(* The peer has closed or reset the connection; what it sent before a reset *)
(* may be lost.                                                             *)
ReceiveEnd ==
    /\ pc = "read" /\ at \in Indices
    /\ Reported \in ready.in
    /\ peers[Here.fd].state = "left"
    /\ data' = [data EXCEPT !.closed = Append(@, Reported)]
    /\ at' = at + 1
    /\ UNCHANGED <<containers, closing, todo, ready, connects, peers, pc, view>>

(* The same connection: Send.                                               *)
SkipWrite ==
    /\ pc = "write"
    /\ Reported \notin ready.out
    /\ at' = at + 1
    /\ pc' = "read"
    /\ UNCHANGED <<containers, data, closing, todo, ready, connects, peers, view>>

BugNeverPopped(i) == todo
EmptyLingering(i) == IF PollfdOf(i).in THEN todo ELSE Append(todo, PollfdOf(i).fd)

Flush(n) ==
    /\ pc = "write"
    /\ Reported \in ready.out
    /\ n <= Here.outgoing
    /\ connections' = [connections EXCEPT ![at].outgoing = @ - n]
    /\ IF n = Here.outgoing
       THEN /\ pollfds' = [pollfds EXCEPT ![at + 1].out = FALSE]
            /\ todo' = EmptyLingering(at)
       ELSE UNCHANGED <<pollfds, todo>>
    /\ at' = at + 1
    /\ pc' = "read"
    /\ UNCHANGED <<fdMap, data, closing, ready, connects, peers, view>>

SendFails ==
    /\ pc = "write"
    /\ Reported \in ready.out
    /\ peers[Here.fd].state = "left"
    /\ data' = [data EXCEPT !.closed = Append(@, Reported)]
    /\ at' = at + 1
    /\ pc' = "read"
    /\ UNCHANGED <<containers, closing, todo, ready, connects, peers, view>>

(* The end of UpdateBuffers: emptied and lost connections are popped.       *)
BeginPop ==
    /\ pc = "read" /\ at \notin Indices
    /\ todo' = todo \o data.closed
    /\ at' = 1 /\ ready' = [in |-> {}, out |-> {}]
    /\ pc' = "pop"
    /\ UNCHANGED <<containers, data, closing, connects, peers, view>>

PopNext ==
    /\ pc = "pop" /\ todo # <<>>
    /\ IF Head(todo) \notin Held THEN Fail
       ELSE /\ Pop(Head(todo))
            /\ todo' = Tail(todo)
            /\ UNCHANGED <<data, closing, at, ready, connects, pc, view>>

-----------------------------------------------------------------------------
(* UpdateListening and Push, and the return of Update: to the caller, or to *)
(* Close, which takes any change for an error.                              *)
Accept(fd) ==
    /\ pollfds' = Append(pollfds, Pollfd(fd))
    /\ connections' = Append(connections, Buffer(fd))
    /\ fdMap' = [f \in Held \cup {fd} |->
                    IF f = fd THEN Len(connections) + 1 ELSE fdMap[f]]
    /\ peers' = [peers EXCEPT ![fd] = [state |-> "up", arrived |-> <<>>]]
    /\ data' = [data EXCEPT !.opened = fd]

InUse == {fd \in Fds : peers[fd].state # "none"}

UpdateListening ==
    /\ pc = "pop" /\ todo = <<>>
    /\ IF closing /\ (data.msgs # <<>> \/ data.closed # <<>>)
       THEN Fail
       ELSE /\ IF connects
               THEN Accept(Min(Free(InUse)))
               ELSE /\ data' = [data EXCEPT !.opened = NoFd]
                    /\ UNCHANGED <<containers, peers>>
            /\ pc' = IF closing THEN "poll" ELSE "idle"
            /\ connects' = FALSE
            /\ UNCHANGED <<closing, todo, at, ready>>
            /\ view' = AnyOrder(Seen')

ReturnClose ==
    /\ pc = "poll" /\ closing /\ connections = <<>>
    /\ pc' = "closed"
    /\ UNCHANGED <<containers, local, peers>>
    /\ view' = Seen'

(* poll, read, write or accept fails with another errno than those of a    *)
(* connection that is gone.                                                 *)
InSystemCall ==
    \/ pc = "poll" /\ (closing => connections # <<>>)
    \/ pc = "read" /\ at \in Indices /\ Reported \in ready.in
    \/ pc = "write" /\ Reported \in ready.out
    \/ pc = "pop" /\ todo = <<>> /\ connects

SystemCallFails == InSystemCall /\ Fail

-----------------------------------------------------------------------------
(* The peers.  What one does shows only in poll, read and write; a step of  *)
(* a peer at any other time stands with those it takes in the next poll.    *)
Watched == pc \in {"poll", "read", "write"}

NotPopped(fd) == Len(peers[fd].arrived)
                    + (IF fd \in Held THEN Len(BufferFor(fd).incoming) ELSE 0)

PeerSends(fd) ==
    /\ Watched /\ peers[fd].state = "up"
    /\ NotPopped(fd) < MaxArrived
    /\ peers' = [peers EXCEPT ![fd].arrived = Append(@, fd)]
    /\ UNCHANGED <<containers, local, pc, view>>

PeerLeaves(fd) ==
    /\ Watched /\ peers[fd].state = "up"
    /\ peers' = [peers EXCEPT ![fd].state = "left"]
    /\ UNCHANGED <<containers, local, pc, view>>

Ended      == pc \in {"closed", "error"}
Terminated == Ended /\ UNCHANGED vars

Step ==
    \/ PushBuffer \/ BeginStop \/ StopReceiving \/ BeginPoll
    \/ PollReady \/ PollTimeout \/ SystemCallFails
    \/ SkipRead \/ Receive \/ ReceiveEnd \/ SkipWrite \/ SendFails
    \/ \E n \in 0 .. MaxUnsent : Flush(n)
    \/ BeginPop \/ PopNext \/ UpdateListening \/ ReturnClose

Next ==
    \/ CallUpdate \/ CallClose
    \/ Step
    \/ \E fd \in Fds : PeerSends(fd) \/ PeerLeaves(fd)
    \/ Terminated

Spec == Init /\ [][Next]_vars

(***************************************************************************)
(* Fairness: the thread goes on and its caller calls Update or Close        *)
(* again.  A peer that does not stop reading for good lets poll report      *)
(* POLLOUT, and the write that follows take all there is, again and again.  *)
(* Nothing is assumed of what peers send.                                   *)
(***************************************************************************)
Writable(fd) == PollReady /\ fd \in ready'.out
Drains(fd)   == \E n \in 0 .. MaxUnsent :
                   Flush(n) /\ Reported = fd /\ n = Here.outgoing

Fairness ==
    /\ WF_vars(Step)
    /\ WF_vars(CallUpdate \/ CallClose)
    /\ \A fd \in Fds : SF_vars(Writable(fd)) /\ SF_vars(Drains(fd))

FairSpec == Spec /\ Fairness

-----------------------------------------------------------------------------
(* Types: fdMap holds indices, and no container outgrows the descriptors.   *)
StoreTypeOK ==
    /\ \A fd \in Held : fd \in Fds /\ fdMap[fd] \in Indices
    /\ pollfds \in Seq([fd : Fds \cup {NoFd}, in : BOOLEAN, out : BOOLEAN])
    /\ connections \in Seq([fd : Fds, incoming : Seq(Fds), outgoing : 0 .. MaxUnsent])
    /\ Len(connections) <= Cardinality(Fds)
    /\ data \in UpdateDatas /\ todo \in Seq(Fds)
    /\ pc \in {"idle", "push", "stop", "poll", "read", "write", "pop",
               "closed", "error"}

(* The three containers describe the same connections under the same        *)
(* indices, at every step of a removal of several; no descriptor is open    *)
(* that is in none of them; and what UpdateBuffers has collected to remove  *)
(* is there to be removed, once.                                            *)
InStep ==
    /\ Len(pollfds) = Len(connections) + 1
    /\ Cardinality(Held) = Len(connections)
    /\ \A i \in Indices : LET fd == connections[i].fd IN
          PollfdOf(i).fd = fd /\ fd \in Held /\ fdMap[fd] = i
    /\ InUse = Held
    /\ pc = "pop" => IsInjective(todo) /\ ToSet(todo) \subseteq Held

(* Update returns a message with the fd of the connection it came in on     *)
(* (each peer sends its own fd), wherever the buffers have moved since.     *)
RightSender == \A i \in DOMAIN data.msgs : data.msgs[i].content = data.msgs[i].fd

(* When poll is called, POLLOUT is asked for exactly where there is data to *)
(* send (the case UpdateBuffers takes for a left over flag does not occur), *)
(* and a connection that is no longer read has some: it will be woken up.   *)
FlagsMatch ==
    pc = "poll" => \A i \in Indices :
        /\ PollfdOf(i).out <=> connections[i].outgoing # 0
        /\ PollfdOf(i).in \/ connections[i].outgoing # 0

(* ConnectionStore.h:41: a connection leaves the store only when all that   *)
(* was pushed to it is written, or its peer is gone, or the store fails.    *)
NothingCut ==
    [][pc' # "error" =>
          \A fd \in Held \ Held' :
              BufferFor(fd).outgoing = 0 \/ peers[fd].state = "left"]_vars

(* Between its calls the store takes the steps Server is built on: what it  *)
(* returns, keeps, closes and opens is what AbstractStore allows.  view     *)
(* changes where the caller gives or gets something.                        *)
Abstract == INSTANCE AbstractStore WITH
    receiving <- view.receiving, sending <- view.sending,
    updateData <- view.data, phase <- view.phase,
    ClientMessages <- Fds, Faults <- FaultKinds, MaxBatch <- Cardinality(Fds)

Implements == Abstract!StoreSpec

(* A connection that is no longer read goes away when its data can be       *)
(* written, whatever else the store is asked to do.                         *)
LingeringGoes ==
    \A fd \in Fds : (fd \in Held /\ ~PollfdFor(fd).in) ~> (fd \notin Held)

(* ConnectionStore.h:33 "Return received messages and closed ids in the     *)
(* same argument.": while a message the store has received waits in its     *)
(* buffer, Update goes on returning messages of that connection.            *)
Waits(fd)    == fd \in Held /\ BufferFor(fd).incoming # <<>>
Returned(fd) == pc = "pop" /\ fd \in Addressed(data)
MessageReturned ==
    \A fd \in Fds : Waits(fd) ~> (Returned(fd) \/ ~Waits(fd))
=============================================================================
