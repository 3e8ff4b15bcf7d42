-------------------------- MODULE StoreRefinement ---------------------------
(***************************************************************************)
(* ConnectionStore implements AbstractStore: what Server is built on is    *)
(* what the store does, for every set of descriptors and every caller.     *)
(*                                                                         *)
(* The store reads, writes and removes one connection at a time, while the *)
(* abstract steps change everything at once.  ViewRight says, for each      *)
(* place the thread may be at, what has changed since view: in push and    *)
(* stop what of updateData has been handed over, in read, write and pop    *)
(* what has been collected to be returned.                                  *)
(***************************************************************************)
EXTENDS StoreProofs

-----------------------------------------------------------------------------
(* What the caller knew: the connections of view.                           *)
Known == view.receiving \cup view.sending

AtRest ==
    pc \in {"idle", "poll", "closed", "error"} =>
        /\ view.receiving = Receiving /\ view.sending = Sending
        /\ view.phase = Phase
        /\ pc = "poll" => view.data = Seen.data

(* While Close runs the store reads nothing and accepts nobody.             *)
InClose ==
    closing => /\ ~pollfds[1].in
               /\ pc \in {"stop", "poll", "read", "write", "pop", "closed"}
               /\ pc # "stop" => Receiving = {}

(* The messages before the index PushBuffers is at have been queued.        *)
PushedTo == {data.msgs[i].fd : i \in {j \in DOMAIN data.msgs : j < at}}
Pushing ==
    pc = "push" =>
        /\ view.phase = "idle" /\ data \in Inputs
        /\ Held = Known /\ Receiving = view.receiving
        /\ Sending = view.sending \cup PushedTo

(* The fds to close before the head of todo are no longer polled for input; *)
(* those with nothing to send are gone, and so were named once.             *)
Through == 1 .. Len(data.closed) - Len(todo)
Closed  == {data.closed[i] : i \in Through}
Stopping ==
    pc = "stop" /\ ~closing =>
        /\ view.phase = "idle" /\ data \in Inputs
        /\ Len(todo) <= Len(data.closed)
        /\ \A i \in DOMAIN todo :
              todo[i] = data.closed[Len(data.closed) - Len(todo) + i]
        /\ Addressed(data) \cup Closed \subseteq Known
        /\ Sending = view.sending \cup Addressed(data)
        /\ Receiving = view.receiving \ Closed
        /\ Held = Known \ (Closed \ Sending)
        /\ \A i, j \in Through :
              i # j /\ data.closed[i] = data.closed[j] => data.closed[i] \in Sending

(* Close calls StopReceiving once for each connection.                      *)
StoppingAll ==
    pc = "stop" /\ closing =>
        /\ view.phase = "idle"
        /\ IsInjective(todo) /\ ToSet(todo) \subseteq Held
        /\ Receiving \subseteq ToSet(todo) /\ Sending = view.sending

(* What UpdateBuffers has found so far: messages of connections that were   *)
(* read, each once, and lost connections, which it will pop.                *)
Reporting ==
    Updating =>
        /\ view.phase = IF closing THEN "closing" ELSE "poll"
        /\ closing => /\ ~connects /\ view.sending # {}
                      /\ view.receiving = {} /\ view.data = NoUpdate
        /\ connects \/ Known # {}
        /\ Held \subseteq Known /\ view.receiving \ ToSet(data.closed) \subseteq Held
        /\ Receiving = view.receiving \cap Held /\ Sending \subseteq view.sending
        /\ Addressed(data) \cup ToSet(data.closed) \subseteq Known
        /\ \A i, j \in DOMAIN data.msgs : data.msgs[i].fd = data.msgs[j].fd => i = j
        /\ Addressed(data) \cap ToSet(data.closed) \subseteq view.sending
        /\ ToSet(todo) \cap Receiving \subseteq ToSet(data.closed)

(* The connections before the index UpdateBuffers is at have been read.     *)
Reading ==
    pc \in {"read", "write"} =>
        /\ Held = Known /\ ready.out \subseteq view.sending
        /\ \A fd \in Addressed(data) :
              fdMap[fd] < at \/ (pc = "write" /\ fdMap[fd] = at)
Popping ==
    pc = "pop" => ToSet(data.closed) \cap Held \subseteq ToSet(todo)

ViewRight == /\ AtRest /\ InClose /\ Pushing /\ Stopping /\ StoppingAll
             /\ Reporting /\ Reading /\ Popping

-----------------------------------------------------------------------------
(* AbstractStore has the vocabulary of Network and of the community modules. *)
LEMMA SameNames ==
  /\ Abstract!NoUpdate = NoUpdate
  /\ \A d : Abstract!Addressed(d) = Addressed(d)
  /\ \A s : Abstract!ToSet(s) = ToSet(s)
  /\ \A S : Abstract!SetToSeq(S) = SetToSeq(S)
  /\ \A S : Abstract!Min(S) = Min(S)
  /\ \A S : Abstract!Free(S) = Free(S)
  /\ \A f : Abstract!IsInjective(f) = IsInjective(f)
  /\ \A a, b : Abstract!To(a, b) = To(a, b)
<1>1. Abstract!NoUpdate = NoUpdate
  BY DEF Abstract!NoUpdate, NoUpdate
<1>2. \A d : Abstract!Addressed(d) = Addressed(d)
  BY DEF Abstract!Addressed, Addressed
<1>3. \A s : Abstract!ToSet(s) = ToSet(s)
  BY DEF Abstract!ToSet, ToSet
<1>4. \A f : Abstract!IsInjective(f) = IsInjective(f)
  BY DEF Abstract!IsInjective, IsInjective
<1>5. \A S : Abstract!SetToSeq(S) = SetToSeq(S)
  <2>1. \A S : Abstract!Cardinality(S) = Cardinality(S)
    BY Zenon DEF Abstract!Cardinality, Cardinality
  <2> QED BY <2>1, Zenon DEF Abstract!SetToSeq, SetToSeq, Abstract!IsInjective, IsInjective
<1>6. \A S : Abstract!Min(S) = Min(S)
  BY DEF Abstract!Min, Min
<1>7. \A S : Abstract!Free(S) = Free(S)
  BY DEF Abstract!Free, Free
<1>8. \A a, b : Abstract!To(a, b) = To(a, b)
  BY DEF Abstract!To, To
<1> QED BY <1>1, <1>2, <1>3, <1>4, <1>5, <1>6, <1>7, <1>8

-----------------------------------------------------------------------------
(* The two sets the caller sees, fd by fd.                                  *)
Sides ==
    /\ Receiving = {fd \in Held : PollfdFor(fd).in}
    /\ Sending   = {fd \in Held : BufferFor(fd).outgoing # 0}

(* The containers are in step, so it does not matter which one is asked.    *)
LEMMA SidesRight == StoreInv => Sides
<1> SUFFICES ASSUME StoreInv PROVE Sides
  OBVIOUS
<1>1. /\ \A fd \in Held : fdMap[fd] \in Indices /\ connections[fdMap[fd]].fd = fd
      /\ \A i \in Indices : /\ connections[i].fd \in Held
                            /\ fdMap[connections[i].fd] = i
                            /\ PollfdOf(i).fd = connections[i].fd
  BY DEF StoreInv, Aligned
<1>2. \A i \in Indices : /\ PollfdOf(i) = PollfdFor(connections[i].fd)
                         /\ connections[i] = BufferFor(connections[i].fd)
  BY <1>1 DEF PollfdFor, BufferFor
<1>3. Receiving = {fd \in Held : PollfdFor(fd).in}
  <2>1. ASSUME NEW fd \in Receiving PROVE fd \in Held /\ PollfdFor(fd).in
    <3>1. PICK i \in Indices : PollfdOf(i).in /\ fd = PollfdOf(i).fd
      BY <2>1 DEF Receiving
    <3> QED BY <1>1, <1>2, <3>1
  <2>2. ASSUME NEW fd \in Held, PollfdFor(fd).in PROVE fd \in Receiving
    <3>1. PICK i : i = fdMap[fd]
      OBVIOUS
    <3>2. i \in Indices /\ PollfdOf(i).in /\ PollfdOf(i).fd = fd
      BY <1>1, <2>2, <3>1 DEF PollfdFor
    <3> QED BY <3>2 DEF Receiving
  <2> QED BY <2>1, <2>2
<1>4. Sending = {fd \in Held : BufferFor(fd).outgoing # 0}
  <2>1. ASSUME NEW fd \in Sending PROVE fd \in Held /\ BufferFor(fd).outgoing # 0
    <3>1. PICK i \in Indices : connections[i].outgoing # 0 /\ fd = connections[i].fd
      BY <2>1 DEF Sending
    <3> QED BY <1>1, <1>2, <3>1
  <2>2. ASSUME NEW fd \in Held, BufferFor(fd).outgoing # 0 PROVE fd \in Sending
    <3>1. PICK i : i = fdMap[fd]
      OBVIOUS
    <3>2. i \in Indices /\ connections[i].outgoing # 0 /\ connections[i].fd = fd
      BY <1>1, <2>2, <3>1 DEF BufferFor
    <3> QED BY <3>2 DEF Sending
  <2> QED BY <2>1, <2>2
<1> QED BY <1>3, <1>4 DEF Sides

(* A connection that is held is polled for input or has unsent data, unless *)
(* it is about to be popped.                                                *)
LEMMA EachOnOneSide ==
  ASSUME StoreInv
  PROVE  /\ Sides /\ Receiving \subseteq Held /\ Sending \subseteq Held
         /\ Held \subseteq Receiving \cup Sending \cup (IF Updating THEN ToSet(todo) ELSE {})
<1>1. Sides
  BY SidesRight
<1>2. \A fd \in Held : \/ PollfdFor(fd).in \/ BufferFor(fd).outgoing # 0
                       \/ Updating /\ fd \in ToSet(todo)
  BY DEF StoreInv, Polled
<1> QED BY <1>1, <1>2 DEF Sides

(* Steps that leave the containers alone.                                   *)
LEMMA SidesKept ==
  ASSUME UNCHANGED containers
  PROVE  Held' = Held /\ Receiving' = Receiving /\ Sending' = Sending
BY DEF containers, Held, Receiving, Sending, Indices, PollfdOf

(* An empty store has no connection on either side.                         *)
LEMMA SidesEmpty ==
  ASSUME connections' = <<>>
  PROVE  Receiving' = {} /\ Sending' = {}
BY DEF Receiving, Sending, Indices

(* Pop takes one connection from both sides, and not the listening socket.  *)
LEMMA PopSides ==
  ASSUME StoreInv, NEW fd \in Held, Pop(fd), Sides'
  PROVE  /\ Held' = Held \ {fd} /\ Receiving' = Receiving \ {fd}
         /\ Sending' = Sending \ {fd}
         /\ pollfds'[1] = pollfds[1]
<1>1. Held' = Held \ {fd} /\ \A g \in Held' : SameFor(g)
  BY PopAligned DEF StoreInv
<1>2. Sides
  BY SidesRight
<1>3. Receiving' = Receiving \ {fd}
  <2>1. \A g \in Held' : PollfdFor(g)' = PollfdFor(g)
    BY <1>1 DEF SameFor
  <2>2. Receiving' = {g \in Held' : PollfdFor(g)'.in}
    BY DEF Sides
  <2>3. Receiving = {g \in Held : PollfdFor(g).in}
    BY <1>2 DEF Sides
  <2> QED BY <1>1, <2>1, <2>2, <2>3
<1>4. Sending' = Sending \ {fd}
  <2>1. \A g \in Held' : BufferFor(g)' = BufferFor(g)
    BY <1>1 DEF SameFor
  <2>2. Sending' = {g \in Held' : BufferFor(g)'.outgoing # 0}
    BY DEF Sides
  <2>3. Sending = {g \in Held : BufferFor(g).outgoing # 0}
    BY <1>2 DEF Sides
  <2> QED BY <1>1, <2>1, <2>2, <2>3
<1>5. pollfds'[1] = pollfds[1]
  <2>1. PICK k : k = fdMap[fd]
    OBVIOUS
  <2>2. k \in Indices /\ Len(pollfds) = Len(connections) + 1 /\ pollfds \in Seq(PollfdType)
    BY <2>1 DEF StoreInv, Aligned, Typed
  <2>3. Indices = 1 .. Len(connections) /\ Len(connections) \in Nat
    BY DEF StoreInv, Typed, Indices
  <2>4. pollfds' = MovedInto(pollfds, k + 1) /\ k + 1 \in DOMAIN pollfds
    BY <2>1, <2>2, <2>3 DEF Pop
  <2>5. \A j \in 1 .. Len(pollfds) - 1 :
           pollfds'[j] = IF j = k + 1 THEN pollfds[Len(pollfds)] ELSE pollfds[j]
    BY <2>2, <2>4, MovedIntoIs
  <2> QED BY <2>2, <2>3, <2>5
<1> QED BY <1>1, <1>3, <1>4, <1>5

(* One pollfd and one buffer change in their places.                        *)
LEMMA SidesInPlace ==
  ASSUME StoreInv, Sides', fdMap' = fdMap, NEW o \in Held, NEW p, NEW c,
         pollfds' = [pollfds EXCEPT ![fdMap[o] + 1] = p],
         connections' = [connections EXCEPT ![fdMap[o]] = c]
  PROVE  /\ Held' = Held
         /\ Receiving' = IF p.in THEN Receiving \cup {o} ELSE Receiving \ {o}
         /\ Sending' = IF c.outgoing # 0 THEN Sending \cup {o} ELSE Sending \ {o}
         /\ pollfds'[1] = pollfds[1]
<1>1. /\ \A fd \in Held : fdMap[fd] \in 1 .. Len(connections)
      /\ \A fd \in Held : connections[fdMap[fd]].fd = fd
      /\ Len(connections) \in Nat
      /\ DOMAIN connections = 1 .. Len(connections)
      /\ DOMAIN pollfds = 1 .. Len(connections) + 1
  BY DEF StoreInv, Aligned, Typed, Indices
<1>2. Held' = Held
  BY DEF Held
<1>3. \A fd \in Held : fd # o => fdMap[fd] # fdMap[o]
  BY <1>1
<1>4. ASSUME NEW fd \in Held
      PROVE  /\ PollfdFor(fd)' = IF fd = o THEN p ELSE PollfdFor(fd)
             /\ BufferFor(fd)' = IF fd = o THEN c ELSE BufferFor(fd)
  <2>1. PollfdFor(fd)' = pollfds'[fdMap[fd] + 1] /\ BufferFor(fd)' = connections'[fdMap[fd]]
    BY DEF PollfdFor, PollfdOf, BufferFor
  <2>2. /\ fdMap[fd] \in 1 .. Len(connections) /\ fdMap[o] \in 1 .. Len(connections)
        /\ fdMap[fd] + 1 \in DOMAIN pollfds /\ fdMap[fd] \in DOMAIN connections
        /\ (fdMap[fd] + 1 = fdMap[o] + 1 <=> fd = o)
    BY <1>1, <1>3
  <2> QED BY <2>1, <2>2 DEF PollfdFor, PollfdOf, BufferFor
<1>5. Sides
  BY SidesRight
<1>6. Receiving' = {fd \in Held : PollfdFor(fd)'.in}
  BY <1>2 DEF Sides
<1>7. Sending' = {fd \in Held : BufferFor(fd)'.outgoing # 0}
  BY <1>2 DEF Sides
<1>8. Receiving' = IF p.in THEN Receiving \cup {o} ELSE Receiving \ {o}
  BY <1>4, <1>5, <1>6 DEF Sides
<1>9. Sending' = IF c.outgoing # 0 THEN Sending \cup {o} ELSE Sending \ {o}
  BY <1>4, <1>5, <1>7 DEF Sides
<1>10. pollfds'[1] = pollfds[1]
  <2>1. fdMap[o] + 1 # 1 /\ 1 \in DOMAIN pollfds
    BY <1>1
  <2> QED BY <2>1
<1> QED BY <1>2, <1>8, <1>9, <1>10

(* A connection that is stopped is no longer polled for input; with nothing *)
(* to send it is gone.                                                      *)
LEMMA StopSides ==
  ASSUME StoreInv, Sides', NEW o \in Held,
         IF Lingers(o)
         THEN /\ pollfds' = [pollfds EXCEPT ![fdMap[o] + 1].in = FALSE]
              /\ connections' = [connections EXCEPT ![fdMap[o]].incoming = <<>>]
              /\ fdMap' = fdMap
         ELSE Pop(o)
  PROVE  /\ Sending' = Sending /\ Receiving' = Receiving \ {o}
         /\ Held' = (IF o \in Sending THEN Held ELSE Held \ {o})
         /\ pollfds'[1] = pollfds[1]
<1>1. Lingers(o) <=> o \in Sending
  BY SidesRight DEF Sides, Lingers
<1>2. CASE Lingers(o)
  <2>p. PICK p : p = [PollfdFor(o) EXCEPT !.in = FALSE]
    OBVIOUS
  <2>c. PICK c : c = [BufferFor(o) EXCEPT !.incoming = <<>>]
    OBVIOUS
  <2>1. /\ pollfds' = [pollfds EXCEPT ![fdMap[o] + 1] = p] /\ fdMap' = fdMap
        /\ connections' = [connections EXCEPT ![fdMap[o]] = c]
    BY <1>2, <2>p, <2>c DEF PollfdFor, PollfdOf, BufferFor
  <2>2. ~p.in /\ c.outgoing = BufferFor(o).outgoing
    <3>1. BufferFor(o) \in BufferType /\ PollfdFor(o) \in PollfdType
      BY Connection
    <3> QED BY <2>p, <2>c, <3>1 DEF BufferType, PollfdType
  <2>3. c.outgoing # 0
    BY <1>2, <2>2 DEF Lingers
  <2>4. /\ Held' = Held /\ pollfds'[1] = pollfds[1]
        /\ Receiving' = IF p.in THEN Receiving \cup {o} ELSE Receiving \ {o}
        /\ Sending' = IF c.outgoing # 0 THEN Sending \cup {o} ELSE Sending \ {o}
    BY <2>1, SidesInPlace
  <2> QED BY <1>1, <1>2, <2>2, <2>3, <2>4
<1>3. CASE ~Lingers(o)
  BY <1>1, <1>3, PopSides
<1> QED BY <1>2, <1>3

(* A new connection is polled for input and has nothing to send.            *)
LEMMA AcceptSides ==
  ASSUME StoreInv, NEW fd \in Fds \ Held, Accept(fd), Sides'
  PROVE  /\ Held' = Held \cup {fd} /\ Receiving' = Receiving \cup {fd}
         /\ Sending' = Sending /\ pollfds'[1] = pollfds[1]
<1>1. /\ Held' = Held \cup {fd} /\ \A g \in Held : SameFor(g)
      /\ BufferFor(fd)' = Buffer(fd) /\ PollfdFor(fd)' = Pollfd(fd)
  BY AcceptAligned DEF StoreInv
<1>2. Sides
  BY SidesRight
<1>3. Receiving' = Receiving \cup {fd}
  <2>1. Receiving' = {g \in Held' : PollfdFor(g)'.in} /\ Pollfd(fd).in
    BY DEF Sides, Pollfd
  <2>2. Receiving = {g \in Held : PollfdFor(g).in}
    BY <1>2 DEF Sides
  <2>3. \A g \in Held : PollfdFor(g)' = PollfdFor(g)
    BY <1>1 DEF SameFor
  <2> QED BY <1>1, <2>1, <2>2, <2>3
<1>4. Sending' = Sending
  <2>1. Sending' = {g \in Held' : BufferFor(g)'.outgoing # 0} /\ Buffer(fd).outgoing = 0
    BY DEF Sides, Buffer
  <2>2. Sending = {g \in Held : BufferFor(g).outgoing # 0}
    BY <1>2 DEF Sides
  <2>3. \A g \in Held : BufferFor(g)' = BufferFor(g)
    BY <1>1 DEF SameFor
  <2> QED BY <1>1, <2>1, <2>2, <2>3
<1>5. pollfds'[1] = pollfds[1]
  <2>1. pollfds \in Seq(PollfdType) /\ Len(pollfds) \in Nat \ {0}
        /\ pollfds' = Append(pollfds, Pollfd(fd))
    BY DEF StoreInv, Typed, Aligned, Accept
  <2> QED BY <2>1
<1> QED BY <1>1, <1>3, <1>4, <1>5

-----------------------------------------------------------------------------
(* The program fails: the caller is told, and knows nothing any more.       *)
Lost == view' = [receiving |-> {}, sending |-> {}, phase |-> "error", data |-> NoUpdate]

(* Every error is the end, wherever the thread was.                         *)
LEMMA FailView ==
  ASSUME Fail
  PROVE  ViewRight' /\ Lost
<1>1. /\ connections' = <<>> /\ data' = NoUpdate /\ closing' = FALSE /\ pc' = "error"
      /\ view' = Seen'
  BY DEF Fail
<1>2. Receiving' = {} /\ Sending' = {}
  BY <1>1, SidesEmpty
<1>3. Lost
  BY <1>1, <1>2 DEF Lost, Seen, Phase
<1>4. AtRest'
  BY <1>1, <1>2, <1>3 DEF AtRest, Lost, Phase
<1>5. InClose' /\ Pushing' /\ Stopping' /\ StoppingAll' /\ Reporting' /\ Reading' /\ Popping'
  BY <1>1 DEF InClose, Pushing, Stopping, StoppingAll, Reporting, Reading, Popping, Updating
<1> QED BY <1>3, <1>4, <1>5 DEF ViewRight

(* Update is called.                                                        *)
LEMMA CallUpdateView ==
  ASSUME StoreInv, ViewRight, CallUpdate
  PROVE  ViewRight'
<1>1. /\ pc = "idle" /\ pc' = "push" /\ at' = 1 /\ data' \in Inputs
      /\ UNCHANGED <<containers, closing, todo, view>>
  BY DEF CallUpdate
<1>2. Held' = Held /\ Receiving' = Receiving /\ Sending' = Sending
  BY <1>1, SidesKept
<1>3. Held = Receiving \cup Sending
  <2>1. ~Updating
    BY <1>1 DEF Updating
  <2> QED BY <2>1, EachOnOneSide
<1>4. /\ view.receiving = Receiving /\ view.sending = Sending /\ view.phase = "idle"
      /\ ~closing
  BY <1>1 DEF ViewRight, AtRest, InClose, Phase
<1>5. PushedTo' = {}
  <2>1. data'.msgs \in Seq([fd : Fds, content : Fds])
    BY <1>1, StoreAssumption DEF UpdateDatas
  <2>2. ~ \E j \in DOMAIN data'.msgs : j < 1
    BY <2>1
  <2> QED BY <1>1, <2>2 DEF PushedTo
<1>6. Pushing'
  BY <1>1, <1>2, <1>3, <1>4, <1>5 DEF Pushing, Known
<1>7. /\ AtRest' /\ InClose' /\ Stopping' /\ StoppingAll' /\ Reporting' /\ Reading'
      /\ Popping'
  BY <1>1, <1>4 DEF AtRest, InClose, Stopping, StoppingAll, Reporting, Reading, Popping,
                    Updating
<1> QED BY <1>6, <1>7 DEF ViewRight

(* Close is called, with every connection on its list, once.                *)
LEMMA CallCloseView ==
  ASSUME StoreInv, Sides', ViewRight, CallClose
  PROVE  ViewRight'
<1>1. /\ pc = "idle" /\ pc' = "stop" /\ closing' = TRUE
      /\ connections' = connections /\ fdMap' = fdMap /\ view' = view
      /\ todo' = [i \in Indices |-> PollfdOf(i).fd]
      /\ pollfds' = [pollfds EXCEPT ![1].in = FALSE]
  BY DEF CallClose
<1>2. /\ \A fd \in Held : fdMap[fd] \in Indices /\ PollfdOf(fdMap[fd]).fd = fd
      /\ \A i \in Indices : PollfdOf(i).fd \in Held /\ fdMap[PollfdOf(i).fd] = i
  BY DEF StoreInv, Aligned
<1>3. IsInjective(todo') /\ ToSet(todo') = Held
  <2>1. DOMAIN todo' = Indices /\ \A i \in Indices : todo'[i] = PollfdOf(i).fd
    BY <1>1
  <2>2. IsInjective(todo')
    BY <1>2, <2>1 DEF IsInjective
  <2>3. ToSet(todo') \subseteq Held
    BY <1>2, <2>1 DEF ToSet
  <2>4. Held \subseteq ToSet(todo')
    BY <1>2, <2>1 DEF ToSet
  <2> QED BY <2>2, <2>3, <2>4
<1>4. /\ pollfds \in Seq(PollfdType) /\ 1 \in DOMAIN pollfds /\ pollfds[1] \in PollfdType
  BY DEF StoreInv, Typed, Aligned
<1>5. ~pollfds'[1].in
  BY <1>1, <1>4 DEF PollfdType
<1>6. Held' = Held /\ Sending' = Sending
  BY <1>1 DEF Held, Sending, Indices
<1>7. Receiving' \subseteq Held
  BY <1>6 DEF Sides
<1>8. view.sending = Sending /\ view.phase = "idle"
  BY <1>1 DEF ViewRight, AtRest, Phase
<1>9. StoppingAll' /\ InClose'
  BY <1>1, <1>3, <1>5, <1>6, <1>7, <1>8 DEF StoppingAll, InClose
<1>10. AtRest' /\ Pushing' /\ Stopping' /\ Reporting' /\ Reading' /\ Popping'
  BY <1>1 DEF AtRest, Pushing, Stopping, Reporting, Reading, Popping, Updating
<1> QED BY <1>9, <1>10 DEF ViewRight

-----------------------------------------------------------------------------
(* A step of the store is one of AbstractStore, or the caller sees nothing. *)
Mapped == Abstract!StoreNext \/ view' = view

(* A call that names a connection the store does not hold is refused.       *)
LEMMA RefusedMapped ==
  ASSUME data \in Inputs, view.phase = "idle", Lost,
         \/ ~ (Addressed(data) \cup ToSet(data.closed) \subseteq Known)
         \/ \E i, j \in DOMAIN data.closed :
               /\ i # j /\ data.closed[i] = data.closed[j]
               /\ data.closed[i] \notin view.sending \cup Addressed(data)
  PROVE  Mapped
<1>1. Abstract!InStore = Known
  BY DEF Abstract!InStore, Known
<1>2. Abstract!Refused(data)
  BY <1>1, SameNames DEF Abstract!Refused
<1>3. Abstract!Fail
  BY SameNames DEF Abstract!Fail, Lost
<1>4. Abstract!CallUpdate
  BY <1>2, <1>3 DEF Abstract!CallUpdate
<1> QED BY <1>4 DEF Mapped, Abstract!StoreNext

(* PushBuffers, one message: its connection has something to send now.      *)
LEMMA PushBufferView ==
  ASSUME StoreInv, Sides', ViewRight, PushBuffer
  PROVE  ViewRight' /\ Mapped
<1>o. PICK o : o = data.msgs[at].fd
  OBVIOUS
<1>1. /\ pc = "push" /\ at \in DOMAIN data.msgs /\ at \in Nat \ {0}
      /\ DOMAIN data.msgs \subseteq Nat
  <2>1. data.msgs \in Seq([fd : Fds, content : Fds])
    BY DEF StoreInv, Typed, UpdateDatas
  <2>2. pc = "push" /\ at <= Len(data.msgs) /\ at \in Nat \ {0}
    BY DEF PushBuffer, StoreInv, Typed
  <2> QED BY <2>1, <2>2
<1>2. /\ view.phase = "idle" /\ data \in Inputs /\ Held = Known
      /\ Receiving = view.receiving /\ Sending = view.sending \cup PushedTo
  BY <1>1 DEF ViewRight, Pushing
<1>3. CASE o \notin Held
  <2>1. Fail
    BY <1>o, <1>3 DEF PushBuffer
  <2>2. o \in Addressed(data)
    BY <1>o, <1>1 DEF Addressed
  <2> QED BY <1>2, <1>3, <2>1, <2>2, FailView, RefusedMapped
<1>4. CASE o \in Held
  <2>p. PICK p : p = Polling(PollfdFor(o))
    OBVIOUS
  <2>c. PICK c : c = [BufferFor(o) EXCEPT !.outgoing = @ + 1]
    OBVIOUS
  <2>1. /\ UNCHANGED <<fdMap, data, closing, pc, view>> /\ at' = at + 1
        /\ pollfds' = [pollfds EXCEPT ![fdMap[o] + 1] = Polling(@)]
        /\ connections' = [connections EXCEPT ![fdMap[o]].outgoing = @ + 1]
    BY <1>o, <1>4 DEF PushBuffer
  <2>2. /\ pollfds' = [pollfds EXCEPT ![fdMap[o] + 1] = p]
        /\ connections' = [connections EXCEPT ![fdMap[o]] = c]
    BY <2>1, <2>p, <2>c DEF PollfdFor, PollfdOf, BufferFor
  <2>3. p.in = PollfdFor(o).in /\ c.outgoing # 0
    <3>1. BufferFor(o) \in BufferType /\ PollfdFor(o) \in PollfdType
      BY <1>4, Connection
    <3> QED BY <2>p, <2>c, <3>1 DEF BufferType, PollfdType, Polling
  <2>4. /\ Held' = Held /\ Sending' = Sending \cup {o}
        /\ Receiving' = IF p.in THEN Receiving \cup {o} ELSE Receiving \ {o}
    <3>1. fdMap' = fdMap
      BY <2>1
    <3> QED BY <1>4, <2>2, <2>3, <3>1, SidesInPlace
  <2>5. Receiving' = Receiving
    BY <1>4, <2>3, <2>4, SidesRight DEF Sides
  <2>6. PushedTo' = PushedTo \cup {o}
    <3>1. \A j \in DOMAIN data.msgs : j < at + 1 <=> j < at \/ j = at
      BY <1>1
    <3>2. {j \in DOMAIN data.msgs : j < at + 1} = {j \in DOMAIN data.msgs : j < at} \cup {at}
      BY <1>1, <3>1
    <3>3. PushedTo' = {data.msgs[i].fd : i \in {j \in DOMAIN data.msgs : j < at + 1}}
      BY <2>1 DEF PushedTo
    <3> QED BY <1>o, <3>2, <3>3 DEF PushedTo
  <2>7. Pushing'
    BY <1>2, <2>1, <2>4, <2>5, <2>6 DEF Pushing, Known
  <2>8. ~closing
    BY <1>1 DEF ViewRight, InClose
  <2>9. /\ AtRest' /\ InClose' /\ Stopping' /\ StoppingAll' /\ Reporting' /\ Reading'
        /\ Popping'
    BY <1>1, <2>1, <2>8 DEF AtRest, InClose, Stopping, StoppingAll, Reporting, Reading,
                            Popping, Updating
  <2> QED BY <2>1, <2>7, <2>9 DEF ViewRight, Mapped
<1> QED BY <1>3, <1>4

(* All messages have been queued; none of the fds to close has been seen.   *)
LEMMA BeginStopView ==
  ASSUME StoreInv, ViewRight, BeginStop
  PROVE  ViewRight' /\ Mapped
<1>1. /\ pc = "push" /\ pc' = "stop" /\ todo' = data.closed /\ at > Len(data.msgs)
      /\ UNCHANGED <<containers, data, closing, view>>
  BY DEF BeginStop
<1>2. /\ view.phase = "idle" /\ data \in Inputs /\ Held = Known
      /\ Receiving = view.receiving /\ Sending = view.sending \cup PushedTo /\ ~closing
  BY <1>1 DEF ViewRight, Pushing, InClose
<1>3. Held' = Held /\ Receiving' = Receiving /\ Sending' = Sending
  BY <1>1, SidesKept
<1>4. PushedTo = Addressed(data)
  <2>1. data.msgs \in Seq([fd : Fds, content : Fds]) /\ at \in Nat
    BY DEF StoreInv, Typed, UpdateDatas
  <2>2. {j \in DOMAIN data.msgs : j < at} = DOMAIN data.msgs
    BY <1>1, <2>1
  <2> QED BY <2>2 DEF PushedTo, Addressed
<1>5. data.closed \in Seq(Fds)
  BY DEF StoreInv, Typed, UpdateDatas
<1>6. /\ Len(data.closed) \in Nat /\ Len(todo') = Len(data.closed) /\ Through' = {}
      /\ \A i \in DOMAIN todo' : todo'[i] = data.closed[Len(data.closed) - Len(todo') + i]
  BY <1>1, <1>5 DEF Through
<1>7. Closed' = {}
  BY <1>6 DEF Closed
<1>8. Sending \subseteq Held
  BY EachOnOneSide
<1>9. Stopping'
  BY <1>1, <1>2, <1>3, <1>4, <1>6, <1>7, <1>8 DEF Stopping, Known
<1>10. /\ AtRest' /\ InClose' /\ Pushing' /\ StoppingAll' /\ Reporting' /\ Reading'
       /\ Popping'
  BY <1>1, <1>2 DEF AtRest, InClose, Pushing, StoppingAll, Reporting, Reading, Popping,
                    Updating
<1> QED BY <1>1, <1>9, <1>10 DEF ViewRight, Mapped

(* The head of a list and the place it has in the list it is the rest of.   *)
LEMMA RestOf ==
  ASSUME NEW S, NEW q \in Seq(S), NEW r \in Seq(S), r # <<>>, Len(r) <= Len(q),
         \A i \in DOMAIN r : r[i] = q[Len(q) - Len(r) + i]
  PROVE  LET k == Len(q) - Len(r) + 1
         IN  /\ k \in DOMAIN q /\ q[k] = Head(r)
             /\ Tail(r) \in Seq(S) /\ Len(Tail(r)) <= Len(q)
             /\ 1 .. Len(q) - Len(Tail(r)) = (1 .. Len(q) - Len(r)) \cup {k}
             /\ k \notin 1 .. Len(q) - Len(r)
             /\ 1 .. Len(q) - Len(r) \subseteq DOMAIN q
             /\ \A i \in DOMAIN Tail(r) : Tail(r)[i] = q[Len(q) - Len(Tail(r)) + i]
<1>1. PICK n, m : n = Len(q) /\ m = Len(r)
  OBVIOUS
<1>2. /\ n \in Nat /\ m \in Nat \ {0} /\ m <= n
      /\ DOMAIN q = 1 .. n /\ DOMAIN r = 1 .. m /\ Head(r) = r[1]
      /\ Tail(r) \in Seq(S) /\ Len(Tail(r)) = m - 1
      /\ DOMAIN Tail(r) = 1 .. m - 1 /\ \A i \in 1 .. m - 1 : Tail(r)[i] = r[i + 1]
  BY <1>1
<1>3. \A i \in 1 .. m : r[i] = q[n - m + i]
  BY <1>1, <1>2
<1>4. q[n - m + 1] = Head(r) /\ n - m + 1 \in DOMAIN q
  BY <1>2, <1>3
<1>5. \A i \in 1 .. m - 1 : Tail(r)[i] = q[n - (m - 1) + i]
  <2> SUFFICES ASSUME NEW i \in 1 .. m - 1
               PROVE  Tail(r)[i] = q[n - (m - 1) + i]
    OBVIOUS
  <2>1. i + 1 \in 1 .. m /\ n - m + (i + 1) = n - (m - 1) + i
    BY <1>2
  <2>2. r[i + 1] = q[n - m + (i + 1)]
    BY <1>3, <2>1
  <2> QED BY <1>2, <2>1, <2>2
<1>6. /\ 1 .. n - (m - 1) = (1 .. n - m) \cup {n - m + 1} /\ n - m + 1 \notin 1 .. n - m
      /\ m - 1 <= n /\ 1 .. n - m \subseteq DOMAIN q
  BY <1>2
<1> QED BY <1>1, <1>2, <1>4, <1>5, <1>6

(* StopReceiving, one fd of a call of Update.                               *)
LEMMA StopOneView ==
  ASSUME StoreInv, Sides', ViewRight, StopReceiving, ~closing
  PROVE  ViewRight' /\ Mapped
<1>o. PICK o : o = Head(todo)
  OBVIOUS
<1>1. pc = "stop" /\ todo # <<>> /\ todo \in Seq(Fds) /\ data.closed \in Seq(Fds)
  BY DEF StopReceiving, StoreInv, Typed, UpdateDatas
<1>2. /\ view.phase = "idle" /\ data \in Inputs /\ Len(todo) <= Len(data.closed)
      /\ \A i \in DOMAIN todo : todo[i] = data.closed[Len(data.closed) - Len(todo) + i]
      /\ Addressed(data) \cup Closed \subseteq Known
      /\ Sending = view.sending \cup Addressed(data)
      /\ Receiving = view.receiving \ Closed
      /\ Held = Known \ (Closed \ Sending)
      /\ \A i, j \in Through :
            i # j /\ data.closed[i] = data.closed[j] => data.closed[i] \in Sending
  BY <1>1 DEF ViewRight, Stopping
<1>k. PICK k : k = Len(data.closed) - Len(todo) + 1
  OBVIOUS
<1>3. /\ k \in DOMAIN data.closed /\ data.closed[k] = o
      /\ Len(Tail(todo)) <= Len(data.closed)
      /\ 1 .. Len(data.closed) - Len(Tail(todo)) = Through \cup {k} /\ k \notin Through
      /\ Through \subseteq DOMAIN data.closed
      /\ \A i \in DOMAIN Tail(todo) :
            Tail(todo)[i] = data.closed[Len(data.closed) - Len(Tail(todo)) + i]
  BY <1>o, <1>k, <1>1, <1>2, RestOf DEF Through
<1>4. CASE o \notin Held
  <2>1. Fail
    BY <1>o, <1>4 DEF StopReceiving
  <2>2. CASE o \notin Known
    <3>1. o \in ToSet(data.closed)
      BY <1>3 DEF ToSet
    <3> QED BY <1>2, <2>1, <2>2, <3>1, FailView, RefusedMapped
  <2>3. CASE o \in Known
    <3>1. o \in Closed /\ o \notin Sending
      BY <1>2, <1>4, <2>3
    <3>2. PICK i \in Through : data.closed[i] = o
      BY <3>1 DEF Closed
    <3>3. /\ i \in DOMAIN data.closed /\ k \in DOMAIN data.closed /\ i # k
          /\ data.closed[i] = data.closed[k]
          /\ data.closed[i] \notin view.sending \cup Addressed(data)
      BY <1>2, <1>3, <3>1, <3>2
    <3> QED BY <1>2, <2>1, <3>3, FailView, RefusedMapped
  <2> QED BY <2>2, <2>3
<1>5. CASE o \in Held
  <2>1. /\ UNCHANGED <<data, closing, pc, view>> /\ todo' = Tail(todo)
        /\ IF Lingers(o)
           THEN /\ pollfds' = [pollfds EXCEPT ![fdMap[o] + 1].in = FALSE]
                /\ connections' = [connections EXCEPT ![fdMap[o]].incoming = <<>>]
                /\ fdMap' = fdMap
           ELSE Pop(o)
    BY <1>o, <1>5 DEF StopReceiving
  <2>2. /\ Sending' = Sending /\ Receiving' = Receiving \ {o}
        /\ Held' = IF o \in Sending THEN Held ELSE Held \ {o}
    BY <1>5, <2>1, StopSides
  <2>3. Through' = Through \cup {k} /\ Closed' = Closed \cup {o}
    <3>1. Through' = Through \cup {k}
      BY <1>3, <2>1 DEF Through
    <3> QED BY <1>3, <2>1, <3>1 DEF Closed
  <2>4. o \in Known /\ o \notin Closed \ Sending
    BY <1>2, <1>5
  <2>5. Held' = Known \ (Closed' \ Sending')
    BY <1>2, <2>2, <2>3, <2>4
  <2>6. ASSUME NEW i \in Through', NEW j \in Through', i # j,
               data.closed[i] = data.closed[j]
        PROVE  data.closed[i] \in Sending
    <3>1. CASE i \in Through /\ j \in Through
      BY <1>2, <2>6, <3>1
    <3>2. CASE i = k \/ j = k
      <4>1. data.closed[i] = o
        BY <1>3, <2>6, <3>2
      <4>2. o \in Closed
        BY <1>3, <2>3, <2>6, <3>2 DEF Closed
      <4> QED BY <2>4, <4>1, <4>2
    <3> QED BY <2>3, <3>1, <3>2
  <2>7. Stopping'
    <3>1. Known' = Known /\ Addressed(data') = Addressed(data)
      BY <2>1 DEF Known
    <3>2. Receiving' = view'.receiving \ Closed'
      BY <1>2, <2>1, <2>2, <2>3
    <3>3. \A i, j \in Through' :
             i # j /\ data'.closed[i] = data'.closed[j] => data'.closed[i] \in Sending'
      BY <2>1, <2>2, <2>6
    <3>4. Addressed(data') \cup Closed' \subseteq Known'
      BY <1>2, <2>3, <2>4, <3>1
    <3>5. /\ Len(todo') <= Len(data'.closed)
          /\ \A i \in DOMAIN todo' :
                todo'[i] = data'.closed[Len(data'.closed) - Len(todo') + i]
      BY <1>3, <2>1
    <3> QED BY <1>2, <2>1, <2>2, <2>5, <3>1, <3>2, <3>3, <3>4, <3>5 DEF Stopping
  <2>8. /\ AtRest' /\ InClose' /\ Pushing' /\ StoppingAll' /\ Reporting' /\ Reading'
        /\ Popping'
    BY <1>1, <2>1 DEF AtRest, InClose, Pushing, StoppingAll, Reporting, Reading, Popping,
                      Updating
  <2> QED BY <2>1, <2>7, <2>8 DEF ViewRight, Mapped
<1> QED BY <1>4, <1>5

(* StopReceiving, one of all connections in Close.                          *)
LEMMA StopNextView ==
  ASSUME StoreInv, Sides', ViewRight, StopReceiving, closing
  PROVE  ViewRight' /\ Mapped
<1>o. PICK o : o = Head(todo)
  OBVIOUS
<1>1. pc = "stop" /\ todo # <<>> /\ todo \in Seq(Fds)
  BY DEF StopReceiving, StoreInv, Typed
<1>2. /\ view.phase = "idle" /\ IsInjective(todo) /\ ToSet(todo) \subseteq Held
      /\ Receiving \subseteq ToSet(todo) /\ Sending = view.sending /\ ~pollfds[1].in
  BY <1>1 DEF ViewRight, StoppingAll, InClose
<1>3. /\ IsInjective(Tail(todo)) /\ o \in ToSet(todo)
      /\ ToSet(Tail(todo)) = ToSet(todo) \ {o}
  BY <1>o, <1>1, <1>2, TailDistinct
<1>4. o \in Held
  BY <1>2, <1>3
<1>5. /\ UNCHANGED <<data, closing, pc, view>> /\ todo' = Tail(todo)
      /\ IF Lingers(o)
         THEN /\ pollfds' = [pollfds EXCEPT ![fdMap[o] + 1].in = FALSE]
              /\ connections' = [connections EXCEPT ![fdMap[o]].incoming = <<>>]
              /\ fdMap' = fdMap
         ELSE Pop(o)
  BY <1>o, <1>4 DEF StopReceiving
<1>6. /\ Sending' = Sending /\ Receiving' = Receiving \ {o} /\ pollfds'[1] = pollfds[1]
      /\ Held' = IF o \in Sending THEN Held ELSE Held \ {o}
  BY <1>4, <1>5, StopSides
<1>7. StoppingAll' /\ InClose'
  BY <1>1, <1>2, <1>3, <1>5, <1>6 DEF StoppingAll, InClose
<1>8. AtRest' /\ Pushing' /\ Stopping' /\ Reporting' /\ Reading' /\ Popping'
  BY <1>1, <1>5 DEF AtRest, Pushing, Stopping, Reporting, Reading, Popping, Updating
<1> QED BY <1>5, <1>7, <1>8 DEF ViewRight, Mapped

(* All has been handed over, and is what CallUpdate of AbstractStore does   *)
(* at once; or every connection has been stopped, as in its CallClose.      *)
LEMMA BeginPollView ==
  ASSUME StoreInv, ViewRight, BeginPoll
  PROVE  ViewRight' /\ Mapped
<1>1. /\ pc = "stop" /\ pc' = "poll" /\ todo = <<>> /\ view' = Seen'
      /\ UNCHANGED <<containers, data, closing, todo>>
  BY DEF BeginPoll, local
<1>2. Held' = Held /\ Receiving' = Receiving /\ Sending' = Sending /\ pollfds' = pollfds
  BY <1>1, SidesKept DEF containers
<1>3. /\ view'.receiving = Receiving /\ view'.sending = Sending
      /\ view'.phase = IF closing THEN "closing" ELSE "poll"
      /\ view'.data = IF closing THEN NoUpdate ELSE data
  BY <1>1, <1>2 DEF Seen, Phase
<1>4. Mapped
  <2>1. CASE closing
    <3>1. /\ view.phase = "idle" /\ Receiving \subseteq ToSet(todo)
          /\ Sending = view.sending
      BY <1>1, <2>1 DEF ViewRight, StoppingAll
    <3>2. view'.receiving = {} /\ view'.sending = view.sending
      BY <1>1, <1>3, <3>1, EmptyList
    <3>3. Abstract!CallClose
      BY <1>3, <2>1, <3>1, <3>2, SameNames DEF Abstract!CallClose, Abstract!StopAll
    <3> QED BY <3>3 DEF Mapped, Abstract!StoreNext
  <2>2. CASE ~closing
    <3>1. /\ view.phase = "idle" /\ data \in Inputs
          /\ Addressed(data) \cup Closed \subseteq Known
          /\ Sending = view.sending \cup Addressed(data)
          /\ Receiving = view.receiving \ Closed
          /\ \A i, j \in Through :
                i # j /\ data.closed[i] = data.closed[j] => data.closed[i] \in Sending
      BY <1>1, <2>2 DEF ViewRight, Stopping
    <3>2. Through = DOMAIN data.closed /\ Closed = ToSet(data.closed)
      <4>1. data.closed \in Seq(Fds)
        BY DEF StoreInv, Typed, UpdateDatas
      <4>2. Through = DOMAIN data.closed
        BY <1>1, <4>1 DEF Through
      <4> QED BY <4>2 DEF Closed, ToSet
    <3>3. Abstract!InStore = Known
      BY DEF Abstract!InStore, Known
    <3>4. ~Abstract!Refused(data)
      BY <3>1, <3>2, <3>3, SameNames DEF Abstract!Refused
    <3>5. Abstract!HandOver(data)
      BY <1>3, <2>2, <3>1, <3>2, <3>4, SameNames DEF Abstract!HandOver
    <3>6. Abstract!CallUpdate
      BY <1>3, <2>2, <3>1, <3>4, <3>5 DEF Abstract!CallUpdate
    <3> QED BY <3>6 DEF Mapped, Abstract!StoreNext
  <2> QED BY <2>1, <2>2
<1>5. AtRest'
  BY <1>1, <1>2, <1>3 DEF AtRest, Seen, Phase
<1>6. InClose'
  <2> SUFFICES ASSUME closing PROVE ~pollfds[1].in /\ Receiving = {}
    BY <1>1, <1>2 DEF InClose
  <2>1. ~pollfds[1].in /\ Receiving \subseteq ToSet(todo)
    BY <1>1 DEF ViewRight, InClose, StoppingAll
  <2> QED BY <1>1, <2>1, EmptyList
<1>7. Pushing' /\ Stopping' /\ StoppingAll' /\ Reporting' /\ Reading' /\ Popping'
  BY <1>1 DEF Pushing, Stopping, StoppingAll, Reporting, Reading, Popping, Updating
<1> QED BY <1>4, <1>5, <1>6, <1>7 DEF ViewRight

-----------------------------------------------------------------------------
(* poll has found something: nothing has been collected yet.                *)
LEMMA PollReadyView ==
  ASSUME StoreInv, ViewRight, PollReady
  PROVE  ViewRight' /\ Mapped
<1>1. /\ pc = "poll" /\ pc' = "read" /\ at' = 1 /\ data' = Cleared(data)
      /\ UNCHANGED <<containers, closing, todo, view>>
      /\ closing => connections # <<>>
  BY DEF PollReady
<1>2. Held' = Held /\ Receiving' = Receiving /\ Sending' = Sending /\ pollfds' = pollfds
  BY <1>1, SidesKept DEF containers
<1>3. /\ view.receiving = Receiving /\ view.sending = Sending
      /\ view.phase = (IF closing THEN "closing" ELSE "poll")
      /\ closing => view.data = NoUpdate /\ Receiving = {} /\ ~pollfds[1].in
  BY <1>1 DEF ViewRight, AtRest, InClose, Seen, Phase
<1>4. Held = Known /\ todo = <<>>
  <2>1. ~Updating /\ todo = <<>>
    BY <1>1 DEF Updating, StoreInv, Removing
  <2> QED BY <1>3, <2>1, EachOnOneSide DEF Known
<1>5. data'.msgs = <<>> /\ data'.closed = <<>>
  <2>1. data \in UpdateDatas
    BY DEF StoreInv, Typed
  <2> QED BY <1>1, <2>1 DEF UpdateDatas, Cleared
<1>6. Addressed(data') = {} /\ ToSet(data'.closed) = {} /\ ToSet(todo') = {}
  BY <1>1, <1>4, <1>5, EmptyList DEF Addressed
<1>7. /\ ready'.in \subseteq MayRead /\ ready'.out \subseteq MayWrite
      /\ ready'.in # {} \/ ready'.out # {} \/ connects'
      /\ connects' => pollfds[1].in
  BY DEF PollReady
<1>8. MayRead \subseteq Held /\ MayWrite \subseteq Sending
  <2>1. \A fd \in Held : PollfdFor(fd).out <=> BufferFor(fd).outgoing # 0
    BY DEF StoreInv, Polled
  <2> QED BY <2>1, SidesRight DEF MayRead, MayWrite, Sides
<1>9. connects' \/ Known # {}
  BY <1>3, <1>4, <1>7, <1>8 DEF Known
<1>10. closing => view.sending # {}
  <2> SUFFICES ASSUME closing PROVE Sending # {}
    BY <1>3
  <2>1. connections # <<>> /\ connections \in Seq(BufferType)
    BY <1>1 DEF StoreInv, Typed
  <2>2. 1 \in Indices
    BY <2>1 DEF Indices
  <2>3. Held # {}
    BY <2>2 DEF StoreInv, Aligned
  <2> QED BY <1>3, <1>4, <2>3 DEF Known
<1>11. Reporting'
  <2>1. \A i, j \in DOMAIN data'.msgs : data'.msgs[i].fd = data'.msgs[j].fd => i = j
    BY <1>5
  <2>2. closing => ~connects'
    BY <1>3, <1>7
  <2>3. Known' = Known /\ view' = view /\ closing' = closing
    BY <1>1 DEF Known
  <2>4. Receiving' = view'.receiving \cap Held' /\ Sending' \subseteq view'.sending
        /\ Held' \subseteq Known' /\ view'.receiving \ ToSet(data'.closed) \subseteq Held'
    BY <1>2, <1>3, <1>4, <2>3 DEF Known
  <2> QED BY <1>3, <1>6, <1>9, <1>10, <2>1, <2>2, <2>3, <2>4 DEF Reporting
<1>12. Reading'
  BY <1>1, <1>2, <1>3, <1>4, <1>6, <1>7, <1>8 DEF Reading, Known
<1>13. InClose'
  BY <1>1, <1>2, <1>3 DEF InClose
<1>14. AtRest' /\ Pushing' /\ Stopping' /\ StoppingAll' /\ Popping'
  BY <1>1 DEF AtRest, Pushing, Stopping, StoppingAll, Popping
<1> QED BY <1>1, <1>11, <1>12, <1>13, <1>14 DEF ViewRight, Mapped

(* poll has found nothing; updateData is returned as it was.                *)
LEMMA PollTimeoutView ==
  ASSUME ViewRight, PollTimeout
  PROVE  ViewRight' /\ Mapped
<1>1. /\ pc = "poll" /\ pc' = "idle" /\ ~closing /\ view' = Seen'
      /\ UNCHANGED <<containers, data, closing>>
  BY DEF PollTimeout, local
<1>2. Receiving' = Receiving /\ Sending' = Sending
  BY <1>1, SidesKept
<1>3. view' = [receiving |-> Receiving, sending |-> Sending, phase |-> "idle", data |-> data]
  BY <1>1, <1>2 DEF Seen, Phase
<1>4. /\ view.receiving = Receiving /\ view.sending = Sending /\ view.phase = "poll"
      /\ view.data = data
  BY <1>1 DEF ViewRight, AtRest, Seen, Phase
<1>5. Abstract!ReportNothing
  BY <1>3, <1>4 DEF Abstract!ReportNothing, FaultKinds
<1>6. Mapped
  BY <1>3, <1>4, <1>5 DEF Mapped, Abstract!StoreNext, Abstract!ReturnUpdate
<1>7. AtRest'
  BY <1>1, <1>2, <1>3 DEF AtRest, Phase
<1>8. /\ InClose' /\ Pushing' /\ Stopping' /\ StoppingAll' /\ Reporting' /\ Reading'
      /\ Popping'
  BY <1>1 DEF InClose, Pushing, Stopping, StoppingAll, Reporting, Reading, Popping,
              Updating
<1> QED BY <1>6, <1>7, <1>8 DEF ViewRight

-----------------------------------------------------------------------------
(* The connection UpdateBuffers is at.                                      *)
LEMMA AtConnection ==
  ASSUME StoreInv, at \in Indices, NEW o, o = Here.fd
  PROVE  /\ o \in Held /\ fdMap[o] = at /\ Reported = o /\ o \in Fds
         /\ BufferFor(o) = Here /\ PollfdFor(o) = PollfdOf(at)
<1>1. o \in Held /\ fdMap[o] = at /\ Reported = o
  BY DEF StoreInv, Aligned, Here, Reported
<1>2. o \in Fds
  BY <1>1, Connection
<1> QED BY <1>1, <1>2 DEF BufferFor, PollfdFor, Here

(* UpdateBuffers reads or writes one connection: it may report a message of *)
(* it, or report it lost, and a message of a lost one only if it was the    *)
(* write that failed.                                                       *)
LEMMA OneConnectionView ==
  ASSUME StoreInv, ViewRight, pc \in {"read", "write"}, pc' \in {"read", "write"},
         at \in Indices, NEW o, o = Here.fd,
         UNCHANGED <<fdMap, closing, connects, ready, view>>,
         Receiving' = Receiving, Sending' \subseteq Sending, pollfds'[1] = pollfds[1],
         at' = at + 1 \/ (at' = at /\ pc' = "write" /\ pc = "read"),
         Addressed(data') \subseteq Addressed(data) \cup {o},
         ToSet(data'.closed) \in {ToSet(data.closed), ToSet(data.closed) \cup {o}},
         \A i, j \in DOMAIN data'.msgs : data'.msgs[i].fd = data'.msgs[j].fd => i = j,
         o \in Addressed(data') \cap ToSet(data'.closed) => o \in view.sending,
         ToSet(todo') \cap Receiving \subseteq ToSet(data'.closed)
  PROVE  ViewRight' /\ Mapped
<1>1. /\ o \in Held /\ fdMap[o] = at /\ Held' = Held /\ at \in Nat
      /\ \A fd \in Held : fdMap[fd] \in Nat
  BY AtConnection, Connection DEF Held, StoreInv, Typed
<1>2. /\ view.phase = (IF closing THEN "closing" ELSE "poll")
      /\ closing => /\ ~connects /\ view.sending # {}
                    /\ view.receiving = {} /\ view.data = NoUpdate
      /\ connects \/ Known # {}
      /\ Receiving = view.receiving \cap Held /\ Sending \subseteq view.sending
      /\ Addressed(data) \cup ToSet(data.closed) \subseteq Known
      /\ Addressed(data) \cap ToSet(data.closed) \subseteq view.sending
  BY DEF ViewRight, Reporting, Updating
<1>3. /\ Held = Known /\ ready.out \subseteq view.sending
      /\ \A fd \in Addressed(data) : fdMap[fd] < at \/ (pc = "write" /\ fdMap[fd] = at)
  BY DEF ViewRight, Reading
<1>4. Known' = Known
  BY DEF Known
<1>5. Reporting'
  <2>1. Addressed(data') \cup ToSet(data'.closed) \subseteq Known'
    BY <1>1, <1>2, <1>3, <1>4
  <2>2. Addressed(data') \cap ToSet(data'.closed) \subseteq view'.sending
    BY <1>2
  <2>3. /\ Held' \subseteq Known' /\ view'.receiving \ ToSet(data'.closed) \subseteq Held'
        /\ Receiving' = view'.receiving \cap Held' /\ Sending' \subseteq view'.sending
    BY <1>1, <1>2, <1>3, <1>4 DEF Known
  <2> QED BY <1>2, <1>4, <2>1, <2>2, <2>3 DEF Reporting
<1>6. Reading'
  <2> SUFFICES ASSUME NEW fd \in Addressed(data')
               PROVE  fdMap[fd] < at' \/ (pc' = "write" /\ fdMap[fd] = at')
    BY <1>1, <1>3, <1>4 DEF Reading
  <2>1. fd \in Held /\ fdMap[fd] \in Nat
    BY <1>1, <1>2, <1>3
  <2>2. fdMap[fd] < at \/ fdMap[fd] = at
    BY <1>1, <1>3
  <2> QED BY <1>1, <1>3, <2>1, <2>2
<1>7. InClose'
  BY DEF ViewRight, InClose
<1>8. AtRest' /\ Pushing' /\ Stopping' /\ StoppingAll' /\ Popping'
  BY DEF AtRest, Pushing, Stopping, StoppingAll, Popping
<1> QED BY <1>5, <1>6, <1>7, <1>8 DEF ViewRight, Mapped

(* What UpdateBuffers has found is as it was.                               *)
LEMMA FoundBefore ==
  ASSUME StoreInv, ViewRight, pc \in {"read", "write"}, at \in Indices,
         NEW o, o = Here.fd
  PROVE  /\ data \in UpdateDatas /\ todo \in Seq(Fds)
         /\ o \notin ToSet(data.closed)
         /\ pc = "read" => o \notin Addressed(data)
         /\ \A i, j \in DOMAIN data.msgs : data.msgs[i].fd = data.msgs[j].fd => i = j
         /\ ToSet(todo) \cap Receiving \subseteq ToSet(data.closed)
         /\ ready.out \subseteq view.sending
<1>1. /\ data \in UpdateDatas /\ todo \in Seq(Fds)
      /\ Collected(data.closed)
  BY DEF StoreInv, Typed, Removing
<1>2. o \in Held /\ fdMap[o] = at /\ at \in Nat
  BY AtConnection DEF StoreInv, Typed
<1>3. /\ \A i, j \in DOMAIN data.msgs : data.msgs[i].fd = data.msgs[j].fd => i = j
      /\ ToSet(todo) \cap Receiving \subseteq ToSet(data.closed)
      /\ ready.out \subseteq view.sending
      /\ pc = "read" => \A fd \in Addressed(data) : fdMap[fd] < at
  BY DEF ViewRight, Reporting, Updating, Reading
<1> QED BY <1>1, <1>2, <1>3 DEF Collected

(* A connection without an event.                                           *)
LEMMA SkipView ==
  ASSUME StoreInv, ViewRight, SkipRead \/ SkipWrite
  PROVE  ViewRight' /\ Mapped
<1>o. PICK o : o = Here.fd
  OBVIOUS
<1>1. /\ UNCHANGED <<containers, data, closing, todo, ready, connects, view>>
      /\ pc \in {"read", "write"} /\ pc' \in {"read", "write"} /\ at \in Indices
      /\ at' = at + 1 \/ (at' = at /\ pc' = "write" /\ pc = "read")
  BY DEF SkipRead, SkipWrite, local, StoreInv, Removing
<1>2. Receiving' = Receiving /\ Sending' = Sending /\ fdMap' = fdMap /\ pollfds' = pollfds
  BY <1>1, SidesKept DEF containers
<1>3. /\ o \notin ToSet(data.closed)
      /\ \A i, j \in DOMAIN data.msgs : data.msgs[i].fd = data.msgs[j].fd => i = j
      /\ ToSet(todo) \cap Receiving \subseteq ToSet(data.closed)
  BY <1>o, <1>1, FoundBefore
<1> QED BY <1>o, <1>1, <1>2, <1>3, OneConnectionView

(* A connection found lost, on reading or on writing.                       *)
LEMMA LostView ==
  ASSUME StoreInv, ViewRight, ReceiveEnd \/ SendFails
  PROVE  ViewRight' /\ Mapped
<1>o. PICK o : o = Here.fd
  OBVIOUS
<1>1. /\ UNCHANGED <<containers, closing, todo, ready, connects, view>>
      /\ pc \in {"read", "write"} /\ pc' \in {"read", "write"} /\ at \in Indices
      /\ at' = at + 1 /\ data' = [data EXCEPT !.closed = Append(@, Reported)]
      /\ pc = "write" => Reported \in ready.out
  BY DEF ReceiveEnd, SendFails, StoreInv, Removing
<1>2. Receiving' = Receiving /\ Sending' = Sending /\ fdMap' = fdMap /\ pollfds' = pollfds
  BY <1>1, SidesKept DEF containers
<1>3. Reported = o /\ o \in Fds
  BY <1>o, <1>1, AtConnection
<1>4. /\ data \in UpdateDatas /\ o \notin ToSet(data.closed)
      /\ pc = "read" => o \notin Addressed(data)
      /\ \A i, j \in DOMAIN data.msgs : data.msgs[i].fd = data.msgs[j].fd => i = j
      /\ ToSet(todo) \cap Receiving \subseteq ToSet(data.closed)
      /\ ready.out \subseteq view.sending
  BY <1>o, <1>1, FoundBefore
<1>5. data'.msgs = data.msgs /\ data'.closed = Append(data.closed, o)
      /\ data.closed \in Seq(Fds)
  BY <1>1, <1>3, <1>4 DEF UpdateDatas
<1>6. ToSet(data'.closed) = ToSet(data.closed) \cup {o}
  BY <1>3, <1>5, ToSetAppend
<1>7. Addressed(data') = Addressed(data)
  BY <1>5 DEF Addressed
<1>8. /\ \A i, j \in DOMAIN data'.msgs : data'.msgs[i].fd = data'.msgs[j].fd => i = j
      /\ o \in Addressed(data') \cap ToSet(data'.closed) => o \in view.sending
      /\ ToSet(todo') \cap Receiving \subseteq ToSet(data'.closed)
  BY <1>1, <1>3, <1>4, <1>5, <1>6, <1>7
<1> QED BY <1>o, <1>1, <1>2, <1>6, <1>7, <1>8, OneConnectionView

(* A connection is read: it may report one message, its only one.           *)
LEMMA ReceiveView ==
  ASSUME StoreInv, ViewRight, Receive
  PROVE  ViewRight' /\ Mapped
<1>o. PICK o : o = Here.fd
  OBVIOUS
<1>1. /\ pc = "read" /\ pc' = "write" /\ at \in Indices /\ at' = at
      /\ UNCHANGED <<pollfds, fdMap, closing, todo, ready, connects, view>>
  BY DEF Receive
<1>2. Reported = o /\ o \in Fds
  BY <1>o, <1>1, AtConnection
<1>3. /\ data \in UpdateDatas /\ o \notin ToSet(data.closed) /\ o \notin Addressed(data)
      /\ \A i, j \in DOMAIN data.msgs : data.msgs[i].fd = data.msgs[j].fd => i = j
      /\ ToSet(todo) \cap Receiving \subseteq ToSet(data.closed)
  BY <1>o, <1>1, FoundBefore
<1>4. \/ UNCHANGED <<connections, data>>
      \/ \E q, m : /\ connections' = [connections EXCEPT ![at].incoming = q]
                   /\ data' = [data EXCEPT !.msgs = Append(@, To(o, m))]
  BY <1>2 DEF Receive
<1>5. CASE UNCHANGED <<connections, data>>
  <2>1. Receiving' = Receiving /\ Sending' = Sending
    BY <1>1, <1>5, SidesKept DEF containers
  <2> QED BY <1>o, <1>1, <1>3, <1>5, <2>1, OneConnectionView
<1>6. CASE \E q, m : /\ connections' = [connections EXCEPT ![at].incoming = q]
                     /\ data' = [data EXCEPT !.msgs = Append(@, To(o, m))]
  <2>1. PICK q, m : /\ connections' = [connections EXCEPT ![at].incoming = q]
                    /\ data' = [data EXCEPT !.msgs = Append(@, To(o, m))]
    BY <1>6
  <2>2. /\ Indices' = Indices
        /\ \A i \in Indices : /\ connections'[i].fd = connections[i].fd
                              /\ connections'[i].outgoing = connections[i].outgoing
    <3>1. connections \in Seq(BufferType)
      BY DEF StoreInv, Typed
    <3>2. \A i \in Indices : connections[i] \in BufferType
      BY <3>1 DEF Indices
    <3> QED BY <1>1, <2>1, <3>1, <3>2 DEF Indices, BufferType
  <2>3. Sending' = Sending
    BY <2>2 DEF Sending
  <2>4. Receiving' = Receiving
    BY <1>1, <2>2 DEF Receiving, PollfdOf
  <2>5. /\ data'.closed = data.closed /\ data'.msgs = Append(data.msgs, To(o, m))
        /\ data.msgs \in Seq([fd : Fds, content : Fds])
    BY <1>3, <2>1 DEF UpdateDatas
  <2>6. PICK n \in Nat : n = Len(data.msgs)
    BY <2>5
  <2>7. /\ DOMAIN data.msgs = 1 .. n /\ DOMAIN data'.msgs = 1 .. n + 1
        /\ \A i \in 1 .. n : data'.msgs[i] = data.msgs[i]
        /\ data'.msgs[n + 1] = To(o, m)
    BY <2>5, <2>6
  <2>8. data'.msgs[n + 1].fd = o
    BY <2>7 DEF To
  <2>9. Addressed(data') = Addressed(data) \cup {o}
    BY <2>7, <2>8 DEF Addressed
  <2>10. \A i \in 1 .. n : data.msgs[i].fd # o
    BY <1>3, <2>7 DEF Addressed
  <2>11. \A i, j \in DOMAIN data'.msgs : data'.msgs[i].fd = data'.msgs[j].fd => i = j
    <3> SUFFICES ASSUME NEW i \in 1 .. n + 1, NEW j \in 1 .. n + 1,
                        data'.msgs[i].fd = data'.msgs[j].fd
                 PROVE  i = j
      BY <2>7
    <3>1. (i \in 1 .. n \/ i = n + 1) /\ (j \in 1 .. n \/ j = n + 1)
      OBVIOUS
    <3> QED BY <1>3, <2>7, <2>8, <2>10, <3>1
  <2>12. ToSet(data'.closed) = ToSet(data.closed)
    BY <2>5
  <2> QED BY <1>o, <1>1, <1>3, <2>3, <2>4, <2>9, <2>11, <2>12, OneConnectionView
<1> QED BY <1>4, <1>5, <1>6

(* A connection is written; one that is not read and has been emptied will  *)
(* be popped.                                                               *)
LEMMA FlushView ==
  ASSUME StoreInv, Sides', ViewRight, NEW n \in Nat, Flush(n)
  PROVE  ViewRight' /\ Mapped
<1>o. PICK o : o = Here.fd
  OBVIOUS
<1>1. /\ pc = "write" /\ pc' = "read" /\ at \in Indices /\ at' = at + 1
      /\ UNCHANGED <<fdMap, data, closing, ready, connects, view>>
  BY DEF Flush, StoreInv, Removing
<1>2. /\ Reported = o /\ o \in Fds /\ o \in Held /\ fdMap[o] = at
      /\ BufferFor(o) = Here /\ PollfdFor(o) = PollfdOf(at)
  BY <1>o, <1>1, AtConnection
<1>3. /\ PollfdFor(o) = pollfds[at + 1] /\ PollfdFor(o) \in PollfdType
      /\ BufferFor(o) \in BufferType /\ PollfdFor(o).fd = o
  BY <1>2, Connection
<1>4. /\ data \in UpdateDatas /\ o \notin ToSet(data.closed) /\ todo \in Seq(Fds)
      /\ \A i, j \in DOMAIN data.msgs : data.msgs[i].fd = data.msgs[j].fd => i = j
      /\ ToSet(todo) \cap Receiving \subseteq ToSet(data.closed)
  BY <1>o, <1>1, FoundBefore
<1>5. n <= BufferFor(o).outgoing /\ BufferFor(o).outgoing \in Nat
  BY <1>2, <1>3, StoreAssumption DEF Flush, BufferType
<1>c. PICK c : c = [BufferFor(o) EXCEPT !.outgoing = BufferFor(o).outgoing - n]
  OBVIOUS
<1>6. connections' = [connections EXCEPT ![fdMap[o]] = c]
  BY <1>2, <1>c DEF Flush, Here
<1>7. c.outgoing # 0 => BufferFor(o).outgoing # 0
  BY <1>3, <1>5, <1>c DEF BufferType
<1>p. PICK p : p = IF n = BufferFor(o).outgoing THEN [PollfdFor(o) EXCEPT !.out = FALSE]
                                               ELSE PollfdFor(o)
  OBVIOUS
<1>8. p.in = PollfdFor(o).in
  BY <1>3, <1>p DEF PollfdType
<1>9. pollfds' = [pollfds EXCEPT ![fdMap[o] + 1] = p]
  <2>1. CASE n = BufferFor(o).outgoing
    <3>1. pollfds' = [pollfds EXCEPT ![at + 1].out = FALSE]
      BY <1>2, <2>1 DEF Flush
    <3> QED BY <1>2, <1>3, <1>p, <2>1, <3>1
  <2>2. CASE n # BufferFor(o).outgoing
    <3>1. pollfds' = pollfds
      BY <1>2, <2>2 DEF Flush
    <3>2. pollfds = [pollfds EXCEPT ![at + 1] = pollfds[at + 1]]
      BY DEF StoreInv, Typed
    <3> QED BY <1>2, <1>3, <1>p, <2>2, <3>1, <3>2
  <2> QED BY <2>1, <2>2
<1>10. /\ Held' = Held /\ pollfds'[1] = pollfds[1]
       /\ Receiving' = IF p.in THEN Receiving \cup {o} ELSE Receiving \ {o}
       /\ Sending' = IF c.outgoing # 0 THEN Sending \cup {o} ELSE Sending \ {o}
  <2>1. fdMap' = fdMap
    BY <1>1
  <2> QED BY <1>2, <1>6, <1>9, <2>1, SidesInPlace
<1>11. (o \in Receiving <=> PollfdFor(o).in) /\ (o \in Sending <=> BufferFor(o).outgoing # 0)
  BY <1>2, SidesRight DEF Sides
<1>12. Receiving' = Receiving
  BY <1>8, <1>10, <1>11
<1>13. Sending' \subseteq Sending
  BY <1>7, <1>10, <1>11
<1>14. ToSet(todo') \cap Receiving \subseteq ToSet(data'.closed)
  <2>1. todo' = todo \/ (todo' = Append(todo, o) /\ ~PollfdFor(o).in)
    BY <1>2, <1>3 DEF Flush, EmptyLingering
  <2>2. CASE todo' = todo
    BY <1>1, <1>4, <2>2
  <2>3. CASE todo' = Append(todo, o) /\ ~PollfdFor(o).in
    <3>1. ToSet(todo') = ToSet(todo) \cup {o}
      BY <1>2, <1>4, <2>3, ToSetAppend
    <3> QED BY <1>1, <1>4, <1>11, <2>3, <3>1
  <2> QED BY <2>1, <2>2, <2>3
<1>15. /\ Addressed(data') = Addressed(data) /\ ToSet(data'.closed) = ToSet(data.closed)
       /\ \A i, j \in DOMAIN data'.msgs : data'.msgs[i].fd = data'.msgs[j].fd => i = j
       /\ o \notin ToSet(data'.closed)
  BY <1>1, <1>4
<1> QED BY <1>o, <1>1, <1>10, <1>12, <1>13, <1>14, <1>15, OneConnectionView

(* The lost connections join those that UpdateBuffers pops.                 *)
LEMMA BeginPopView ==
  ASSUME StoreInv, ViewRight, BeginPop
  PROVE  ViewRight' /\ Mapped
<1>1. /\ pc = "read" /\ pc' = "pop" /\ todo' = todo \o data.closed
      /\ UNCHANGED <<containers, data, closing, connects, view>>
  BY DEF BeginPop
<1>2. Held' = Held /\ Receiving' = Receiving /\ Sending' = Sending /\ pollfds' = pollfds
  BY <1>1, SidesKept DEF containers
<1>3. ToSet(todo') = ToSet(todo) \cup ToSet(data.closed)
  <2>1. todo \in Seq(Fds) /\ data.closed \in Seq(Fds)
    BY DEF StoreInv, Typed, UpdateDatas
  <2> QED BY <1>1, <2>1, ToSetConcat
<1>4. Reporting'
  <2>1. Known' = Known /\ Addressed(data') = Addressed(data)
    BY <1>1 DEF Known
  <2>2. ToSet(todo') \cap Receiving' \subseteq ToSet(data'.closed)
    BY <1>1, <1>2, <1>3 DEF ViewRight, Reporting, Updating
  <2>3. Reporting /\ Updating
    BY <1>1 DEF ViewRight, Updating
  <2> QED BY <1>1, <1>2, <2>1, <2>2, <2>3 DEF Reporting
<1>5. Popping'
  BY <1>1, <1>3 DEF Popping
<1>6. InClose'
  BY <1>1, <1>2 DEF ViewRight, InClose
<1>7. AtRest' /\ Pushing' /\ Stopping' /\ StoppingAll' /\ Reading'
  BY <1>1 DEF AtRest, Pushing, Stopping, StoppingAll, Reading
<1> QED BY <1>1, <1>4, <1>5, <1>6, <1>7 DEF ViewRight, Mapped

(* One of them is popped: it was lost, or it was not read and is empty.     *)
LEMMA PopNextView ==
  ASSUME StoreInv, Sides', ViewRight, PopNext
  PROVE  ViewRight' /\ Mapped
<1>o. PICK o : o = Head(todo)
  OBVIOUS
<1>1. /\ pc = "pop" /\ todo # <<>> /\ todo \in Seq(Fds) /\ IsInjective(todo)
      /\ ToSet(todo) \subseteq Held
  BY DEF PopNext, StoreInv, Typed, Removing
<1>2. o \in ToSet(todo) /\ ToSet(Tail(todo)) = ToSet(todo) \ {o}
  BY <1>o, <1>1, TailDistinct
<1>3. /\ o \in Held /\ Pop(o) /\ todo' = Tail(todo)
      /\ UNCHANGED <<data, closing, connects, pc, view>>
  BY <1>o, <1>1, <1>2 DEF PopNext
<1>4. /\ Held' = Held \ {o} /\ Receiving' = Receiving \ {o} /\ Sending' = Sending \ {o}
      /\ pollfds'[1] = pollfds[1]
  BY <1>3, PopSides
<1>5. /\ ToSet(todo) \cap Receiving \subseteq ToSet(data.closed)
      /\ view.receiving \ ToSet(data.closed) \subseteq Held
      /\ Receiving = view.receiving \cap Held
      /\ Held \subseteq Known /\ Sending \subseteq view.sending
  BY <1>1 DEF ViewRight, Reporting, Updating
<1>6. /\ Known' = Known /\ Addressed(data') = Addressed(data)
      /\ ToSet(data'.closed) = ToSet(data.closed) /\ view' = view
  BY <1>3 DEF Known
<1>7. Reporting'
  <2>1. view.receiving \ ToSet(data.closed) \subseteq Held'
    BY <1>2, <1>4, <1>5
  <2>2. Receiving' = view.receiving \cap Held'
    BY <1>4, <1>5
  <2>3. ToSet(todo') \cap Receiving' \subseteq ToSet(data.closed)
    BY <1>2, <1>3, <1>4, <1>5
  <2>4. Held' \subseteq Known /\ Sending' \subseteq view.sending
    BY <1>4, <1>5
  <2>5. Reporting /\ Updating
    BY <1>1 DEF ViewRight, Updating
  <2> QED BY <1>3, <1>6, <2>1, <2>2, <2>3, <2>4, <2>5 DEF Reporting
<1>8. Popping'
  <2>1. ToSet(data.closed) \cap Held \subseteq ToSet(todo)
    BY <1>1 DEF ViewRight, Popping
  <2> QED BY <1>2, <1>3, <1>4, <1>6, <2>1 DEF Popping
<1>9. InClose'
  BY <1>3, <1>4 DEF ViewRight, InClose
<1>10. AtRest' /\ Pushing' /\ Stopping' /\ StoppingAll' /\ Reading'
  BY <1>1, <1>3 DEF AtRest, Pushing, Stopping, StoppingAll, Reading
<1> QED BY <1>3, <1>7, <1>8, <1>9, <1>10 DEF ViewRight, Mapped

-----------------------------------------------------------------------------
(* An error in Update or Close is one that AbstractStore has as well.       *)
LEMMA ErrorMapped ==
  ASSUME Lost, view.phase = "poll" \/ (view.phase = "closing" /\ view.sending # {})
  PROVE  Mapped
<1>1. Abstract!Fail
  BY SameNames DEF Abstract!Fail, Lost
<1>2. Abstract!UpdateFails \/ Abstract!CloseFails
  BY <1>1 DEF Abstract!UpdateFails, Abstract!CloseFails, FaultKinds
<1> QED BY <1>2 DEF Mapped, Abstract!StoreNext

(* A system call fails.  Close makes one only while it has data to send.    *)
LEMMA SystemCallFailsView ==
  ASSUME StoreInv, ViewRight, SystemCallFails
  PROVE  ViewRight' /\ Mapped
<1>1. /\ pc \in {"poll", "read", "write", "pop"}
      /\ pc = "poll" => (closing => connections # <<>>)
      /\ Fail
  BY DEF SystemCallFails, InSystemCall
<1>2. view.phase = "poll" \/ (view.phase = "closing" /\ view.sending # {})
  <2>1. CASE Updating
    BY <2>1 DEF ViewRight, Reporting
  <2>2. CASE ~Updating
    <3>1. pc = "poll"
      BY <1>1, <2>2 DEF Updating
    <3>2. /\ view.sending = Sending /\ view.phase = (IF closing THEN "closing" ELSE "poll")
          /\ closing => Receiving = {}
      BY <3>1 DEF ViewRight, AtRest, InClose, Phase
    <3>3. closing => Sending # {}
      <4> SUFFICES ASSUME closing PROVE Sending # {}
        OBVIOUS
      <4>1. connections # <<>> /\ connections \in Seq(BufferType)
        BY <1>1, <3>1 DEF StoreInv, Typed
      <4>2. 1 \in Indices
        BY <4>1 DEF Indices
      <4>3. Held # {}
        BY <4>2 DEF StoreInv, Aligned
      <4> QED BY <2>2, <3>2, <4>3, EachOnOneSide
    <3> QED BY <3>2, <3>3
  <2> QED BY <2>1, <2>2
<1> QED BY <1>1, <1>2, FailView, ErrorMapped

(* Close has nothing left to send.                                          *)
LEMMA ReturnCloseView ==
  ASSUME StoreInv, ViewRight, ReturnClose
  PROVE  ViewRight' /\ Mapped
<1>1. /\ pc = "poll" /\ pc' = "closed" /\ closing /\ connections = <<>> /\ view' = Seen'
      /\ UNCHANGED <<containers, data, closing>>
  BY DEF ReturnClose, local
<1>2. Receiving' = Receiving /\ Sending' = Sending /\ connections' = <<>>
  BY <1>1, SidesKept DEF containers
<1>3. Receiving = {} /\ Sending = {}
  BY <1>2, SidesEmpty
<1>4. view' = [receiving |-> {}, sending |-> {}, phase |-> "closed", data |-> NoUpdate]
  BY <1>1, <1>2, <1>3 DEF Seen, Phase
<1>5. /\ view.receiving = {} /\ view.sending = {} /\ view.phase = "closing"
      /\ view.data = NoUpdate /\ ~pollfds[1].in
  BY <1>1, <1>3 DEF ViewRight, AtRest, InClose, Seen, Phase
<1>6. Abstract!ReturnClose
  BY <1>4, <1>5 DEF Abstract!ReturnClose
<1>7. AtRest' /\ InClose'
  <2>1. pollfds' = pollfds
    BY <1>1 DEF containers
  <2> QED BY <1>1, <1>2, <1>3, <1>4, <1>5, <2>1 DEF AtRest, InClose, Phase
<1>8. /\ Pushing' /\ Stopping' /\ StoppingAll' /\ Reporting' /\ Reading' /\ Popping'
  BY <1>1 DEF Pushing, Stopping, StoppingAll, Reporting, Reading, Popping, Updating
<1> QED BY <1>6, <1>7, <1>8 DEF ViewRight, Mapped, Abstract!StoreNext

(* What the caller knows does not depend on what the peers have written.    *)
LEMMA PeersView ==
  ASSUME ViewRight,
         UNCHANGED <<containers, data, closing, todo, at, ready, connects, pc, view>>
  PROVE  ViewRight' /\ Mapped
<1>1. /\ Held' = Held /\ Receiving' = Receiving /\ Sending' = Sending
      /\ Known' = Known /\ pollfds' = pollfds /\ fdMap' = fdMap
  BY SidesKept DEF Known, containers
<1>2. AtRest' /\ InClose' /\ StoppingAll' /\ Popping'
  BY <1>1 DEF ViewRight, AtRest, InClose, StoppingAll, Popping, Seen, Phase
<1>3. PushedTo' = PushedTo /\ Through' = Through /\ Closed' = Closed
  BY DEF PushedTo, Through, Closed
<1>4. Pushing' /\ Stopping'
  BY <1>1, <1>3 DEF ViewRight, Pushing, Stopping
<1>5. Reporting' /\ Reading'
  BY <1>1 DEF ViewRight, Reporting, Reading, Updating
<1> QED BY <1>2, <1>4, <1>5 DEF ViewRight, Mapped

-----------------------------------------------------------------------------
(* The elements of a list.                                                  *)
LEMMA ElementsOf ==
  ASSUME NEW S, NEW q \in Seq(S)
  PROVE  /\ Len(q) \in Nat /\ DOMAIN q = 1 .. Len(q)
         /\ \A i \in DOMAIN q : q[i] \in S
         /\ q = [i \in DOMAIN q |-> q[i]]
OBVIOUS

(* What UpdateBuffers has collected is a batch that AbstractStore may       *)
(* report: each sender once, so no more of them than descriptors.           *)
LEMMA BatchOf ==
  ASSUME data \in UpdateDatas, Addressed(data) \subseteq Known,
         \A i, j \in DOMAIN data.msgs : data.msgs[i].fd = data.msgs[j].fd => i = j,
         NEW senders, senders = [i \in DOMAIN data.msgs |-> data.msgs[i].fd]
  PROVE  /\ senders \in Abstract!Batches(Cardinality(Fds))
         /\ ToSet(senders) = Addressed(data)
<1>q. data.msgs \in Seq([fd : Fds, content : Fds])
  BY DEF UpdateDatas
<1>1. PICK n \in Nat : n = Len(data.msgs)
  BY <1>q
<1>2. DOMAIN data.msgs = 1 .. n /\ \A i \in 1 .. n : data.msgs[i].fd \in Fds
  <2>1. \A i \in DOMAIN data.msgs : data.msgs[i] \in [fd : Fds, content : Fds]
    BY <1>q, ElementsOf
  <2> QED BY <1>q, <1>1, <2>1
<1>3. senders \in [1 .. n -> Fds] /\ senders \in [1 .. n -> Known] /\ IsInjective(senders)
  BY <1>2 DEF Addressed, IsInjective
<1>4. n <= Cardinality(Fds)
  <2>1. senders \in Injection(1 .. n, Fds)
    BY <1>3 DEF Injection
  <2>2. Cardinality(1 .. n) <= Cardinality(Fds) /\ Cardinality(1 .. n) = n
    BY ONLY <2>1, <1>1, FdsAssumption, FS_Injection, FS_Interval
  <2> QED BY <2>2
<1>5. Abstract!Readable = Known
  BY DEF Abstract!Readable, Abstract!Lingering, FaultKinds, Known
<1>6. senders \in Abstract!SeqOf(Abstract!Readable, Cardinality(Fds))
  <2>1. n \in 0 .. Cardinality(Fds)
    BY <1>4, FdsAssumption, FS_CardinalityType
  <2> QED BY <1>3, <1>5, <2>1 DEF Abstract!SeqOf
<1>7. senders \in Abstract!Batches(Cardinality(Fds))
  BY <1>3, <1>6, SameNames DEF Abstract!Batches
<1>8. ToSet(senders) = Addressed(data)
  BY <1>3, <1>2 DEF ToSet, Addressed
<1> QED BY <1>7, <1>8

(* All that Update returns at once: the messages, the lost connections, and *)
(* what has become of the others.                                           *)
LEMMA ReportMapped ==
  ASSUME StoreInv, ViewRight, pc = "pop", todo = <<>>, ~closing,
         NEW o, NEW new \in BOOLEAN, new <=> connects,
         view'.phase = "idle", view'.sending = Sending,
         view'.receiving = Receiving \cup (IF new THEN {o} ELSE {}),
         new => Free(Held) # {} /\ o = Min(Free(Held)),
         view'.data = [msgs   |-> data.msgs, closed |-> SetToSeq(ToSet(data.closed)),
                       opened |-> IF new THEN o ELSE NoFd]
  PROVE  Mapped
<1>s. PICK senders : senders = [i \in DOMAIN data.msgs |-> data.msgs[i].fd]
  OBVIOUS
<1>c. PICK contents : contents = [i \in DOMAIN data.msgs |-> data.msgs[i].content]
  OBVIOUS
<1>g. PICK gone : gone = ToSet(data.closed)
  OBVIOUS
<1>f. PICK flushed : flushed = (view.sending \ gone) \ Sending
  OBVIOUS
<1>1. /\ view.phase = "poll"
      /\ connects \/ Known # {}
      /\ Held \subseteq Known /\ view.receiving \ gone \subseteq Held
      /\ Receiving = view.receiving \cap Held /\ Sending \subseteq view.sending
      /\ Addressed(data) \cup gone \subseteq Known
      /\ \A i, j \in DOMAIN data.msgs : data.msgs[i].fd = data.msgs[j].fd => i = j
      /\ Addressed(data) \cap gone \subseteq view.sending
      /\ gone \cap Held = {}
  BY <1>g, EmptyList DEF ViewRight, Reporting, Popping, Updating
<1>2. Held = Receiving \cup Sending
  BY EachOnOneSide, EmptyList
<1>3. data \in UpdateDatas /\ data.msgs \in Seq([fd : Fds, content : Fds])
  BY DEF StoreInv, Typed, UpdateDatas
<1>4. /\ senders \in Abstract!Batches(Cardinality(Fds))
      /\ ToSet(senders) = Addressed(data)
  BY <1>s, <1>1, <1>3, BatchOf
<1>5. Abstract!Losable = Known /\ Abstract!InStore = Known
  BY DEF Abstract!Losable, Abstract!InStore, Abstract!Lingering, FaultKinds, Known
<1>6. gone \in SUBSET Abstract!Losable /\ Abstract!CanLose(gone, ToSet(senders))
  BY <1>1, <1>4, <1>5 DEF Abstract!CanLose, FaultKinds
<1>7. flushed \in Abstract!Flushes(gone)
  BY <1>f DEF Abstract!Flushes, FaultKinds
<1>8. DOMAIN senders = DOMAIN data.msgs /\ contents \in [DOMAIN senders -> Fds]
  <2>1. \A i \in DOMAIN data.msgs : data.msgs[i] \in [fd : Fds, content : Fds]
    BY <1>3, ElementsOf
  <2> QED BY <1>s, <1>c, <2>1
<1>9. [i \in DOMAIN senders |-> To(senders[i], contents[i])] = data.msgs
  <2>m. PICK msgs \in Seq([fd : Fds, content : Fds]) : msgs = data.msgs
    BY <1>3
  <2>e. msgs = [i \in DOMAIN msgs |-> msgs[i]]
    BY ONLY msgs \in Seq([fd : Fds, content : Fds]), ElementsOf
  <2>1. \A i \in DOMAIN data.msgs : data.msgs[i] \in [fd : Fds, content : Fds]
    BY <1>3, ElementsOf
  <2>2. ASSUME NEW i \in DOMAIN data.msgs
        PROVE  To(senders[i], contents[i]) = data.msgs[i]
    <3>r. PICK r \in [fd : Fds, content : Fds] : r = data.msgs[i]
      BY <2>1
    <3>1. r = [fd |-> r.fd, content |-> r.content]
      BY ONLY r \in [fd : Fds, content : Fds]
    <3>2. senders[i] = data.msgs[i].fd /\ contents[i] = data.msgs[i].content
      BY <1>s, <1>c
    <3> QED BY <3>r, <3>1, <3>2 DEF To
  <2>3. [i \in DOMAIN senders |-> To(senders[i], contents[i])]
            = [i \in DOMAIN data.msgs |-> data.msgs[i]]
    BY <1>8, <2>2
  <2> QED BY <2>m, <2>e, <2>3
<1>10. view.sending \ (flushed \cup gone) = Sending /\ view.receiving \ gone = Receiving
  <2>1. Sending \cap gone = {}
    BY <1>1, <1>2
  <2> QED BY <1>f, <1>1, <2>1
<1>11. Abstract!ReportOf(data.msgs, gone, flushed, new)
  <2>1. Sending \cup Receiving = Held
    BY <1>2
  <2>2. new => Min({o}) = o
    <3> SUFFICES ASSUME new PROVE Min({o}) = o
      OBVIOUS
    <3>1. Free(Held) \in SUBSET Nat /\ Free(Held) # {}
      BY FdsAssumption DEF Free
    <3>2. o \in Nat
      BY <3>1, MinIsMember
    <3>3. {o} \in SUBSET Nat /\ {o} # {}
      BY <3>2
    <3> QED BY <3>3, MinIsMember
  <2> QED BY <1>g, <1>10, <2>1, <2>2, SameNames DEF Abstract!ReportOf
<1>12. Abstract!Report(Cardinality(Fds))
  <2>1. \A i \in DOMAIN senders : Abstract!To(senders[i], contents[i])
                                     = To(senders[i], contents[i])
    BY SameNames
  <2>2. [i \in DOMAIN senders |-> Abstract!To(senders[i], contents[i])] = data.msgs
    BY <1>9, <2>1
  <2>3. new \/ Abstract!InStore # {}
    BY <1>1, <1>5
  <2>4. Abstract!CanLose(gone, Abstract!ToSet(senders))
    BY <1>6, SameNames
  <2>5. Abstract!ReportOf([i \in DOMAIN senders |-> Abstract!To(senders[i], contents[i])],
                          gone, flushed, new)
    BY <1>11, <2>2
  <2> QED BY <1>4, <1>6, <1>7, <1>8, <2>3, <2>4, <2>5, Zenon DEF Abstract!Report
<1>13. Abstract!ReturnUpdate
  <2>1. view.phase = "poll" /\ view'.phase = "idle"
    BY <1>1
  <2> QED BY <1>12, <2>1 DEF Abstract!ReturnUpdate
<1> QED BY <1>13 DEF Mapped, Abstract!StoreNext

(* An empty list has one order.                                             *)
LEMMA NothingInOrder == SetToSeq({}) = <<>>
<1>1. IsFiniteSet({})
  BY FS_EmptySet
<1>2. SetToSeq({}) \in Seq({})
  BY <1>1, SetToSeqOf
<1>3. ASSUME NEW q \in Seq({}), q # <<>> PROVE FALSE
  <2>1. Head(q) \in {}
    BY <1>3
  <2> QED BY <2>1
<1> QED BY <1>2, <1>3

(* Update returns to Close, which has read nothing and lost nobody, and     *)
(* polls again.                                                             *)
LEMMA GoesOnView ==
  ASSUME StoreInv, ViewRight, pc = "pop", closing,
         UNCHANGED <<containers, closing>>, pc' = "poll", view' = AnyOrder(Seen')
  PROVE  ViewRight' /\ Mapped
<1>1. Receiving' = Receiving /\ Sending' = Sending /\ pollfds' = pollfds
  BY SidesKept DEF containers
<1>2. /\ view.phase = "closing" /\ view.sending # {} /\ view.receiving = {}
      /\ view.data = NoUpdate /\ Receiving = view.receiving \cap Held
      /\ Sending \subseteq view.sending /\ ~pollfds[1].in
  BY DEF ViewRight, Reporting, Updating, InClose
<1>3. Seen' = [receiving |-> {}, sending |-> Sending, phase |-> "closing", data |-> NoUpdate]
  BY <1>1, <1>2 DEF Seen, Phase
<1>4. view' = [receiving |-> {}, sending |-> Sending, phase |-> "closing", data |-> NoUpdate]
  <2>1. ToSet(NoUpdate.closed) = {}
    BY EmptyList DEF NoUpdate
  <2>2. [NoUpdate EXCEPT !.closed = SetToSeq(ToSet(@))] = NoUpdate
    BY <2>1, NothingInOrder DEF NoUpdate
  <2> QED BY <1>3, <2>2 DEF AnyOrder
<1>5. Abstract!FlushMore
  <2>f. PICK flushed : flushed = view.sending \ Sending
    OBVIOUS
  <2>1. flushed \in Abstract!Flushes({}) /\ Sending = view.sending \ flushed
    BY <1>2, <2>f DEF Abstract!Flushes, FaultKinds
  <2> QED BY <1>2, <1>4, <2>1 DEF Abstract!FlushMore
<1>6. Abstract!KeepsClosing
  BY <1>2, <1>4, <1>5 DEF Abstract!KeepsClosing
<1>7. AtRest' /\ InClose'
  BY <1>1, <1>2, <1>3, <1>4 DEF AtRest, InClose, Phase
<1>8. Pushing' /\ Stopping' /\ StoppingAll' /\ Reporting' /\ Reading' /\ Popping'
  BY DEF Pushing, Stopping, StoppingAll, Reporting, Reading, Popping, Updating
<1> QED BY <1>6, <1>7, <1>8 DEF ViewRight, Mapped, Abstract!StoreNext

(* Update returns to its caller.                                            *)
LEMMA ReturnsView ==
  ASSUME StoreInv, Sides', ViewRight, UpdateListening, ~closing
  PROVE  ViewRight' /\ Mapped
<1>o. PICK o : o = Min(Free(InUse))
  OBVIOUS
<1>1. /\ pc = "pop" /\ todo = <<>> /\ pc' = "idle" /\ closing' = closing
      /\ view' = AnyOrder(Seen')
  BY DEF UpdateListening
<1>2. InUse = Held /\ data \in UpdateDatas
  BY DEF StoreInv, Typed, Connected, InUse
<1>n. PICK new \in BOOLEAN : new <=> connects
  OBVIOUS
<1>3. /\ Receiving' = Receiving \cup (IF new THEN {o} ELSE {}) /\ Sending' = Sending
      /\ data' = [data EXCEPT !.opened = IF new THEN o ELSE NoFd]
      /\ new => Free(Held) # {} /\ o = Min(Free(Held))
  <2>1. CASE ~connects
    <3>1. data' = [data EXCEPT !.opened = NoFd] /\ UNCHANGED containers
      BY <2>1 DEF UpdateListening
    <3> QED BY <1>n, <2>1, <3>1, SidesKept
  <2>2. CASE connects
    <3>1. Accept(o)
      BY <1>o, <2>2 DEF UpdateListening
    <3>2. Free(Held) # {}
      BY <2>2 DEF StoreInv, Connected, Typed, Free
    <3>3. o \in Fds \ Held
      <4>1. Free(Held) \in SUBSET Nat
        BY FdsAssumption DEF Free
      <4>2. Min(Free(Held)) \in Free(Held)
        BY <3>2, <4>1, MinIsMember
      <4> QED BY <1>o, <1>2, <4>2 DEF Free
    <3>4. Receiving' = Receiving \cup {o} /\ Sending' = Sending
      BY <3>1, <3>3, AcceptSides
    <3>5. data' = [data EXCEPT !.opened = o]
      BY <3>1 DEF Accept
    <3> QED BY <1>n, <1>o, <1>2, <2>2, <3>2, <3>4, <3>5
  <2> QED BY <2>1, <2>2
<1>4. /\ Seen'.receiving = Receiving' /\ Seen'.sending = Sending'
      /\ Seen'.phase = "idle" /\ Seen'.data = data'
      /\ Seen' = [receiving |-> Receiving', sending |-> Sending', phase |-> "idle",
                  data |-> data']
  BY <1>1 DEF Seen, Phase
<1>5. data' = [msgs |-> data.msgs, closed |-> data.closed,
               opened |-> IF new THEN o ELSE NoFd]
  BY <1>2, <1>3 DEF UpdateDatas
<1>6. view' = [receiving |-> Receiving', sending |-> Sending', phase |-> "idle",
               data |-> [msgs   |-> data.msgs, closed |-> SetToSeq(ToSet(data.closed)),
                         opened |-> IF new THEN o ELSE NoFd]]
  BY <1>1, <1>4, <1>5 DEF AnyOrder
<1>7. Mapped
  BY <1>1, <1>3, <1>6, <1>n, ReportMapped
<1>8. AtRest'
  BY <1>1, <1>6 DEF AtRest, Phase
<1>9. /\ InClose' /\ Pushing' /\ Stopping' /\ StoppingAll' /\ Reporting' /\ Reading'
      /\ Popping'
  BY <1>1 DEF InClose, Pushing, Stopping, StoppingAll, Reporting, Reading, Popping,
              Updating
<1> QED BY <1>7, <1>8, <1>9 DEF ViewRight

(* The end of Update, whoever called it.                                    *)
LEMMA UpdateListeningView ==
  ASSUME StoreInv, Sides', ViewRight, UpdateListening
  PROVE  ViewRight' /\ Mapped
<1>1. CASE ~closing
  BY <1>1, ReturnsView
<1>2. CASE closing /\ (data.msgs # <<>> \/ data.closed # <<>>)
  <2>1. Fail /\ pc = "pop"
    BY <1>2 DEF UpdateListening
  <2>2. view.phase = "closing" /\ view.sending # {}
    BY <1>2, <2>1 DEF ViewRight, Reporting, Updating
  <2> QED BY <2>1, <2>2, FailView, ErrorMapped
<1>3. CASE closing /\ ~ (data.msgs # <<>> \/ data.closed # <<>>)
  <2>1. pc = "pop" /\ ~connects
    BY <1>3 DEF UpdateListening, ViewRight, Reporting, Updating
  <2>2. UNCHANGED <<containers, closing>> /\ pc' = "poll" /\ view' = AnyOrder(Seen')
    BY <1>3, <2>1 DEF UpdateListening
  <2> QED BY <1>3, <2>1, <2>2, GoesOnView
<1> QED BY <1>1, <1>2, <1>3

-----------------------------------------------------------------------------
(* The store that Listen leaves is the abstract store's first state.        *)
LEMMA InitView == Init => ViewRight /\ Abstract!StoreInit
<1> SUFFICES ASSUME Init PROVE ViewRight /\ Abstract!StoreInit
  OBVIOUS
<1>1. /\ connections = <<>> /\ data = NoUpdate /\ closing = FALSE /\ pc = "idle"
      /\ view = Seen
  BY DEF Init
<1>2. Receiving = {} /\ Sending = {}
  BY <1>1 DEF Receiving, Sending, Indices
<1>3. view = [receiving |-> {}, sending |-> {}, phase |-> "idle", data |-> NoUpdate]
  BY <1>1, <1>2 DEF Seen, Phase
<1>4. Abstract!StoreInit
  BY <1>3, SameNames DEF Abstract!StoreInit
<1>5. AtRest
  BY <1>1, <1>2, <1>3 DEF AtRest, Phase
<1>6. InClose /\ Pushing /\ Stopping /\ StoppingAll /\ Reporting /\ Reading /\ Popping
  BY <1>1 DEF InClose, Pushing, Stopping, StoppingAll, Reporting, Reading, Popping, Updating
<1> QED BY <1>4, <1>5, <1>6 DEF ViewRight

(* Every step keeps ViewRight, and is a step of AbstractStore or one that   *)
(* the caller does not see.                                                 *)
LEMMA NextView ==
  ASSUME StoreInv, Sides', ViewRight, [Next]_vars
  PROVE  ViewRight' /\ Mapped
<1>1. CASE CallUpdate \/ CallClose
  <2>1. view' = view
    BY <1>1 DEF CallUpdate, CallClose
  <2> QED BY <1>1, <2>1, CallUpdateView, CallCloseView DEF Mapped
<1>2. CASE Step
  <2>1. CASE PushBuffer \/ BeginStop \/ BeginPoll
    BY <2>1, PushBufferView, BeginStopView, BeginPollView
  <2>2. CASE StopReceiving
    BY <2>2, StopOneView, StopNextView
  <2>3. CASE PollReady \/ PollTimeout \/ SystemCallFails
    BY <2>3, PollReadyView, PollTimeoutView, SystemCallFailsView
  <2>4. CASE SkipRead \/ Receive \/ ReceiveEnd \/ SkipWrite \/ SendFails
    BY <2>4, SkipView, ReceiveView, LostView
  <2>5. CASE \E n \in 0 .. MaxUnsent : Flush(n)
    <3>1. 0 .. MaxUnsent \subseteq Nat
      OBVIOUS
    <3> QED BY <2>5, <3>1, FlushView
  <2>6. CASE BeginPop \/ PopNext \/ UpdateListening \/ ReturnClose
    BY <2>6, BeginPopView, PopNextView, UpdateListeningView, ReturnCloseView
  <2> QED BY <1>2, <2>1, <2>2, <2>3, <2>4, <2>5, <2>6 DEF Step
<1>3. CASE \/ \E fd \in Fds : PeerSends(fd) \/ PeerLeaves(fd)
           \/ Terminated \/ UNCHANGED vars
  <2>1. UNCHANGED <<containers, data, closing, todo, at, ready, connects, pc, view>>
    BY <1>3 DEF PeerSends, PeerLeaves, Terminated, vars, local
  <2> QED BY <2>1, PeersView
<1> QED BY <1>1, <1>2, <1>3 DEF Next

(* At every point the caller's knowledge differs from what the store holds  *)
(* by what this call has done so far, and by nothing else.                  *)
THEOREM ViewInvariant == Spec => []ViewRight
<1>1. Spec => [](StoreInv /\ Sides)
  BY SidesRight, StoreInvariant, PTL
<1>2. Init => ViewRight
  BY InitView
<1>3. StoreInv /\ Sides' /\ ViewRight /\ [Next]_vars => ViewRight'
  BY NextView
<1> QED BY <1>1, <1>2, <1>3, PTL DEF Spec

(* The store takes no step that AbstractStore does not: what Server assumes *)
(* of ConnectionStore is what its code does.                                *)
THEOREM StoreRefines == Spec => Implements
<1>1. Spec => [](StoreInv /\ Sides /\ ViewRight)
  BY SidesRight, StoreInvariant, ViewInvariant, PTL
<1>2. Init => Abstract!StoreInit
  BY InitView
<1>3. StoreInv /\ Sides' /\ ViewRight /\ [Next]_vars
         => [Abstract!StoreNext]_(Abstract!storeVars)
  <2> SUFFICES ASSUME StoreInv, Sides', ViewRight, [Next]_vars
               PROVE  [Abstract!StoreNext]_(Abstract!storeVars)
    OBVIOUS
  <2>1. Mapped
    BY NextView
  <2>2. view' = view => UNCHANGED Abstract!storeVars
    BY DEF Abstract!storeVars
  <2> QED BY <2>1, <2>2 DEF Mapped
<1> QED BY <1>1, <1>2, <1>3, PTL DEF Spec, Implements, Abstract!StoreSpec
=============================================================================
