---------------------------- MODULE StoreProofs -----------------------------
(***************************************************************************)
(* Theorems about ConnectionStore, for every set of descriptors and every  *)
(* way of calling Update and Close.                                        *)
(*                                                                         *)
(* StoreInv is the inductive invariant.  InStep is not inductive alone:    *)
(* Pop keeps the containers in step only for an fd that is held, so the    *)
(* fds to be popped must be held, once each; they are because UpdateBuffers *)
(* collects each while it stands at its index.  FlagsMatch and NothingCut   *)
(* need to know why an fd is among them.                                    *)
(***************************************************************************)
EXTENDS ConnectionStore, LoopLemmas

PollfdType == [fd : Fds \cup {NoFd}, in : BOOLEAN, out : BOOLEAN]
BufferType == [fd : Fds, incoming : Seq(Fds), outgoing : 0 .. MaxUnsent]
PeerType   == [state : {"none", "up", "left"}, arrived : Seq(Fds)]
Positions  == {"idle", "push", "stop", "poll", "read", "write", "pop", "closed", "error"}

Typed ==
    /\ pollfds \in Seq(PollfdType) /\ connections \in Seq(BufferType)
    /\ Held \subseteq Fds
    /\ data \in UpdateDatas /\ todo \in Seq(Fds)
    /\ at \in Nat \ {0} /\ pc \in Positions
    /\ peers \in [Fds -> PeerType]

(* The containers, index by index and fd by fd.                             *)
Aligned ==
    /\ Len(pollfds) = Len(connections) + 1
    /\ \A fd \in Held : fdMap[fd] \in Indices /\ connections[fdMap[fd]].fd = fd
    /\ \A i \in Indices : /\ connections[i].fd \in Held
                          /\ fdMap[connections[i].fd] = i
                          /\ PollfdOf(i).fd = connections[i].fd

(* What is open at the other end, and what has come from there.  A          *)
(* connection waits to be accepted only while there is a descriptor for it. *)
Connected ==
    /\ connects => Held # Fds
    /\ \A fd \in Fds : (peers[fd].state # "none" <=> fd \in Held)
    /\ \A fd \in Fds : \A i \in DOMAIN peers[fd].arrived : peers[fd].arrived[i] = fd
    /\ \A fd \in Held : \A i \in DOMAIN BufferFor(fd).incoming :
                            BufferFor(fd).incoming[i] = fd

(* POLLOUT where there is something to send, and that where there is no     *)
(* POLLIN, unless the connection is about to be popped.                     *)
Updating == pc \in {"read", "write", "pop"}
Polled ==
    \A fd \in Held :
        /\ PollfdFor(fd).out <=> BufferFor(fd).outgoing # 0
        /\ \/ PollfdFor(fd).in \/ BufferFor(fd).outgoing # 0
           \/ Updating /\ fd \in ToSet(todo)

(* The messages that are still to be pushed fit.                            *)
ToPush(fd) == {i \in DOMAIN data.msgs : i >= at /\ data.msgs[i].fd = fd}
Room ==
    pc = "push" => \A fd \in Held :
                      BufferFor(fd).outgoing + Cardinality(ToPush(fd)) <= MaxUnsent

(* The fds collected for removal: those before the index UpdateBuffers is   *)
(* at, each once, with nothing to send or nobody to send it to.             *)
Done(fd) == BufferFor(fd).outgoing = 0
Gone(fd) == peers[fd].state = "left"
Collected(fds) == \A fd \in ToSet(fds) : fd \in Held /\ fdMap[fd] < at

Removing ==
    /\ pc \in {"idle", "push", "poll"} => todo = <<>>
    /\ pc \in {"read", "write"} =>
          /\ IsInjective(todo) /\ IsInjective(data.closed)
          /\ ToSet(todo) \cap ToSet(data.closed) = {}
          /\ Collected(todo) /\ Collected(data.closed)
          /\ \A fd \in ToSet(todo) : Done(fd)
          /\ \A fd \in ToSet(data.closed) : Gone(fd)
    /\ pc = "write" => at \in Indices
    /\ pc = "pop" =>
          /\ IsInjective(todo) /\ ToSet(todo) \subseteq Held
          /\ \A fd \in ToSet(todo) : Done(fd) \/ Gone(fd)

StoreInv == Typed /\ Aligned /\ Connected /\ Polled /\ Room /\ Removing /\ RightSender

-----------------------------------------------------------------------------
(* The gap in a container takes its last element.                           *)
LEMMA MovedIntoIs ==
  ASSUME NEW S, NEW seq \in Seq(S), NEW i \in DOMAIN seq
  PROVE  /\ MovedInto(seq, i) \in Seq(S) /\ Len(MovedInto(seq, i)) = Len(seq) - 1
         /\ \A j \in 1 .. Len(seq) - 1 :
               MovedInto(seq, i)[j] = IF j = i THEN seq[Len(seq)] ELSE seq[j]
<1> DEFINE n == Len(seq)
           moved == [seq EXCEPT ![i] = seq[n]]
<1>1. n \in Nat \ {0} /\ DOMAIN seq = 1 .. n /\ n \in DOMAIN seq
  OBVIOUS
<1>2. moved \in Seq(S) /\ Len(moved) = n /\ \A j \in 1 .. n : moved[j] \in S
  BY <1>1
<1>3. \A j \in 1 .. n : moved[j] = IF j = i THEN seq[n] ELSE seq[j]
  BY <1>1
<1>4. MovedInto(seq, i) = SubSeq(moved, 1, n - 1)
  <2>1. MovedInto(seq, i) = Front(moved)
    BY DEF MovedInto, Last
  <2> HIDE DEF moved, n
  <2> QED BY <1>2, <2>1 DEF Front
<1>5. SubSeq(moved, 1, n - 1) = [j \in 1 .. n - 1 |-> moved[j]]
  <2> HIDE DEF moved, n
  <2> QED BY <1>1, <1>2
<1> HIDE DEF moved, n
<1>6. MovedInto(seq, i) = [j \in 1 .. n - 1 |-> moved[j]]
  BY <1>4, <1>5
<1>7. MovedInto(seq, i) \in Seq(S) /\ Len(MovedInto(seq, i)) = n - 1
  BY <1>1, <1>2, <1>6
<1>8. \A j \in 1 .. n - 1 : MovedInto(seq, i)[j] = IF j = i THEN seq[n] ELSE seq[j]
  BY <1>1, <1>3, <1>6
<1> QED BY <1>7, <1>8 DEF n

(* A removal leaves every other connection as it was, at an index of its    *)
(* own in all three containers.                                             *)
SameFor(fd) == BufferFor(fd)' = BufferFor(fd) /\ PollfdFor(fd)' = PollfdFor(fd)

(* Pop of a held fd removes that fd and no other, and every other keeps its *)
(* pollfd and its buffer.                                                   *)
LEMMA PopAligned ==
  ASSUME Typed, Aligned, NEW fd \in Held, Pop(fd)
  PROVE  /\ pollfds' \in Seq(PollfdType) /\ connections' \in Seq(BufferType)
         /\ Held' = Held \ {fd} /\ Aligned'
         /\ \A g \in Held' : SameFor(g)
<1> DEFINE n == Len(connections)
           k == fdMap[fd]
<1>1. /\ n \in Nat /\ k \in 1 .. n /\ Indices = 1 .. n
      /\ DOMAIN pollfds = 1 .. n + 1 /\ Len(pollfds) = n + 1 /\ n \in Indices
  BY DEF Typed, Aligned, Indices
<1>2. /\ connections' \in Seq(BufferType) /\ Len(connections') = n - 1
      /\ \A j \in 1 .. n - 1 : connections'[j] =
              IF j = k THEN connections[n] ELSE connections[j]
  <2>1. connections' = MovedInto(connections, k) /\ k \in DOMAIN connections
    BY <1>1 DEF Pop, Indices
  <2> HIDE DEF k
  <2> QED BY <2>1, MovedIntoIs DEF Typed
<1>3. /\ pollfds' \in Seq(PollfdType) /\ Len(pollfds') = n
      /\ \A j \in 1 .. n : pollfds'[j] =
              IF j = k + 1 THEN pollfds[n + 1] ELSE pollfds[j]
  <2>1. pollfds' = MovedInto(pollfds, k + 1) /\ k + 1 \in DOMAIN pollfds
    BY <1>1 DEF Pop
  <2>2. pollfds \in Seq(PollfdType)
    BY DEF Typed
  <2> HIDE DEF k, n
  <2>3. /\ MovedInto(pollfds, k + 1) \in Seq(PollfdType)
        /\ Len(MovedInto(pollfds, k + 1)) = Len(pollfds) - 1
        /\ \A j \in 1 .. Len(pollfds) - 1 : MovedInto(pollfds, k + 1)[j] =
              IF j = k + 1 THEN pollfds[Len(pollfds)] ELSE pollfds[j]
    BY <2>1, <2>2, MovedIntoIs
  <2> QED BY <1>1, <2>1, <2>3
<1> DEFINE last == connections[n].fd
<1>4. last \in Held /\ fdMap[last] = n /\ Last(pollfds).fd = last
  BY <1>1 DEF Aligned, Last, PollfdOf
<1>5. /\ Held' = Held \ {fd}
      /\ \A g \in Held \ {fd} : fdMap'[g] = IF g = last THEN k ELSE fdMap[g]
  BY <1>4 DEF Pop, MapWithout, Held
<1>6. \A i \in Indices : \A j \in Indices : connections[i].fd = connections[j].fd => i = j
  BY DEF Aligned
<1>7. connections[k].fd = fd
  BY DEF Aligned
<1>8. ASSUME NEW g \in Held \ {fd}
      PROVE  /\ fdMap'[g] \in 1 .. n - 1
             /\ connections'[fdMap'[g]] = connections[fdMap[g]]
             /\ pollfds'[fdMap'[g] + 1] = pollfds[fdMap[g] + 1]
  <2>1. fdMap[g] \in 1 .. n /\ connections[fdMap[g]].fd = g /\ fdMap[g] # k
    BY <1>1, <1>7 DEF Aligned
  <2>2. CASE g = last
    <3>1. fdMap[g] = n /\ fdMap'[g] = k /\ k \in 1 .. n - 1
      BY <1>1, <1>4, <1>5, <2>1, <2>2
    <3> HIDE DEF n, k, last
    <3>2. k + 1 \in 1 .. n
      BY <1>1, <3>1
    <3> QED BY <1>2, <1>3, <3>1, <3>2
  <2>3. CASE g # last
    <3>1. fdMap[g] # n /\ fdMap'[g] = fdMap[g]
      BY <1>5, <2>1, <2>3
    <3>2. fdMap[g] \in 1 .. n - 1 /\ fdMap[g] + 1 \in 1 .. n
      BY <1>1, <2>1, <3>1
    <3> HIDE DEF n, k, last
    <3> QED BY <1>1, <1>2, <1>3, <2>1, <3>1, <3>2
  <2> QED BY <2>2, <2>3
<1>9. ASSUME NEW i \in 1 .. n - 1
      PROVE  /\ connections'[i].fd \in Held \ {fd}
             /\ fdMap'[connections'[i].fd] = i
             /\ pollfds'[i + 1].fd = connections'[i].fd
  <2>1. i \in Indices /\ i + 1 \in 1 .. n /\ n # i
    BY <1>1
  <2>2. CASE i = k
    <3>1. connections'[i] = connections[n] /\ pollfds'[i + 1] = pollfds[n + 1]
      BY <1>2, <1>3, <2>1, <2>2
    <3>2. last # fd
      BY <1>1, <1>4, <2>1, <2>2
    <3>3. pollfds[n + 1].fd = last
      BY <1>1 DEF Aligned, PollfdOf
    <3> QED BY <1>4, <1>5, <2>2, <3>1, <3>2, <3>3
  <2>3. CASE i # k
    <3>1. connections'[i] = connections[i] /\ pollfds'[i + 1] = pollfds[i + 1]
      <4>1. i + 1 # k + 1
        BY <1>1, <2>3
      <4> HIDE DEF k, n
      <4> QED BY <1>2, <1>3, <2>1, <2>3, <4>1
    <3>2. /\ connections[i].fd \in Held /\ fdMap[connections[i].fd] = i
          /\ pollfds[i + 1].fd = connections[i].fd
      BY <2>1 DEF Aligned, PollfdOf
    <3>3. connections[i].fd # fd /\ connections[i].fd # last
      BY <1>4, <2>1, <2>3, <3>2
    <3> QED BY <1>5, <3>1, <3>2, <3>3
  <2> QED BY <2>2, <2>3
<1>10. Indices' = 1 .. n - 1
  BY <1>1, <1>2 DEF Indices
<1>11. \A g \in Held' : SameFor(g)
  BY <1>5, <1>8 DEF SameFor, BufferFor, PollfdFor, PollfdOf
<1>12. Aligned'
  <2>1. Len(pollfds') = Len(connections') + 1
    BY <1>1, <1>2, <1>3
  <2>2. \A g \in Held' : fdMap'[g] \in Indices' /\ connections'[fdMap'[g]].fd = g
    BY <1>5, <1>8, <1>10 DEF Aligned
  <2>3. \A i \in Indices' : /\ connections'[i].fd \in Held'
                            /\ fdMap'[connections'[i].fd] = i
                            /\ pollfds'[i + 1].fd = connections'[i].fd
    BY <1>5, <1>9, <1>10
  <2> QED BY <2>1, <2>2, <2>3 DEF Aligned, PollfdOf
<1> QED BY <1>2, <1>3, <1>5, <1>11, <1>12

(* A connection that changes in its place.                                  *)
LEMMA SlotChanged ==
  ASSUME Typed, Aligned, NEW k \in Indices, NEW p \in PollfdType, NEW c \in BufferType,
         p.fd = connections[k].fd, c.fd = connections[k].fd,
         pollfds' = [pollfds EXCEPT ![k + 1] = p],
         connections' = [connections EXCEPT ![k] = c],
         fdMap' = fdMap
  PROVE  /\ pollfds' \in Seq(PollfdType) /\ connections' \in Seq(BufferType)
         /\ Held' = Held /\ Indices' = Indices /\ Aligned'
         /\ \A g \in Held : g # c.fd => SameFor(g)
         /\ BufferFor(c.fd)' = c /\ PollfdFor(c.fd)' = p
<1>1. /\ k \in 1 .. Len(connections) /\ Indices = 1 .. Len(connections)
      /\ Len(connections) \in Nat /\ DOMAIN pollfds = 1 .. Len(connections) + 1
      /\ connections \in Seq(BufferType) /\ pollfds \in Seq(PollfdType)
      /\ Len(pollfds) = Len(connections) + 1
  BY DEF Typed, Aligned, Indices
<1>2. /\ connections' \in Seq(BufferType) /\ Len(connections') = Len(connections)
      /\ \A i \in Indices : connections'[i] = IF i = k THEN c ELSE connections[i]
  BY <1>1
<1>3. /\ pollfds' \in Seq(PollfdType) /\ Len(pollfds') = Len(pollfds)
      /\ \A i \in Indices : pollfds'[i + 1] = IF i = k THEN p ELSE pollfds[i + 1]
  BY <1>1
<1>4. Held' = Held /\ Indices' = Indices
  BY <1>1, <1>2 DEF Held, Indices
<1>5. \A g \in Held : fdMap[g] \in Indices /\ connections[fdMap[g]].fd = g
  BY DEF Aligned
<1>6. Aligned'
  BY <1>1, <1>2, <1>3, <1>4 DEF Aligned, PollfdOf
<1>7. \A g \in Held : g # c.fd => SameFor(g)
  BY <1>2, <1>3, <1>5 DEF SameFor, BufferFor, PollfdFor, PollfdOf
<1>8. fdMap[c.fd] = k
  BY DEF Aligned
<1>9. BufferFor(c.fd)' = c /\ PollfdFor(c.fd)' = p
  BY <1>2, <1>3, <1>8 DEF BufferFor, PollfdFor, PollfdOf
<1> QED BY <1>2, <1>3, <1>4, <1>6, <1>7, <1>9

(* A connection is pushed: it comes last.                                   *)
LEMMA AcceptAligned ==
  ASSUME Typed, Aligned, NEW fd \in Fds \ Held, Accept(fd)
  PROVE  /\ pollfds' \in Seq(PollfdType) /\ connections' \in Seq(BufferType)
         /\ Held' = Held \cup {fd} /\ Aligned'
         /\ \A g \in Held : SameFor(g)
         /\ BufferFor(fd)' = Buffer(fd) /\ PollfdFor(fd)' = Pollfd(fd)
<1> DEFINE n == Len(connections)
<1>1. /\ n \in Nat /\ Indices = 1 .. n /\ Len(pollfds) = n + 1
      /\ connections \in Seq(BufferType) /\ pollfds \in Seq(PollfdType)
  BY DEF Typed, Aligned, Indices
<1>2. Buffer(fd) \in BufferType /\ Buffer(fd).fd = fd
  BY StoreAssumption DEF Buffer, BufferType
<1>3. Pollfd(fd) \in PollfdType /\ Pollfd(fd).fd = fd
  BY DEF Pollfd, PollfdType
<1>4. /\ connections' \in Seq(BufferType) /\ Len(connections') = n + 1
      /\ \A i \in 1 .. n : connections'[i] = connections[i]
      /\ connections'[n + 1] = Buffer(fd)
  <2>1. connections' = Append(connections, Buffer(fd))
    BY DEF Accept
  <2> QED BY <1>1, <1>2, <2>1
<1>5. /\ pollfds' \in Seq(PollfdType) /\ Len(pollfds') = n + 2
      /\ \A i \in 1 .. n : pollfds'[i + 1] = pollfds[i + 1]
      /\ pollfds'[n + 2] = Pollfd(fd)
  <2>1. pollfds' = Append(pollfds, Pollfd(fd))
    BY DEF Accept
  <2> QED BY <1>1, <1>3, <2>1
<1>6. /\ Held' = Held \cup {fd} /\ Indices' = 1 .. n + 1
      /\ fdMap'[fd] = n + 1 /\ \A g \in Held : fdMap'[g] = fdMap[g]
  BY <1>1, <1>4 DEF Accept, Held, Indices
<1>7. \A g \in Held : fdMap[g] \in 1 .. n /\ connections[fdMap[g]].fd = g
  BY <1>1 DEF Aligned
<1> HIDE DEF n
<1>8. \A g \in Held : SameFor(g)
  BY <1>1, <1>4, <1>5, <1>6, <1>7 DEF SameFor, BufferFor, PollfdFor, PollfdOf
<1>9. BufferFor(fd)' = Buffer(fd) /\ PollfdFor(fd)' = Pollfd(fd)
  <2>1. fdMap'[fd] + 1 = n + 2
    BY <1>1, <1>6
  <2> QED BY <1>4, <1>5, <1>6, <2>1 DEF BufferFor, PollfdFor, PollfdOf
<1>10. Aligned'
  <2>1. \A g \in Held' : fdMap'[g] \in Indices' /\ connections'[fdMap'[g]].fd = g
    <3> SUFFICES ASSUME NEW g \in Held'
                 PROVE  fdMap'[g] \in Indices' /\ connections'[fdMap'[g]].fd = g
      OBVIOUS
    <3>1. CASE g = fd
      BY <1>1, <1>2, <1>4, <1>6, <3>1
    <3>2. CASE g # fd
      BY <1>1, <1>4, <1>6, <1>7, <3>2
    <3> QED BY <3>1, <3>2
  <2>2. ASSUME NEW i \in Indices'
        PROVE  /\ connections'[i].fd \in Held'
               /\ fdMap'[connections'[i].fd] = i
               /\ pollfds'[i + 1].fd = connections'[i].fd
    <3>1. CASE i = n + 1
      <4>1. i + 1 = n + 2
        BY <1>1, <3>1
      <4> QED BY <1>2, <1>3, <1>4, <1>5, <1>6, <3>1, <4>1
    <3>2. CASE i # n + 1
      <4>1. i \in 1 .. n /\ i \in Indices
        BY <1>1, <1>6, <3>2
      <4> QED BY <1>4, <1>5, <1>6, <4>1 DEF Aligned, PollfdOf
    <3> QED BY <3>1, <3>2
  <2>3. Len(pollfds') = Len(connections') + 1
    BY <1>1, <1>4, <1>5
  <2> QED BY <2>1, <2>2, <2>3 DEF Aligned, PollfdOf
<1> QED BY <1>4, <1>5, <1>6, <1>8, <1>9, <1>10

-----------------------------------------------------------------------------
(* With no connections there is nothing to keep.                            *)
Empty ==
    /\ pollfds = <<Pollfd(NoFd)>> /\ connections = <<>> /\ fdMap = <<>>
    /\ data = NoUpdate /\ todo = <<>> /\ at = 1 /\ connects = FALSE
    /\ peers = [fd \in Fds |-> NoPeer]
    /\ pc \in {"idle", "error"}

(* A store with no connection satisfies the invariant.                      *)
LEMMA EmptyStore == Empty => StoreInv
<1> SUFFICES ASSUME Empty PROVE StoreInv
  OBVIOUS
<1>1. Held = {} /\ Indices = {} /\ Len(connections) = 0 /\ Len(pollfds) = 1
  BY DEF Empty, Held, Indices
<1>2. NoUpdate \in UpdateDatas /\ Pollfd(NoFd) \in PollfdType /\ NoPeer \in PeerType
  BY DEF NoUpdate, UpdateDatas, Pollfd, PollfdType, NoPeer, PeerType
<1>3. Typed
  <2>1. pollfds \in Seq(PollfdType)
    BY <1>2 DEF Empty
  <2>2. peers \in [Fds -> PeerType] /\ data \in UpdateDatas
    BY <1>2 DEF Empty
  <2>3. connections \in Seq(BufferType) /\ todo \in Seq(Fds) /\ at \in Nat \ {0}
    BY DEF Empty
  <2>4. pc \in Positions
    BY DEF Empty, Positions
  <2> QED BY <1>1, <2>1, <2>2, <2>3, <2>4 DEF Typed
<1>4. Aligned
  BY <1>1 DEF Aligned
<1>5. Connected
  <2>1. \A fd \in Fds : peers[fd].state = "none" /\ peers[fd].arrived = <<>>
    BY DEF Empty, NoPeer
  <2> QED BY <1>1, <2>1 DEF Connected, Empty
<1>6. Polled /\ Room
  BY <1>1 DEF Polled, Room
<1>7. Removing
  BY DEF Removing, Empty
<1>8. RightSender
  BY DEF RightSender, Empty, NoUpdate
<1> QED BY <1>3, <1>4, <1>5, <1>6, <1>7, <1>8 DEF StoreInv

(* A call that returns an error leaves an empty store.                      *)
LEMMA FailInv ==
  ASSUME Fail
  PROVE  StoreInv'
<1>1. Empty' => StoreInv'
  BY EmptyStore, PTL
<1>2. Empty'
  BY DEF Fail, Empty
<1> QED BY <1>1, <1>2

(* Steps that leave the connections alone.                                  *)
LEMMA Unmoved ==
  ASSUME StoreInv, UNCHANGED <<containers, peers>>
  PROVE  /\ Held' = Held /\ Indices' = Indices /\ Aligned'
         /\ \A fd \in Held : SameFor(fd)
         /\ (connects' => Held # Fds) => Connected'
         /\ \A fd : Done(fd)' = Done(fd) /\ Gone(fd)' = Gone(fd)
         /\ pollfds' \in Seq(PollfdType) /\ connections' \in Seq(BufferType)
         /\ peers' \in [Fds -> PeerType] /\ Held' \subseteq Fds
<1>1. pollfds' = pollfds /\ connections' = connections /\ fdMap' = fdMap /\ peers' = peers
  BY DEF containers
<1>2. Held' = Held /\ Indices' = Indices /\ \A i : PollfdOf(i)' = PollfdOf(i)
  BY <1>1 DEF Held, Indices, PollfdOf
<1>3. \A fd : BufferFor(fd)' = BufferFor(fd) /\ PollfdFor(fd)' = PollfdFor(fd)
  BY <1>1 DEF BufferFor, PollfdFor, PollfdOf
<1>4. Aligned'
  BY <1>1, <1>2 DEF Aligned, StoreInv
<1>5. (connects' => Held # Fds) => Connected'
  BY <1>1, <1>2, <1>3 DEF Connected, StoreInv
<1>6. \A fd : Done(fd)' = Done(fd) /\ Gone(fd)' = Gone(fd)
  BY <1>1, <1>3 DEF Done, Gone
<1> QED BY <1>1, <1>2, <1>3, <1>4, <1>5, <1>6 DEF SameFor, StoreInv, Typed

(* Steps that change no connection and forget no removal keep the flags.    *)
LEMMA PolledKept ==
  ASSUME StoreInv, Held' = Held, \A fd \in Held : SameFor(fd),
         \A fd \in Held : Updating /\ fd \in ToSet(todo) => Updating' /\ fd \in ToSet(todo')
  PROVE  Polled'
BY DEF Polled, SameFor, StoreInv

(* Going from one activity to the next.                                     *)
LEMMA CallUpdateInv ==
  ASSUME StoreInv, CallUpdate
  PROVE  StoreInv'
<1>1. /\ UNCHANGED <<containers, peers, todo, connects>> /\ at' = 1 /\ pc' = "push"
      /\ pc = "idle" /\ todo = <<>>
  BY DEF CallUpdate, StoreInv, Removing
<1>2. PICK input \in Inputs : /\ data' = input
                              /\ \A fd \in Fds : Unsent(fd, input) <= MaxUnsent
  BY DEF CallUpdate
<1>3. /\ data' \in UpdateDatas
      /\ \A i \in DOMAIN data'.msgs : data'.msgs[i].content = data'.msgs[i].fd
  BY <1>2, StoreAssumption
<1>4. Typed'
  BY <1>1, <1>3, Unmoved DEF Typed, Positions, StoreInv
<1>5. Connected' /\ Aligned' /\ Held' = Held /\ \A fd \in Held : SameFor(fd)
  BY <1>1, Unmoved DEF Connected, StoreInv
<1>6. Polled'
  BY <1>1, <1>5, PolledKept DEF Updating
<1>7. Room'
  <2> SUFFICES ASSUME NEW fd \in Held'
               PROVE  BufferFor(fd)'.outgoing + Cardinality(ToPush(fd)') <= MaxUnsent
    BY DEF Room
  <2>1. fd \in Held /\ fd \in Fds /\ BufferFor(fd)' = BufferFor(fd)
    BY <1>5 DEF SameFor, StoreInv, Typed
  <2>2. ToPush(fd)' = {i \in DOMAIN data'.msgs : data'.msgs[i].fd = fd}
    <3>1. data'.msgs \in Seq([fd : Fds, content : Fds])
      BY <1>3 DEF UpdateDatas
    <3>2. \A i \in DOMAIN data'.msgs : i >= 1
      BY <3>1
    <3> QED BY <1>1, <3>2 DEF ToPush
  <2>3. Unsent(fd, data') <= MaxUnsent
    BY <1>2, <2>1
  <2> QED BY <2>1, <2>2, <2>3 DEF Unsent
<1>8. Removing'
  BY <1>1 DEF Removing
<1>9. RightSender'
  BY <1>3 DEF RightSender
<1> QED BY <1>4, <1>5, <1>6, <1>7, <1>8, <1>9 DEF StoreInv

(* Close begins: every connection is to be stopped.                         *)
LEMMA CallCloseInv ==
  ASSUME StoreInv, CallClose
  PROVE  StoreInv'
<1>1. /\ connections' = connections /\ fdMap' = fdMap /\ UNCHANGED <<peers, at, connects>>
      /\ data' = NoUpdate /\ pc' = "stop" /\ pc = "idle"
      /\ todo' = [i \in Indices |-> PollfdOf(i).fd]
      /\ pollfds' = [pollfds EXCEPT ![1].in = FALSE]
  BY DEF CallClose
<1>2. /\ Indices = 1 .. Len(connections) /\ Len(connections) \in Nat
      /\ Len(pollfds) = Len(connections) + 1 /\ pollfds \in Seq(PollfdType)
      /\ connections \in Seq(BufferType)
  BY DEF StoreInv, Typed, Aligned, Indices
<1>3. /\ pollfds' \in Seq(PollfdType) /\ Len(pollfds') = Len(pollfds)
      /\ \A i \in Indices : pollfds'[i + 1] = pollfds[i + 1]
  <2>1. PICK p \in PollfdType : pollfds' = [pollfds EXCEPT ![1] = p]
    <3>1. 1 \in DOMAIN pollfds /\ pollfds[1] \in PollfdType
      BY <1>2
    <3>2. [pollfds[1] EXCEPT !.in = FALSE] \in PollfdType
      BY <3>1 DEF PollfdType
    <3> QED BY <1>1, <3>1, <3>2
  <2> QED BY <1>2, <2>1
<1>4. Held' = Held /\ Indices' = Indices /\ \A i \in Indices : PollfdOf(i)' = PollfdOf(i)
  BY <1>1, <1>3 DEF Held, Indices, PollfdOf
<1>5. \A fd \in Held : fdMap[fd] \in Indices
  BY DEF StoreInv, Aligned
<1>6. \A fd \in Held : SameFor(fd)
  BY <1>1, <1>4, <1>5 DEF SameFor, BufferFor, PollfdFor
<1>7. todo' \in Seq(Fds)
  <2>1. \A i \in Indices : PollfdOf(i).fd \in Fds
    BY DEF StoreInv, Aligned, Typed
  <2> QED BY <1>1, <1>2, <2>1
<1>8. Typed'
  BY <1>1, <1>3, <1>4, <1>7 DEF Typed, StoreInv, NoUpdate, UpdateDatas, Positions
<1>9. Aligned'
  BY <1>1, <1>3, <1>4 DEF Aligned, StoreInv
<1>10. Connected'
  BY <1>1, <1>4, <1>6 DEF Connected, StoreInv, SameFor
<1>11. Polled'
  BY <1>1, <1>4, <1>6, PolledKept DEF Updating
<1>12. Room' /\ Removing' /\ RightSender'
  BY <1>1 DEF Room, Removing, RightSender, NoUpdate
<1> QED BY <1>8, <1>9, <1>10, <1>11, <1>12 DEF StoreInv

(* From the loop over messages to the loop over fds to close.               *)
LEMMA BeginStopInv ==
  ASSUME StoreInv, BeginStop
  PROVE  StoreInv'
<1>1. /\ UNCHANGED <<containers, peers, data, at, connects>> /\ pc' = "stop"
      /\ pc = "push" /\ todo' = data.closed
  BY DEF BeginStop
<1>2. Typed'
  BY <1>1, Unmoved DEF Typed, Positions, StoreInv, UpdateDatas
<1>3. Connected' /\ Aligned' /\ Held' = Held /\ \A fd \in Held : SameFor(fd)
  BY <1>1, Unmoved DEF Connected, StoreInv
<1>4. Polled'
  BY <1>1, <1>3, PolledKept DEF Updating
<1>5. Room' /\ Removing' /\ RightSender'
  BY <1>1 DEF Room, Removing, RightSender, StoreInv
<1> QED BY <1>2, <1>3, <1>4, <1>5 DEF StoreInv

(* To the poll and from it back to the caller.                              *)
LEMMA ToPollInv ==
  ASSUME StoreInv, BeginPoll \/ PollTimeout \/ ReturnClose
  PROVE  StoreInv'
<1>1. /\ UNCHANGED <<containers, peers, data, todo, at, connects>>
      /\ pc' \in {"poll", "idle", "closed"} /\ pc \in {"stop", "poll"}
      /\ todo = <<>>
  BY DEF BeginPoll, PollTimeout, ReturnClose, local, StoreInv, Removing
<1>2. Typed'
  BY <1>1, Unmoved DEF Typed, Positions, StoreInv
<1>3. Connected' /\ Aligned' /\ Held' = Held /\ \A fd \in Held : SameFor(fd)
  BY <1>1, Unmoved DEF Connected, StoreInv
<1>4. Polled'
  BY <1>1, <1>3, PolledKept DEF Updating
<1>5. Room' /\ Removing' /\ RightSender'
  BY <1>1 DEF Room, Removing, RightSender, StoreInv
<1> QED BY <1>2, <1>3, <1>4, <1>5 DEF StoreInv

(* poll returns with events: UpdateBuffers starts with nothing collected.   *)
LEMMA PollReadyInv ==
  ASSUME StoreInv, PollReady
  PROVE  StoreInv'
<1>1. /\ UNCHANGED <<containers, peers, todo>> /\ pc' = "read" /\ pc = "poll" /\ at' = 1
      /\ todo = <<>> /\ data' = Cleared(data)
  BY DEF PollReady, StoreInv, Removing
<1>2. connects' => Held # Fds
  <2>1. connects' => Cardinality(Held) < Cardinality(Fds)
    BY DEF PollReady
  <2>2. ~ (Cardinality(Fds) < Cardinality(Fds))
    BY FS_CardinalityType, FdsAssumption
  <2> QED BY <2>1, <2>2
<1>3. data' \in UpdateDatas /\ data'.msgs = <<>> /\ data'.closed = <<>>
  <2>1. data \in UpdateDatas
    BY DEF StoreInv, Typed
  <2>2. data' = [msgs |-> <<>>, closed |-> <<>>, opened |-> data.opened]
    BY <1>1, <2>1 DEF Cleared, UpdateDatas
  <2>3. <<>> \in Seq(Fds) /\ <<>> \in Seq([fd : Fds, content : Fds])
    OBVIOUS
  <2> QED BY <2>1, <2>2, <2>3 DEF UpdateDatas
<1>4. Typed'
  BY <1>1, <1>3, Unmoved DEF Typed, Positions, StoreInv
<1>5. Connected' /\ Aligned' /\ Held' = Held /\ \A fd \in Held : SameFor(fd)
  BY <1>1, <1>2, Unmoved
<1>6. Polled'
  BY <1>1, <1>5, PolledKept DEF Updating
<1>7. Removing'
  BY <1>1, <1>3, EmptyList DEF Removing, Collected
<1>8. Room' /\ RightSender'
  BY <1>1, <1>3 DEF Room, RightSender
<1> QED BY <1>4, <1>5, <1>6, <1>7, <1>8 DEF StoreInv

(* UpdateBuffers at a connection whose buffer does not change.              *)
LEMMA SkipInv ==
  ASSUME StoreInv, SkipRead \/ SkipWrite
  PROVE  StoreInv'
<1>1. /\ UNCHANGED <<containers, peers, data, todo, connects>>
      /\ pc \in {"read", "write"} /\ pc' \in {"read", "write"}
      /\ at' \in {at, at + 1} /\ at \in Nat \ {0}
      /\ pc' = "write" => at' = at /\ at \in Indices
  BY DEF SkipRead, SkipWrite, local, StoreInv, Typed
<1>2. Typed'
  BY <1>1, Unmoved DEF Typed, Positions, StoreInv
<1>3. /\ Connected' /\ Aligned' /\ Held' = Held /\ \A fd \in Held : SameFor(fd)
      /\ Indices' = Indices /\ fdMap' = fdMap
      /\ \A fd : Done(fd)' = Done(fd) /\ Gone(fd)' = Gone(fd)
  BY <1>1, Unmoved DEF Connected, StoreInv, containers
<1>4. Polled'
  BY <1>1, <1>3, PolledKept DEF Updating
<1>5. Removing'
  <2>1. \A fd \in Held : fdMap[fd] \in Nat
    BY DEF StoreInv, Aligned, Indices, Typed
  <2>2. Collected(todo)' /\ Collected(data.closed)'
    BY <1>1, <1>3, <2>1 DEF Collected, StoreInv, Removing
  <2> QED BY <1>1, <1>3, <2>2 DEF StoreInv, Removing
<1>6. Room' /\ RightSender'
  BY <1>1 DEF Room, RightSender, StoreInv
<1> QED BY <1>2, <1>3, <1>4, <1>5, <1>6 DEF StoreInv

(* The connection that read or write finds gone.                            *)
LEMMA LostInv ==
  ASSUME StoreInv, ReceiveEnd \/ SendFails
  PROVE  StoreInv'
<1>1. /\ UNCHANGED <<containers, peers, todo, connects>>
      /\ pc \in {"read", "write"} /\ pc' = "read"
      /\ at' = at + 1 /\ at \in Nat \ {0} /\ at \in Indices
      /\ data' = [data EXCEPT !.closed = Append(@, Reported)]
      /\ peers[Here.fd].state = "left"
  BY DEF ReceiveEnd, SendFails, StoreInv, Typed, Removing
<1>2. Reported = Here.fd /\ Here.fd \in Held /\ fdMap[Here.fd] = at /\ Here.fd \in Fds
  BY <1>1 DEF StoreInv, Aligned, Typed, Reported, Here
<1>3. data \in UpdateDatas /\ data.closed \in Seq(Fds)
  BY DEF StoreInv, Typed, UpdateDatas
<1>4. /\ data' \in UpdateDatas /\ data'.msgs = data.msgs
      /\ data'.closed = Append(data.closed, Here.fd)
  <2>1. Append(data.closed, Here.fd) \in Seq(Fds)
    BY <1>2, <1>3
  <2>2. data' = [data EXCEPT !.closed = Append(data.closed, Here.fd)]
    BY <1>1, <1>2
  <2> QED BY <1>3, <2>1, <2>2 DEF UpdateDatas
<1>5. Typed'
  BY <1>1, <1>4, Unmoved DEF Typed, Positions, StoreInv
<1>6. /\ Connected' /\ Aligned' /\ Held' = Held /\ \A fd \in Held : SameFor(fd)
      /\ Indices' = Indices /\ fdMap' = fdMap
      /\ \A fd : Done(fd)' = Done(fd) /\ Gone(fd)' = Gone(fd)
  BY <1>1, Unmoved DEF Connected, StoreInv, containers
<1>7. Polled'
  BY <1>1, <1>6, PolledKept DEF Updating
<1>8. /\ IsInjective(todo) /\ IsInjective(data.closed)
      /\ ToSet(todo) \cap ToSet(data.closed) = {}
      /\ Collected(todo) /\ Collected(data.closed)
      /\ \A fd \in ToSet(todo) : Done(fd)
      /\ \A fd \in ToSet(data.closed) : Gone(fd)
  BY <1>1 DEF StoreInv, Removing
<1>9. Here.fd \notin ToSet(todo) /\ Here.fd \notin ToSet(data.closed)
  BY <1>1, <1>2, <1>8 DEF Collected
<1>10. IsInjective(data'.closed) /\ ToSet(data'.closed) = ToSet(data.closed) \cup {Here.fd}
  BY <1>2, <1>3, <1>4, <1>8, <1>9, AppendDistinct, ToSetAppend
<1>11. Removing'
  <2>1. \A fd \in Held : fdMap[fd] \in Nat
    BY DEF StoreInv, Aligned, Indices, Typed
  <2>2. Collected(todo)' /\ Collected(data.closed)'
    BY <1>1, <1>2, <1>6, <1>8, <1>10, <2>1 DEF Collected
  <2>3. \A fd \in ToSet(data'.closed) : Gone(fd)
    BY <1>1, <1>8, <1>10 DEF Gone
  <2>4. ToSet(todo) \cap ToSet(data'.closed) = {}
    BY <1>8, <1>9, <1>10
  <2> QED BY <1>1, <1>6, <1>8, <1>10, <2>2, <2>3, <2>4 DEF Removing
<1>12. Room' /\ RightSender'
  BY <1>1, <1>4 DEF Room, RightSender, StoreInv
<1> QED BY <1>5, <1>6, <1>7, <1>11, <1>12 DEF StoreInv

(* From the loop over connections to the removal of those collected.        *)
LEMMA BeginPopInv ==
  ASSUME StoreInv, BeginPop
  PROVE  StoreInv'
<1>1. /\ UNCHANGED <<containers, peers, data, connects>>
      /\ pc = "read" /\ pc' = "pop" /\ at' = 1 /\ todo' = todo \o data.closed
  BY DEF BeginPop
<1>2. todo \in Seq(Fds) /\ data.closed \in Seq(Fds)
  BY DEF StoreInv, Typed, UpdateDatas
<1>3. /\ IsInjective(todo) /\ IsInjective(data.closed)
      /\ ToSet(todo) \cap ToSet(data.closed) = {}
      /\ Collected(todo) /\ Collected(data.closed)
      /\ \A fd \in ToSet(todo) : Done(fd)
      /\ \A fd \in ToSet(data.closed) : Gone(fd)
  BY <1>1 DEF StoreInv, Removing
<1>4. IsInjective(todo') /\ ToSet(todo') = ToSet(todo) \cup ToSet(data.closed)
  BY <1>1, <1>2, <1>3, ConcatDistinct, ToSetConcat
<1>5. Typed'
  BY <1>1, <1>2, Unmoved DEF Typed, Positions, StoreInv
<1>6. /\ Connected' /\ Aligned' /\ Held' = Held /\ \A fd \in Held : SameFor(fd)
      /\ \A fd : Done(fd)' = Done(fd) /\ Gone(fd)' = Gone(fd)
  BY <1>1, Unmoved DEF Connected, StoreInv
<1>7. Polled'
  BY <1>1, <1>4, <1>6, PolledKept DEF Updating
<1>8. Removing'
  BY <1>1, <1>3, <1>4, <1>6 DEF Removing, Collected
<1>9. Room' /\ RightSender'
  BY <1>1 DEF Room, RightSender, StoreInv
<1> QED BY <1>5, <1>6, <1>7, <1>8, <1>9 DEF StoreInv

-----------------------------------------------------------------------------
(* Steps that change one connection in its place: what they leave alone.    *)
LEMMA SlotKept ==
  ASSUME StoreInv, NEW fd \in Held, NEW p \in PollfdType, NEW c \in BufferType,
         p.fd = fd, c.fd = fd,
         pollfds' = [pollfds EXCEPT ![fdMap[fd] + 1] = p],
         connections' = [connections EXCEPT ![fdMap[fd]] = c],
         fdMap' = fdMap
  PROVE  /\ pollfds' \in Seq(PollfdType) /\ connections' \in Seq(BufferType)
         /\ Held' = Held /\ Indices' = Indices /\ Aligned'
         /\ \A g \in Held : g # fd => SameFor(g)
         /\ BufferFor(fd)' = c /\ PollfdFor(fd)' = p
<1>1. fdMap[fd] \in Indices /\ connections[fdMap[fd]].fd = fd
  BY DEF StoreInv, Aligned
<1>2. Typed /\ Aligned
  BY DEF StoreInv
<1> QED BY <1>1, <1>2, SlotChanged

(* A connection of the store, in each container.                            *)
LEMMA Connection ==
  ASSUME StoreInv, NEW fd \in Held
  PROVE  /\ fd \in Fds /\ fdMap[fd] \in Indices /\ fdMap[fd] \in Nat \ {0}
         /\ BufferFor(fd) \in BufferType /\ BufferFor(fd).fd = fd
         /\ PollfdFor(fd) \in PollfdType /\ PollfdFor(fd).fd = fd
         /\ BufferFor(fd) = connections[fdMap[fd]]
         /\ PollfdFor(fd) = pollfds[fdMap[fd] + 1]
         /\ fdMap[fd] + 1 \in DOMAIN pollfds
<1>1. /\ Indices = 1 .. Len(connections) /\ Len(connections) \in Nat
      /\ Len(pollfds) = Len(connections) + 1 /\ pollfds \in Seq(PollfdType)
      /\ connections \in Seq(BufferType) /\ Held \subseteq Fds
  BY DEF StoreInv, Typed, Aligned, Indices
<1>2. fdMap[fd] \in Indices /\ connections[fdMap[fd]].fd = fd
      /\ PollfdOf(fdMap[fd]).fd = fd
  BY DEF StoreInv, Aligned
<1>3. fdMap[fd] + 1 \in DOMAIN pollfds
  BY <1>1, <1>2
<1> QED BY <1>1, <1>2, <1>3 DEF BufferFor, PollfdFor, PollfdOf

(* PushBuffer writes one outgoing message into the buffer of its fd.        *)
LEMMA PushBufferInv ==
  ASSUME StoreInv, PushBuffer
  PROVE  StoreInv'
<1>o. PICK o : o = data.msgs[at].fd
  OBVIOUS
<1>1. CASE o \notin Held
  BY <1>o, <1>1, FailInv DEF PushBuffer
<1>2. CASE o \in Held
  <2>p. PICK p : p = Polling(PollfdFor(o))
    OBVIOUS
  <2>c. PICK c : c = [BufferFor(o) EXCEPT !.outgoing = @ + 1]
    OBVIOUS
  <2>1. /\ pc = "push" /\ at <= Len(data.msgs) /\ at \in Nat \ {0}
        /\ UNCHANGED <<fdMap, data, todo, connects, peers, pc>> /\ at' = at + 1
        /\ pollfds' = [pollfds EXCEPT ![fdMap[o] + 1] = Polling(@)]
        /\ connections' = [connections EXCEPT ![fdMap[o]].outgoing = @ + 1]
    BY <1>o, <1>2 DEF PushBuffer, StoreInv, Typed
  <2>2. data.msgs \in Seq([fd : Fds, content : Fds]) /\ at \in DOMAIN data.msgs
    <3>1. data.msgs \in Seq([fd : Fds, content : Fds])
      BY DEF StoreInv, Typed, UpdateDatas
    <3> QED BY <2>1, <3>1
  <2>3. IsFiniteSet(DOMAIN data.msgs)
    BY <2>2, FS_Interval
  <2>4. \A g : IsFiniteSet(ToPush(g)) /\ Cardinality(ToPush(g)) \in Nat
    <3> SUFFICES ASSUME NEW g PROVE IsFiniteSet(ToPush(g)) /\ Cardinality(ToPush(g)) \in Nat
      OBVIOUS
    <3>1. ToPush(g) \in SUBSET DOMAIN data.msgs
      BY DEF ToPush
    <3> QED BY <2>3, <3>1, FS_Subset, FS_CardinalityType
  <2>q. /\ DOMAIN data.msgs \subseteq Nat /\ at \in DOMAIN data.msgs /\ at \in Nat
        /\ \A i \in DOMAIN data.msgs : i >= at <=> i >= at + 1 \/ i = at
    BY <2>1, <2>2
  <2>5. ToPush(o)' = ToPush(o) \ {at} /\ at \in ToPush(o)
    <3>1. ToPush(o)' = {i \in DOMAIN data.msgs : i >= at + 1 /\ data.msgs[i].fd = o}
      BY <2>1 DEF ToPush
    <3> QED BY <1>o, <2>q, <3>1 DEF ToPush
  <2>6. \A g : g # o => ToPush(g)' = ToPush(g)
    <3> SUFFICES ASSUME NEW g, g # o PROVE ToPush(g)' = ToPush(g)
      OBVIOUS
    <3>1. ToPush(g)' = {i \in DOMAIN data.msgs : i >= at + 1 /\ data.msgs[i].fd = g}
      BY <2>1 DEF ToPush
    <3> QED BY <1>o, <2>q, <3>1 DEF ToPush
  <2>7. Cardinality(ToPush(o)') = Cardinality(ToPush(o)) - 1
    BY <2>4, <2>5, FS_RemoveElement
  <2>8. o \in Held /\ BufferFor(o) \in BufferType /\ PollfdFor(o) \in PollfdType
        /\ BufferFor(o).fd = o /\ PollfdFor(o).fd = o /\ o \in Fds
    BY <1>2, Connection
  <2>9. BufferFor(o).outgoing + Cardinality(ToPush(o)) <= MaxUnsent
    BY <2>1, <2>8 DEF StoreInv, Room
  <2>10. BufferFor(o).outgoing \in Nat /\ BufferFor(o).outgoing + 1 \in 0 .. MaxUnsent
    <3>1. BufferFor(o).outgoing \in Nat /\ MaxUnsent \in Nat
      BY <2>8, StoreAssumption DEF BufferType
    <3>2. Cardinality(ToPush(o)) \in Nat /\ Cardinality(ToPush(o)) - 1 \in Nat
      <4>1. Cardinality(ToPush(o)') \in Nat
        BY <2>4, <2>5, FS_RemoveElement, FS_CardinalityType
      <4> QED BY <2>4, <2>7, <4>1
    <3> QED BY <2>9, <3>1, <3>2
  <2>11. p \in PollfdType /\ p.fd = o /\ p.out /\ p.in = PollfdFor(o).in
    BY <2>p, <2>8 DEF Polling, PollfdType
  <2>12. /\ c \in BufferType /\ c.fd = o /\ c.outgoing = BufferFor(o).outgoing + 1
         /\ c.incoming = BufferFor(o).incoming
    BY <2>c, <2>8, <2>10 DEF BufferType
  <2>13. /\ pollfds' = [pollfds EXCEPT ![fdMap[o] + 1] = p]
         /\ connections' = [connections EXCEPT ![fdMap[o]] = c]
    BY <1>2, <2>p, <2>c, <2>1, Connection
  <2>14. /\ pollfds' \in Seq(PollfdType) /\ connections' \in Seq(BufferType)
         /\ Held' = Held /\ Indices' = Indices /\ Aligned'
         /\ \A g \in Held : g # o => SameFor(g)
         /\ BufferFor(o)' = c /\ PollfdFor(o)' = p
    <3>1. o \in Held /\ fdMap' = fdMap /\ p \in PollfdType /\ c \in BufferType
      BY <1>2, <2>1, <2>11, <2>12
    <3>2. p.fd = o /\ c.fd = o
      BY <2>11, <2>12
    <3> QED BY <2>13, <3>1, <3>2, SlotKept
  <2>15. Typed'
    BY <2>1, <2>14 DEF Typed, StoreInv
  <2>16. Connected'
    BY <2>1, <2>12, <2>14 DEF Connected, StoreInv, SameFor
  <2>17. Polled'
    <3>1. c.outgoing # 0
      BY <2>10, <2>12
    <3> QED BY <2>1, <2>11, <2>14, <3>1 DEF Polled, StoreInv, SameFor, Updating
  <2>18. Room'
    <3> SUFFICES ASSUME NEW g \in Held
                 PROVE  BufferFor(g)'.outgoing + Cardinality(ToPush(g)') <= MaxUnsent
      BY <2>14 DEF Room
    <3>1. CASE g = o
      <4>1. Cardinality(ToPush(g)') = Cardinality(ToPush(o)) - 1
        BY <2>7, <3>1
      <4> QED BY <2>4, <2>9, <2>10, <2>12, <2>14, <3>1, <4>1
    <3>2. CASE g # o
      BY <2>1, <2>6, <2>14, <3>2 DEF SameFor, StoreInv, Room
    <3> QED BY <3>1, <3>2
  <2>19. Removing' /\ RightSender'
    BY <2>1 DEF Removing, RightSender, StoreInv
  <2> QED BY <2>14, <2>15, <2>16, <2>17, <2>18, <2>19 DEF StoreInv
<1> QED BY <1>1, <1>2

(* What a removal leaves of the other connections.                          *)
LEMMA PopKept ==
  ASSUME StoreInv, NEW fd \in Held, Pop(fd), connects' = connects
  PROVE  /\ pollfds' \in Seq(PollfdType) /\ connections' \in Seq(BufferType)
         /\ Held' = Held \ {fd} /\ Aligned' /\ Connected'
         /\ peers' \in [Fds -> PeerType]
         /\ \A g \in Held' : /\ SameFor(g)
                             /\ Done(g)' = Done(g) /\ Gone(g)' = Gone(g)
<1>1. /\ pollfds' \in Seq(PollfdType) /\ connections' \in Seq(BufferType)
      /\ Held' = Held \ {fd} /\ Aligned'
      /\ \A g \in Held' : SameFor(g)
  BY PopAligned DEF StoreInv
<1>2. fd \in Fds /\ NoPeer \in PeerType /\ NoPeer.state = "none" /\ NoPeer.arrived = <<>>
  BY Connection DEF NoPeer, PeerType
<1>3. peers \in [Fds -> PeerType] /\ peers' = [peers EXCEPT ![fd] = NoPeer]
  BY DEF StoreInv, Typed, Pop
<1>4. peers' \in [Fds -> PeerType] /\ peers'[fd] = NoPeer
      /\ \A g \in Fds : g # fd => peers'[g] = peers[g]
  BY <1>2, <1>3
<1>5. Connected'
  <2>1. connects' => Held' # Fds
    BY <1>1, <1>2
  <2>2. \A g \in Fds : (peers'[g].state # "none" <=> g \in Held')
    BY <1>1, <1>2, <1>4 DEF StoreInv, Connected
  <2>3. \A g \in Fds : \A i \in DOMAIN peers'[g].arrived : peers'[g].arrived[i] = g
    BY <1>2, <1>4 DEF StoreInv, Connected
  <2>4. \A g \in Held' : \A i \in DOMAIN BufferFor(g)'.incoming :
                            BufferFor(g)'.incoming[i] = g
    BY <1>1 DEF StoreInv, Connected, SameFor
  <2> QED BY <2>1, <2>2, <2>3, <2>4 DEF Connected
<1>6. \A g \in Held' : Done(g)' = Done(g) /\ Gone(g)' = Gone(g)
  BY <1>1, <1>4 DEF Done, Gone, SameFor, StoreInv, Typed
<1> QED BY <1>1, <1>4, <1>5, <1>6

(* The rest of a list without repetitions.                                  *)
LEMMA TailDistinct ==
  ASSUME NEW S, NEW q \in Seq(S), q # <<>>, IsInjective(q)
  PROVE  /\ Tail(q) \in Seq(S) /\ IsInjective(Tail(q)) /\ Head(q) \in ToSet(q)
         /\ ToSet(Tail(q)) = ToSet(q) \ {Head(q)}
<1>1. /\ Len(q) \in Nat \ {0} /\ DOMAIN q = 1 .. Len(q) /\ Head(q) = q[1]
      /\ Tail(q) \in Seq(S) /\ DOMAIN Tail(q) = 1 .. Len(q) - 1
      /\ \A i \in 1 .. Len(q) - 1 : Tail(q)[i] = q[i + 1]
  OBVIOUS
<1>2. IsInjective(Tail(q))
  <2> SUFFICES ASSUME NEW i \in 1 .. Len(q) - 1, NEW j \in 1 .. Len(q) - 1,
                      q[i + 1] = q[j + 1]
               PROVE  i = j
    BY <1>1 DEF IsInjective
  <2>1. i + 1 \in DOMAIN q /\ j + 1 \in DOMAIN q
    BY <1>1
  <2>2. i + 1 = j + 1
    BY <2>1 DEF IsInjective
  <2> QED BY <2>2
<1>3. ToSet(Tail(q)) \subseteq ToSet(q) \ {Head(q)}
  <2> SUFFICES ASSUME NEW i \in 1 .. Len(q) - 1
               PROVE  q[i + 1] \in ToSet(q) /\ q[i + 1] # q[1]
    BY <1>1 DEF ToSet
  <2>1. i + 1 \in DOMAIN q /\ 1 \in DOMAIN q /\ i + 1 # 1
    BY <1>1
  <2> QED BY <2>1 DEF IsInjective, ToSet
<1>4. ToSet(q) \ {Head(q)} \subseteq ToSet(Tail(q))
  <2> SUFFICES ASSUME NEW i \in 1 .. Len(q), q[i] # q[1]
               PROVE  q[i] \in ToSet(Tail(q))
    BY <1>1 DEF ToSet
  <2>1. i # 1
    OBVIOUS
  <2>2. i - 1 \in 1 .. Len(q) - 1 /\ (i - 1) + 1 = i
    BY <1>1, <2>1
  <2>3. Tail(q)[i - 1] = q[i]
    BY <1>1, <2>2
  <2> QED BY <1>1, <2>2, <2>3 DEF ToSet
<1>5. Head(q) \in ToSet(q)
  BY <1>1 DEF ToSet
<1> QED BY <1>1, <1>2, <1>3, <1>4, <1>5

(* StopReceiving closes one fd: it is polled for output only, or popped.    *)
LEMMA StopReceivingInv ==
  ASSUME StoreInv, StopReceiving
  PROVE  StoreInv'
<1>o. PICK o : o = Head(todo)
  OBVIOUS
<1>1. CASE o \notin Held
  BY <1>o, <1>1, FailInv DEF StopReceiving
<1>2. CASE o \in Held
  <2>1. /\ pc = "stop" /\ pc' = "stop" /\ todo # <<>> /\ todo' = Tail(todo)
        /\ data' = data /\ at' = at /\ connects' = connects
    BY <1>o, <1>2 DEF StopReceiving
  <2>2. todo' \in Seq(Fds)
    <3>1. todo \in Seq(Fds)
      BY DEF StoreInv, Typed
    <3> QED BY <2>1, <3>1
  <2>3. Removing' /\ Room' /\ RightSender'
    BY <2>1 DEF Removing, Room, RightSender, StoreInv
  <2>4. CASE ~Lingers(o)
    <3>1. Pop(o)
      BY <1>o, <1>2, <2>4 DEF StopReceiving
    <3>2. /\ pollfds' \in Seq(PollfdType) /\ connections' \in Seq(BufferType)
          /\ Held' = Held \ {o} /\ Aligned' /\ Connected'
          /\ peers' \in [Fds -> PeerType]
          /\ \A g \in Held' : SameFor(g)
      BY <1>2, <2>1, <3>1, PopKept
    <3>3. Typed'
      BY <2>1, <2>2, <3>2 DEF Typed, StoreInv
    <3>4. Polled'
      BY <2>1, <3>2 DEF Polled, StoreInv, SameFor, Updating
    <3> QED BY <2>3, <3>2, <3>3, <3>4 DEF StoreInv
  <2>5. CASE Lingers(o)
    <3>p. PICK p : p = [PollfdFor(o) EXCEPT !.in = FALSE]
      OBVIOUS
    <3>c. PICK c : c = [BufferFor(o) EXCEPT !.incoming = <<>>]
      OBVIOUS
    <3>1. /\ pollfds' = [pollfds EXCEPT ![fdMap[o] + 1].in = FALSE]
          /\ connections' = [connections EXCEPT ![fdMap[o]].incoming = <<>>]
          /\ fdMap' = fdMap /\ peers' = peers
      BY <1>o, <1>2, <2>5 DEF StopReceiving
    <3>0. /\ BufferFor(o) \in BufferType /\ BufferFor(o).fd = o
          /\ PollfdFor(o) \in PollfdType /\ PollfdFor(o).fd = o
      BY <1>2, Connection
    <3>2. p \in PollfdType /\ p.fd = o /\ p.out = PollfdFor(o).out
      BY <3>p, <3>0 DEF PollfdType
    <3>3. /\ c \in BufferType /\ c.fd = o /\ c.outgoing = BufferFor(o).outgoing
          /\ c.incoming = <<>>
      <4>1. <<>> \in Seq(Fds)
        OBVIOUS
      <4> QED BY <3>c, <3>0, <4>1 DEF BufferType
    <3>4. /\ pollfds' = [pollfds EXCEPT ![fdMap[o] + 1] = p]
          /\ connections' = [connections EXCEPT ![fdMap[o]] = c]
      BY <1>2, <3>p, <3>c, <3>1, Connection
    <3>5. /\ pollfds' \in Seq(PollfdType) /\ connections' \in Seq(BufferType)
          /\ Held' = Held /\ Indices' = Indices /\ Aligned'
          /\ \A g \in Held : g # o => SameFor(g)
          /\ BufferFor(o)' = c /\ PollfdFor(o)' = p
      BY <1>2, <3>1, <3>2, <3>3, <3>4, SlotKept
    <3>6. Typed'
      BY <2>1, <2>2, <3>1, <3>5 DEF Typed, StoreInv
    <3>7. Connected'
      <4>1. DOMAIN BufferFor(o)'.incoming = {}
        BY <3>3, <3>5
      <4>2. \A g \in Held' : \A i \in DOMAIN BufferFor(g)'.incoming :
                              BufferFor(g)'.incoming[i] = g
        BY <3>5, <4>1 DEF Connected, StoreInv, SameFor
      <4> QED BY <2>1, <3>1, <3>5, <4>2 DEF Connected, StoreInv
    <3>8. Polled'
      <4>1. c.outgoing # 0
        BY <2>5, <3>3 DEF Lingers
      <4> QED BY <1>2, <2>1, <3>2, <3>3, <3>5, <4>1 DEF Polled, StoreInv, SameFor, Updating
    <3> QED BY <2>3, <3>5, <3>6, <3>7, <3>8 DEF StoreInv
  <2> QED BY <2>4, <2>5
<1> QED BY <1>1, <1>2

(* Pop of the next fd collected leaves the others as they were.             *)
LEMMA PopNextInv ==
  ASSUME StoreInv, PopNext
  PROVE  StoreInv'
<1>o. PICK o : o = Head(todo)
  OBVIOUS
<1>1. /\ pc = "pop" /\ todo # <<>> /\ todo \in Seq(Fds) /\ IsInjective(todo)
      /\ ToSet(todo) \subseteq Held /\ \A fd \in ToSet(todo) : Done(fd) \/ Gone(fd)
  BY DEF PopNext, StoreInv, Typed, Removing
<1>2. /\ Tail(todo) \in Seq(Fds) /\ IsInjective(Tail(todo)) /\ o \in ToSet(todo)
      /\ ToSet(Tail(todo)) = ToSet(todo) \ {o}
  BY <1>o, <1>1, TailDistinct
<1>3. /\ o \in Held /\ Pop(o) /\ todo' = Tail(todo)
      /\ data' = data /\ at' = at /\ connects' = connects /\ pc' = pc
  BY <1>o, <1>1, <1>2 DEF PopNext
<1>4. /\ pollfds' \in Seq(PollfdType) /\ connections' \in Seq(BufferType)
      /\ Held' = Held \ {o} /\ Aligned' /\ Connected'
      /\ peers' \in [Fds -> PeerType]
      /\ \A g \in Held' : SameFor(g) /\ Done(g)' = Done(g) /\ Gone(g)' = Gone(g)
  BY <1>3, PopKept
<1>5. Typed'
  BY <1>2, <1>3, <1>4 DEF Typed, StoreInv
<1>6. Polled'
  BY <1>2, <1>3, <1>4 DEF Polled, StoreInv, SameFor, Updating
<1>7. Removing'
  <2>1. ToSet(todo') \subseteq Held' /\ IsInjective(todo')
    BY <1>1, <1>2, <1>3, <1>4
  <2>2. \A fd \in ToSet(todo') : Done(fd)' \/ Gone(fd)'
    BY <1>1, <1>2, <1>3, <1>4, <2>1
  <2> QED BY <1>1, <1>3, <2>1, <2>2 DEF Removing
<1>8. Room' /\ RightSender'
  BY <1>1, <1>3 DEF Room, RightSender, StoreInv
<1> QED BY <1>4, <1>5, <1>6, <1>7, <1>8 DEF StoreInv

(* A list of one fd only.                                                   *)
LEMMA OneFd ==
  ASSUME NEW o \in Fds, NEW q
  PROVE  q \in Seq({o}) <=> q \in Seq(Fds) /\ \A i \in DOMAIN q : q[i] = o
<1>1. ASSUME q \in Seq(Fds), \A i \in DOMAIN q : q[i] = o PROVE q \in Seq({o})
  <2>1. q = [i \in 1 .. Len(q) |-> q[i]] /\ Len(q) \in Nat /\ DOMAIN q = 1 .. Len(q)
    BY <1>1
  <2> QED BY <1>1, <2>1
<1>2. ASSUME q \in Seq({o}) PROVE q \in Seq(Fds) /\ \A i \in DOMAIN q : q[i] = o
  <2>1. q = [i \in 1 .. Len(q) |-> q[i]] /\ Len(q) \in Nat /\ DOMAIN q = 1 .. Len(q)
        /\ \A i \in 1 .. Len(q) : q[i] \in {o}
    BY <1>2
  <2> QED BY <2>1
<1> QED BY <1>1, <1>2

(* What has been read moves from the peer to the caller and the buffer.     *)
LEMMA ReceiveInv ==
  ASSUME StoreInv, Receive
  PROVE  StoreInv'
<1>o. PICK o : o = Here.fd
  OBVIOUS
<1>1. /\ pc = "read" /\ pc' = "write" /\ at \in Indices
      /\ UNCHANGED <<pollfds, fdMap, todo, at, connects>>
  BY DEF Receive
<1>2. o \in Held /\ fdMap[o] = at /\ Reported = o /\ BufferFor(o) = Here
  BY <1>o, <1>1 DEF StoreInv, Aligned, Reported, Here, BufferFor
<1>3. /\ o \in Fds /\ BufferFor(o) \in BufferType /\ BufferFor(o).fd = o
      /\ PollfdFor(o) \in PollfdType /\ PollfdFor(o).fd = o
      /\ PollfdFor(o) = pollfds[at + 1]
  BY <1>2, Connection
<1>4. /\ peers \in [Fds -> PeerType] /\ peers[o] \in PeerType
      /\ peers[o].arrived \in Seq({o}) /\ BufferFor(o).incoming \in Seq({o})
  <2>1. peers \in [Fds -> PeerType] /\ peers[o] \in PeerType
    BY <1>3 DEF StoreInv, Typed
  <2>2. peers[o].arrived \in Seq(Fds) /\ BufferFor(o).incoming \in Seq(Fds)
    BY <1>3, <2>1 DEF PeerType, BufferType
  <2>3. peers[o].arrived \in Seq({o})
    BY <1>3, <2>2, OneFd DEF StoreInv, Connected
  <2>4. BufferFor(o).incoming \in Seq({o})
    BY <1>2, <1>3, <2>2, OneFd DEF StoreInv, Connected
  <2> QED BY <2>1, <2>3, <2>4
<1>5. PICK n \in 0 .. Len(peers[o].arrived) :
        LET arrived  == peers[o].arrived
            incoming == Here.incoming \o SubSeq(arrived, 1, n)
        IN  /\ peers' = [peers EXCEPT ![o].arrived = SubSeq(arrived, n + 1, Len(arrived))]
            /\ IF incoming = <<>>
               THEN UNCHANGED <<connections, data>>
               ELSE /\ connections' = [connections EXCEPT ![at].incoming = Tail(incoming)]
                    /\ data' = [data EXCEPT !.msgs =
                                   Append(@, To(Reported, Head(incoming)))]
  BY <1>o DEF Receive
<1>6. PICK arrived : arrived = peers[o].arrived
  OBVIOUS
<1>7. PICK incoming : incoming = BufferFor(o).incoming \o SubSeq(arrived, 1, n)
  OBVIOUS
<1>8. PICK rest : rest = SubSeq(arrived, n + 1, Len(arrived))
  OBVIOUS
<1>9. /\ peers' = [peers EXCEPT ![o].arrived = rest]
      /\ incoming = <<>> => UNCHANGED <<connections, data>>
      /\ incoming # <<>> =>
            /\ connections' = [connections EXCEPT ![at].incoming = Tail(incoming)]
            /\ data' = [data EXCEPT !.msgs = Append(@, To(o, Head(incoming)))]
  BY <1>2, <1>5, <1>6, <1>7, <1>8
<1>10. incoming \in Seq({o}) /\ rest \in Seq({o})
  <2>1. arrived \in Seq({o}) /\ n \in 0 .. Len(arrived)
    BY <1>4, <1>6
  <2>2. SubSeq(arrived, 1, n) \in Seq({o}) /\ SubSeq(arrived, n + 1, Len(arrived)) \in Seq({o})
    BY <2>1
  <2> QED BY <1>4, <1>7, <1>8, <2>2
<1>11. /\ peers' \in [Fds -> PeerType]
       /\ \A g \in Fds : peers'[g].state = peers[g].state
       /\ \A g \in Fds : g # o => peers'[g] = peers[g]
       /\ peers'[o].arrived = rest
  <2>1. rest \in Seq(Fds)
    BY <1>3, <1>10, OneFd
  <2>2. [peers[o] EXCEPT !.arrived = rest] \in PeerType
    BY <1>4, <2>1 DEF PeerType
  <2>3. peers' = [peers EXCEPT ![o] = [peers[o] EXCEPT !.arrived = rest]]
    BY <1>3, <1>4, <1>9
  <2> QED BY <1>3, <1>4, <2>2, <2>3 DEF PeerType
<1>p. PICK p : p = PollfdFor(o)
  OBVIOUS
<1>c. PICK c : c = IF incoming = <<>> THEN BufferFor(o)
                   ELSE [BufferFor(o) EXCEPT !.incoming = Tail(incoming)]
  OBVIOUS
<1>12. /\ c \in BufferType /\ c.fd = o /\ c.outgoing = BufferFor(o).outgoing
       /\ c.incoming \in Seq({o})
  <2>1. CASE incoming = <<>>
    BY <1>3, <1>4, <1>c, <2>1
  <2>2. CASE incoming # <<>>
    <3>1. Tail(incoming) \in Seq({o})
      BY <1>10, <2>2
    <3>2. Tail(incoming) \in Seq(Fds)
      BY <1>3, <3>1, OneFd
    <3> QED BY <1>3, <1>c, <2>2, <3>1, <3>2 DEF BufferType
  <2> QED BY <2>1, <2>2
<1>13. /\ pollfds' = [pollfds EXCEPT ![fdMap[o] + 1] = p]
       /\ connections' = [connections EXCEPT ![fdMap[o]] = c]
  <2>1. pollfds' = [pollfds EXCEPT ![at + 1] = pollfds[at + 1]]
    BY <1>1 DEF StoreInv, Typed
  <2>2. CASE incoming = <<>>
    <3>1. connections' = [connections EXCEPT ![at] = connections[at]]
      BY <1>9, <2>2 DEF StoreInv, Typed
    <3> QED BY <1>2, <1>3, <1>p, <1>c, <2>1, <2>2, <3>1 DEF Here
  <2>3. CASE incoming # <<>>
    BY <1>2, <1>3, <1>9, <1>p, <1>c, <2>1, <2>3 DEF Here
  <2> QED BY <2>2, <2>3
<1>14. /\ pollfds' \in Seq(PollfdType) /\ connections' \in Seq(BufferType)
       /\ Held' = Held /\ Indices' = Indices /\ Aligned'
       /\ \A g \in Held : g # o => SameFor(g)
       /\ BufferFor(o)' = c /\ PollfdFor(o)' = p
  <2>1. o \in Held /\ fdMap' = fdMap /\ p \in PollfdType /\ c \in BufferType
    BY <1>1, <1>2, <1>3, <1>p, <1>12
  <2>2. p.fd = o /\ c.fd = o
    BY <1>3, <1>p, <1>12
  <2> QED BY <1>13, <2>1, <2>2, SlotKept
<1>15. /\ data' \in UpdateDatas /\ data'.closed = data.closed
       /\ \A i \in DOMAIN data'.msgs : data'.msgs[i].content = data'.msgs[i].fd
  <2>1. /\ data \in UpdateDatas /\ data.msgs \in Seq([fd : Fds, content : Fds])
        /\ \A i \in DOMAIN data.msgs : data.msgs[i].content = data.msgs[i].fd
    BY DEF StoreInv, Typed, UpdateDatas, RightSender
  <2>2. CASE incoming = <<>>
    BY <1>9, <2>1, <2>2
  <2>3. CASE incoming # <<>>
    <3>1. Head(incoming) = o
      <4>1. Head(incoming) \in {o}
        BY <1>10, <2>3
      <4> QED BY <4>1
    <3>m. PICK m : m = To(o, o)
      OBVIOUS
    <3>2. m \in [fd : Fds, content : Fds] /\ m.content = m.fd
      BY <1>3, <3>m DEF To
    <3>3. PICK msgs : msgs = Append(data.msgs, m)
      OBVIOUS
    <3>4. msgs \in Seq([fd : Fds, content : Fds])
          /\ \A i \in DOMAIN msgs : msgs[i].content = msgs[i].fd
      BY <2>1, <3>2, <3>3
    <3>5. data' = [data EXCEPT !.msgs = msgs]
      BY <1>9, <2>3, <3>1, <3>m, <3>3
    <3> QED BY <2>1, <3>4, <3>5 DEF UpdateDatas
  <2> QED BY <2>2, <2>3
<1>16. Typed'
  BY <1>1, <1>11, <1>14, <1>15 DEF Typed, StoreInv, Positions
<1>17. Connected'
  <2>1. \A i \in DOMAIN c.incoming : c.incoming[i] = o
    BY <1>3, <1>12, OneFd
  <2>2. \A i \in DOMAIN rest : rest[i] = o
    BY <1>3, <1>10, OneFd
  <2>3. \A g \in Fds : (peers'[g].state # "none" <=> g \in Held')
    BY <1>11, <1>14 DEF StoreInv, Connected
  <2>4. \A g \in Fds : \A i \in DOMAIN peers'[g].arrived : peers'[g].arrived[i] = g
    BY <1>11, <2>2 DEF StoreInv, Connected
  <2>5. \A g \in Held' : \A i \in DOMAIN BufferFor(g)'.incoming :
                            BufferFor(g)'.incoming[i] = g
    BY <1>14, <2>1 DEF StoreInv, Connected, SameFor
  <2> QED BY <1>1, <1>14, <2>3, <2>4, <2>5 DEF Connected, StoreInv
<1>18. Polled'
  BY <1>1, <1>12, <1>14, <1>p DEF Polled, StoreInv, SameFor, Updating
<1>19. Removing'
  <2>1. \A g \in Held : Done(g)' = Done(g) /\ Gone(g)' = Gone(g)
    BY <1>11, <1>12, <1>14 DEF Done, Gone, SameFor, StoreInv, Typed
  <2>2. Collected(todo)' /\ Collected(data.closed)'
    BY <1>1, <1>14, <1>15 DEF Collected, StoreInv, Removing
  <2>3. ToSet(todo) \subseteq Held /\ ToSet(data.closed) \subseteq Held
    BY <1>1 DEF Collected, StoreInv, Removing
  <2>4. (\A g \in ToSet(todo) : Done(g)') /\ (\A g \in ToSet(data.closed) : Gone(g)')
    BY <1>1, <2>1, <2>3 DEF StoreInv, Removing
  <2> QED BY <1>1, <1>14, <1>15, <2>2, <2>4 DEF Removing, StoreInv
<1>20. Room' /\ RightSender'
  BY <1>1, <1>15 DEF Room, RightSender
<1> QED BY <1>14, <1>16, <1>17, <1>18, <1>19, <1>20 DEF StoreInv

(* What has been written leaves the buffer, and a lingering connection with *)
(* nothing left is collected.                                               *)
LEMMA FlushInv ==
  ASSUME StoreInv, NEW n \in Nat, Flush(n)
  PROVE  StoreInv'
<1>o. PICK o : o = Here.fd
  OBVIOUS
<1>1. /\ pc = "write" /\ pc' = "read" /\ at \in Indices /\ at' = at + 1 /\ at \in Nat \ {0}
      /\ UNCHANGED <<fdMap, data, peers, connects>>
  BY DEF Flush, StoreInv, Removing, Typed
<1>2. o \in Held /\ fdMap[o] = at /\ Reported = o /\ BufferFor(o) = Here
  BY <1>o, <1>1 DEF StoreInv, Aligned, Reported, Here, BufferFor
<1>3. /\ o \in Fds /\ BufferFor(o) \in BufferType /\ BufferFor(o).fd = o
      /\ PollfdFor(o) \in PollfdType /\ PollfdFor(o).fd = o
      /\ PollfdFor(o) = pollfds[at + 1]
  BY <1>2, Connection
<1>4. BufferFor(o).outgoing \in Nat /\ n <= BufferFor(o).outgoing
      /\ BufferFor(o).outgoing - n \in 0 .. MaxUnsent
  <2>1. BufferFor(o).outgoing \in 0 .. MaxUnsent /\ n <= BufferFor(o).outgoing
    BY <1>2, <1>3 DEF Flush, BufferType
  <2> QED BY <2>1, StoreAssumption
<1>c. PICK c : c = [BufferFor(o) EXCEPT !.outgoing = BufferFor(o).outgoing - n]
  OBVIOUS
<1>5. /\ c \in BufferType /\ c.fd = o /\ c.outgoing = BufferFor(o).outgoing - n
      /\ c.incoming = BufferFor(o).incoming
  BY <1>3, <1>4, <1>c DEF BufferType
<1>6. connections' = [connections EXCEPT ![fdMap[o]] = c]
  BY <1>2, <1>c DEF Flush, Here
<1>p. PICK p : p = IF n = BufferFor(o).outgoing THEN [PollfdFor(o) EXCEPT !.out = FALSE]
                                               ELSE PollfdFor(o)
  OBVIOUS
<1>7. /\ p \in PollfdType /\ p.fd = o /\ p.in = PollfdFor(o).in
      /\ p.out = IF n = BufferFor(o).outgoing THEN FALSE ELSE PollfdFor(o).out
  <2>1. CASE n = BufferFor(o).outgoing
    <3>1. p = [PollfdFor(o) EXCEPT !.out = FALSE]
      BY <1>p, <2>1
    <3> QED BY <1>3, <2>1, <3>1 DEF PollfdType
  <2>2. CASE n # BufferFor(o).outgoing
    BY <1>3, <1>p, <2>2
  <2> QED BY <2>1, <2>2
<1>8. pollfds' = [pollfds EXCEPT ![fdMap[o] + 1] = p]
  <2>1. CASE n = BufferFor(o).outgoing
    <3>1. pollfds' = [pollfds EXCEPT ![at + 1].out = FALSE]
      BY <1>2, <2>1 DEF Flush
    <3> QED BY <1>2, <1>3, <1>p, <2>1, <3>1
  <2>2. CASE n # BufferFor(o).outgoing
    <3>1. pollfds' = pollfds
      BY <1>2, <2>2 DEF Flush
    <3>2. pollfds = [pollfds EXCEPT ![at + 1] = pollfds[at + 1]]
      BY DEF StoreInv, Typed
    <3> QED BY <1>2, <1>3, <1>p, <2>2, <3>1, <3>2
  <2> QED BY <2>1, <2>2
<1>9. /\ pollfds' \in Seq(PollfdType) /\ connections' \in Seq(BufferType)
      /\ Held' = Held /\ Indices' = Indices /\ Aligned'
      /\ \A g \in Held : g # o => SameFor(g)
      /\ BufferFor(o)' = c /\ PollfdFor(o)' = p
  <2>1. fdMap' = fdMap
    BY <1>1
  <2> QED BY <1>2, <1>5, <1>6, <1>7, <1>8, <2>1, SlotKept
<1>10. /\ IsInjective(todo) /\ IsInjective(data.closed) /\ todo \in Seq(Fds)
       /\ ToSet(todo) \cap ToSet(data.closed) = {}
       /\ Collected(todo) /\ Collected(data.closed)
       /\ \A fd \in ToSet(todo) : Done(fd)
       /\ \A fd \in ToSet(data.closed) : Gone(fd)
  BY <1>1 DEF StoreInv, Removing, Typed
<1>11. o \notin ToSet(todo) /\ o \notin ToSet(data.closed)
  BY <1>1, <1>2, <1>10 DEF Collected
<1>12. todo' = IF n = BufferFor(o).outgoing /\ ~PollfdFor(o).in
               THEN Append(todo, o) ELSE todo
  <2>1. EmptyLingering(at) = IF PollfdFor(o).in THEN todo ELSE Append(todo, o)
    BY <1>2, <1>3 DEF EmptyLingering, PollfdFor
  <2> QED BY <1>2, <2>1 DEF Flush
<1>13. /\ todo' \in Seq(Fds) /\ IsInjective(todo')
       /\ ToSet(todo') \in {ToSet(todo), ToSet(todo) \cup {o}}
       /\ n = BufferFor(o).outgoing /\ ~PollfdFor(o).in => o \in ToSet(todo')
       /\ o \in ToSet(todo') => n = BufferFor(o).outgoing
  <2>1. CASE n = BufferFor(o).outgoing /\ ~PollfdFor(o).in
    <3>1. todo' = Append(todo, o) /\ Append(todo, o) \in Seq(Fds)
      BY <1>3, <1>10, <1>12, <2>1
    <3>2. IsInjective(todo') /\ ToSet(todo') = ToSet(todo) \cup {o}
      BY <1>3, <1>10, <1>11, <3>1, AppendDistinct, ToSetAppend
    <3> QED BY <2>1, <3>1, <3>2
  <2>2. CASE ~ (n = BufferFor(o).outgoing /\ ~PollfdFor(o).in)
    <3>1. todo' = todo
      BY <1>12, <2>2
    <3> QED BY <1>10, <1>11, <2>2, <3>1
  <2> QED BY <2>1, <2>2
<1>14. Typed'
  BY <1>1, <1>9, <1>13 DEF Typed, StoreInv, Positions
<1>15. Connected'
  BY <1>1, <1>5, <1>9 DEF Connected, StoreInv, SameFor
<1>16. Polled'
  <2> SUFFICES ASSUME NEW g \in Held
               PROVE  /\ PollfdFor(g)'.out <=> BufferFor(g)'.outgoing # 0
                      /\ \/ PollfdFor(g)'.in \/ BufferFor(g)'.outgoing # 0
                         \/ g \in ToSet(todo')
    BY <1>1, <1>9 DEF Polled, Updating
  <2>1. /\ PollfdFor(g).out <=> BufferFor(g).outgoing # 0
        /\ PollfdFor(g).in \/ BufferFor(g).outgoing # 0 \/ g \in ToSet(todo)
    BY DEF StoreInv, Polled
  <2>2. CASE g # o
    BY <1>9, <1>13, <2>1, <2>2 DEF SameFor
  <2>3. CASE g = o /\ n = BufferFor(o).outgoing
    <3>1. c.outgoing = 0 /\ ~p.out /\ (p.in \/ o \in ToSet(todo'))
      BY <1>4, <1>5, <1>7, <1>13, <2>3
    <3> QED BY <1>9, <2>3, <3>1
  <2>4. CASE g = o /\ n # BufferFor(o).outgoing
    <3>1. BufferFor(o).outgoing # 0 /\ c.outgoing # 0 /\ p.out = PollfdFor(o).out
      BY <1>4, <1>5, <1>7, <2>4
    <3>2. PollfdFor(o).out
      BY <2>1, <2>4, <3>1
    <3> QED BY <1>9, <2>4, <3>1, <3>2
  <2> QED BY <2>2, <2>3, <2>4
<1>17. Removing'
  <2>1. \A fd \in Held : fdMap[fd] \in Nat
    BY DEF StoreInv, Aligned, Indices, Typed
  <2>2. Collected(todo)' /\ Collected(data.closed)'
    BY <1>1, <1>2, <1>9, <1>10, <1>13, <2>1 DEF Collected
  <2>3. \A fd \in ToSet(data'.closed) : Gone(fd)'
    BY <1>1, <1>10 DEF Gone
  <2>4. \A fd \in ToSet(todo') : Done(fd)'
    <3> SUFFICES ASSUME NEW fd \in ToSet(todo') PROVE BufferFor(fd)'.outgoing = 0
      BY DEF Done
    <3>1. CASE fd = o
      BY <1>4, <1>5, <1>9, <1>13, <3>1
    <3>2. CASE fd # o
      <4>1. fd \in ToSet(todo) /\ fd \in Held
        BY <1>10, <1>13, <3>2 DEF Collected
      <4> QED BY <1>9, <1>10, <3>2, <4>1 DEF Done, SameFor
    <3> QED BY <3>1, <3>2
  <2>5. ToSet(todo') \cap ToSet(data'.closed) = {}
    BY <1>1, <1>10, <1>11, <1>13
  <2> QED BY <1>1, <1>10, <1>13, <2>2, <2>3, <2>4, <2>5 DEF Removing
<1>18. Room' /\ RightSender'
  BY <1>1 DEF Room, RightSender, StoreInv
<1> QED BY <1>9, <1>14, <1>15, <1>16, <1>17, <1>18 DEF StoreInv

(* A client is accepted, and Update returns.                                *)
LEMMA UpdateListeningInv ==
  ASSUME StoreInv, UpdateListening
  PROVE  StoreInv'
<1>1. CASE closing /\ (data.msgs # <<>> \/ data.closed # <<>>)
  BY <1>1, FailInv DEF UpdateListening
<1>2. CASE ~ (closing /\ (data.msgs # <<>> \/ data.closed # <<>>))
  <2>1. /\ pc = "pop" /\ pc' \in {"poll", "idle"} /\ todo = <<>> /\ todo' = todo /\ at' = at
        /\ connects' = FALSE
    BY <1>2 DEF UpdateListening
  <2>2. Removing' /\ Room'
    BY <2>1 DEF Removing, Room
  <2>3. data \in UpdateDatas
    BY DEF StoreInv, Typed
  <2>4. \A fd \in Held : fd \notin ToSet(todo)
    BY <2>1, EmptyList
  <2>5. CASE ~connects
    <3>1. data' = [data EXCEPT !.opened = NoFd] /\ UNCHANGED <<containers, peers>>
      BY <1>2, <2>5 DEF UpdateListening
    <3>2. data' \in UpdateDatas /\ data'.msgs = data.msgs
      BY <2>3, <3>1 DEF UpdateDatas
    <3>3. Typed'
      BY <2>1, <3>1, <3>2, Unmoved DEF Typed, Positions, StoreInv
    <3>4. Connected' /\ Aligned' /\ Held' = Held /\ \A fd \in Held : SameFor(fd)
      BY <2>1, <3>1, Unmoved
    <3>5. Polled'
      BY <2>4, <3>4, PolledKept
    <3>6. RightSender'
      BY <3>2 DEF RightSender, StoreInv
    <3> QED BY <2>2, <3>3, <3>4, <3>5, <3>6 DEF StoreInv
  <2>6. CASE connects
    <3>o. PICK o : o = Min(Free(InUse))
      OBVIOUS
    <3>1. Accept(o)
      BY <1>2, <2>6, <3>o DEF UpdateListening
    <3>2. InUse = Held
      BY DEF StoreInv, Connected, InUse, Typed
    <3>3. o \in Fds \ Held
      <4>1. Free(InUse) \in SUBSET Nat /\ Free(InUse) # {}
        BY <2>6, <3>2, FdsAssumption DEF StoreInv, Connected, Typed, Free
      <4>2. Min(Free(InUse)) \in Free(InUse)
        BY <4>1, MinIsMember
      <4> QED BY <3>o, <3>2, <4>2 DEF Free
    <3>4. /\ pollfds' \in Seq(PollfdType) /\ connections' \in Seq(BufferType)
          /\ Held' = Held \cup {o} /\ Aligned'
          /\ \A g \in Held : SameFor(g)
          /\ BufferFor(o)' = Buffer(o) /\ PollfdFor(o)' = Pollfd(o)
      BY <3>1, <3>3, AcceptAligned DEF StoreInv
    <3>5. /\ Buffer(o).outgoing = 0 /\ Buffer(o).incoming = <<>>
          /\ Pollfd(o).in /\ ~Pollfd(o).out
      BY DEF Buffer, Pollfd
    <3>6. data' \in UpdateDatas /\ data'.msgs = data.msgs
      BY <2>3, <3>1, <3>3 DEF UpdateDatas, Accept
    <3>7. /\ peers' \in [Fds -> PeerType]
          /\ peers'[o].state = "up" /\ peers'[o].arrived = <<>>
          /\ \A g \in Fds : g # o => peers'[g] = peers[g]
      <4>1. peers' = [peers EXCEPT ![o] = [state |-> "up", arrived |-> <<>>]]
        BY <3>1 DEF Accept
      <4>2. [state |-> "up", arrived |-> <<>>] \in PeerType
        BY DEF PeerType
      <4>3. peers \in [Fds -> PeerType]
        BY DEF StoreInv, Typed
      <4> QED BY <3>3, <4>1, <4>2, <4>3
    <3>8. Typed'
      BY <2>1, <3>3, <3>4, <3>6, <3>7 DEF Typed, Positions, StoreInv
    <3>9. Connected'
      <4>1. \A g \in Fds : (peers'[g].state # "none" <=> g \in Held')
        BY <3>3, <3>4, <3>7 DEF StoreInv, Connected
      <4>2. \A g \in Fds : \A i \in DOMAIN peers'[g].arrived : peers'[g].arrived[i] = g
        <5>1. DOMAIN peers'[o].arrived = {}
          BY <3>7
        <5> QED BY <3>7, <5>1 DEF StoreInv, Connected
      <4>3. \A g \in Held' : \A i \in DOMAIN BufferFor(g)'.incoming :
                                BufferFor(g)'.incoming[i] = g
        <5>1. DOMAIN BufferFor(o)'.incoming = {}
          BY <3>4, <3>5
        <5> QED BY <3>4, <5>1 DEF StoreInv, Connected, SameFor
      <4> QED BY <2>1, <4>1, <4>2, <4>3 DEF Connected
    <3>10. Polled'
      <4> SUFFICES ASSUME NEW g \in Held'
                   PROVE  /\ PollfdFor(g)'.out <=> BufferFor(g)'.outgoing # 0
                          /\ PollfdFor(g)'.in \/ BufferFor(g)'.outgoing # 0
        BY DEF Polled
      <4>1. CASE g = o
        BY <3>4, <3>5, <4>1
      <4>2. CASE g # o
        BY <2>4, <3>4, <4>2 DEF StoreInv, Polled, SameFor
      <4> QED BY <4>1, <4>2
    <3>11. RightSender'
      BY <3>6 DEF RightSender, StoreInv
    <3> QED BY <2>2, <3>4, <3>8, <3>9, <3>10, <3>11 DEF StoreInv
  <2> QED BY <2>5, <2>6
<1> QED BY <1>1, <1>2

(* The peers write and leave.                                               *)
LEMMA PeerInv ==
  ASSUME StoreInv, NEW fd \in Fds, PeerSends(fd) \/ PeerLeaves(fd)
  PROVE  StoreInv'
<1>1. UNCHANGED <<pollfds, connections, fdMap, data, todo, at, connects, pc>>
      /\ peers[fd].state = "up"
  BY DEF PeerSends, PeerLeaves, containers, local
<1>2. peers \in [Fds -> PeerType] /\ peers[fd] \in PeerType
  BY DEF StoreInv, Typed
<1>3. PICK q : /\ q \in PeerType /\ q.state \in {"up", "left"}
               /\ \A i \in DOMAIN q.arrived : q.arrived[i] = fd
               /\ peers' = [peers EXCEPT ![fd] = q]
  <2>1. CASE PeerSends(fd)
    <3>1. PICK arrived : arrived = Append(peers[fd].arrived, fd)
      OBVIOUS
    <3>2. peers[fd].arrived \in Seq(Fds)
      BY <1>2 DEF PeerType
    <3>3. arrived \in Seq(Fds) /\ \A i \in DOMAIN arrived : arrived[i] = fd
      <4>1. \A i \in DOMAIN peers[fd].arrived : peers[fd].arrived[i] = fd
        BY DEF StoreInv, Connected
      <4> QED BY <3>1, <3>2, <4>1
    <3>4. [peers[fd] EXCEPT !.arrived = arrived] \in PeerType
      BY <1>2, <3>3 DEF PeerType
    <3>5. peers' = [peers EXCEPT ![fd] = [peers[fd] EXCEPT !.arrived = arrived]]
      BY <1>2, <2>1, <3>1 DEF PeerSends
    <3>6. /\ [peers[fd] EXCEPT !.arrived = arrived].arrived = arrived
          /\ [peers[fd] EXCEPT !.arrived = arrived].state = "up"
      BY <1>1, <1>2 DEF PeerType
    <3> QED BY <3>3, <3>4, <3>5, <3>6
  <2>2. CASE PeerLeaves(fd)
    <3>1. peers' = [peers EXCEPT ![fd] = [peers[fd] EXCEPT !.state = "left"]]
      BY <1>2, <2>2 DEF PeerLeaves
    <3>2. /\ [peers[fd] EXCEPT !.state = "left"] \in PeerType
          /\ [peers[fd] EXCEPT !.state = "left"].arrived = peers[fd].arrived
          /\ [peers[fd] EXCEPT !.state = "left"].state = "left"
      BY <1>2 DEF PeerType
    <3> QED BY <3>1, <3>2 DEF StoreInv, Connected
  <2> QED BY <2>1, <2>2
<1>4. /\ peers' \in [Fds -> PeerType] /\ peers'[fd] = q
      /\ \A g \in Fds : g # fd => peers'[g] = peers[g]
  BY <1>2, <1>3
<1>5. Held' = Held /\ Indices' = Indices /\ Aligned' /\ \A g \in Held : SameFor(g)
  BY <1>1 DEF Held, Indices, Aligned, StoreInv, SameFor, BufferFor, PollfdFor, PollfdOf
<1>6. Typed'
  BY <1>1, <1>4, <1>5 DEF Typed, StoreInv
<1>7. Connected'
  <2>1. \A g \in Fds : (peers'[g].state # "none" <=> g \in Held')
    BY <1>1, <1>3, <1>4, <1>5 DEF StoreInv, Connected
  <2>2. \A g \in Fds : \A i \in DOMAIN peers'[g].arrived : peers'[g].arrived[i] = g
    BY <1>3, <1>4 DEF StoreInv, Connected
  <2> QED BY <1>1, <1>5, <2>1, <2>2 DEF Connected, StoreInv, SameFor
<1>8. Polled'
  BY <1>1, <1>5, PolledKept DEF Updating
<1>9. Removing'
  <2>1. \A g \in Fds : Gone(g) => Gone(g)'
    BY <1>1, <1>4 DEF Gone
  <2>2. \A g : Done(g)' = Done(g)
    BY <1>1 DEF Done, BufferFor
  <2>3. ToSet(todo) \subseteq Fds /\ ToSet(data.closed) \subseteq Fds
    BY DEF StoreInv, Typed, UpdateDatas, ToSet
  <2>4. Collected(todo)' = Collected(todo) /\ Collected(data.closed)' = Collected(data.closed)
    BY <1>1, <1>5 DEF Collected
  <2> QED BY <1>1, <1>5, <2>1, <2>2, <2>3, <2>4 DEF StoreInv, Removing
<1>10. Room' /\ RightSender'
  <2>1. \A g : ToPush(g)' = ToPush(g)
    BY <1>1 DEF ToPush
  <2> QED BY <1>1, <1>5, <2>1 DEF Room, RightSender, StoreInv, SameFor
<1> QED BY <1>5, <1>6, <1>7, <1>8, <1>9, <1>10 DEF StoreInv

-----------------------------------------------------------------------------
(* The store that Listen leaves satisfies the invariant.                    *)
LEMMA InitStoreInv == Init => StoreInv
BY EmptyStore DEF Init, Empty

(* A stuttering step keeps the invariant.                                   *)
LEMMA StillInv ==
  ASSUME StoreInv, UNCHANGED vars
  PROVE  StoreInv'
<1>1. UNCHANGED <<containers, peers, data, todo, at, connects, pc>>
  BY DEF vars, local
<1>2. /\ Held' = Held /\ Indices' = Indices /\ Aligned' /\ Connected' /\ Typed'
      /\ \A fd \in Held : SameFor(fd)
      /\ \A fd : Done(fd)' = Done(fd) /\ Gone(fd)' = Gone(fd)
  BY <1>1, Unmoved DEF Typed, StoreInv, Connected
<1>3. Polled'
  BY <1>1, <1>2, PolledKept DEF Updating
<1>4. Removing'
  <2>1. Collected(todo)' = Collected(todo) /\ Collected(data.closed)' = Collected(data.closed)
    BY <1>1, <1>2 DEF Collected, containers
  <2> QED BY <1>1, <1>2, <2>1 DEF StoreInv, Removing
<1>5. Room' /\ RightSender'
  <2>1. \A g : ToPush(g)' = ToPush(g)
    BY <1>1 DEF ToPush
  <2> QED BY <1>1, <1>2, <2>1 DEF Room, RightSender, StoreInv, SameFor
<1> QED BY <1>2, <1>3, <1>4, <1>5 DEF StoreInv

(* Every step keeps the invariant.                                          *)
LEMMA NextStoreInv ==
  ASSUME StoreInv, [Next]_vars
  PROVE  StoreInv'
<1>1. CASE CallUpdate \/ CallClose
  BY <1>1, CallUpdateInv, CallCloseInv
<1>2. CASE Step
  <2>1. CASE PushBuffer \/ BeginStop \/ StopReceiving \/ BeginPoll
    BY <2>1, PushBufferInv, BeginStopInv, StopReceivingInv, ToPollInv
  <2>2. CASE PollReady \/ PollTimeout \/ SystemCallFails
    BY <2>2, PollReadyInv, ToPollInv, FailInv DEF SystemCallFails
  <2>3. CASE SkipRead \/ Receive \/ ReceiveEnd \/ SkipWrite \/ SendFails
    BY <2>3, SkipInv, ReceiveInv, LostInv
  <2>4. CASE \E n \in 0 .. MaxUnsent : Flush(n)
    <3>1. 0 .. MaxUnsent \subseteq Nat
      OBVIOUS
    <3> QED BY <2>4, <3>1, FlushInv
  <2>5. CASE BeginPop \/ PopNext \/ UpdateListening \/ ReturnClose
    BY <2>5, BeginPopInv, PopNextInv, UpdateListeningInv, ToPollInv
  <2> QED BY <1>2, <2>1, <2>2, <2>3, <2>4, <2>5 DEF Step
<1>3. CASE \E fd \in Fds : PeerSends(fd) \/ PeerLeaves(fd)
  BY <1>3, PeerInv
<1>4. CASE Terminated \/ UNCHANGED vars
  BY <1>4, StillInv DEF Terminated
<1> QED BY <1>1, <1>2, <1>3, <1>4 DEF Next

(* The inductive invariant of the store.                                    *)
THEOREM StoreInvariant == Spec => []StoreInv
BY InitStoreInv, NextStoreInv, PTL DEF Spec

(* As many connections as fds are held: each index is the index of one.     *)
LEMMA HeldCounted ==
  ASSUME StoreInv
  PROVE  /\ Cardinality(Held) = Len(connections)
         /\ Len(connections) <= Cardinality(Fds)
<1> DEFINE f == [i \in Indices |-> connections[i].fd]
<1>1. Indices = 1 .. Len(connections) /\ Len(connections) \in Nat /\ Held \subseteq Fds
  BY DEF StoreInv, Typed, Indices
<1>2. f \in [Indices -> Held] /\ \A i \in Indices : fdMap[f[i]] = i
  BY DEF StoreInv, Aligned
<1>3. \A fd \in Held : fdMap[fd] \in Indices /\ f[fdMap[fd]] = fd
  BY DEF StoreInv, Aligned
<1> HIDE DEF f
<1>4. f \in Bijection(Indices, Held)
  <2>1. f \in Injection(Indices, Held)
    BY <1>2 DEF Injection, IsInjective
  <2>2. f \in Surjection(Indices, Held)
    BY <1>2, <1>3 DEF Surjection
  <2> QED BY <2>1, <2>2 DEF Bijection
<1>5. IsFiniteSet(Indices) /\ Cardinality(Indices) = Len(connections)
  <2>1. PICK n \in Nat : n = Len(connections)
    BY <1>1
  <2>2. IsFiniteSet(1 .. n) /\ Cardinality(1 .. n) = n
    BY FS_Interval
  <2> QED BY <1>1, <2>1, <2>2
<1>6. Cardinality(Held) = Len(connections)
  BY <1>4, <1>5, FS_Bijection DEF ExistsBijection
<1>7. Cardinality(Held) <= Cardinality(Fds)
  BY <1>1, FdsAssumption, FS_Subset
<1> QED BY <1>6, <1>7

(* No call and no order of its steps makes a container hold anything but    *)
(* its type, and none outgrows the descriptors.                             *)
THEOREM StoreTypesOK == Spec => []StoreTypeOK
<1>1. StoreInv => StoreTypeOK
  <2> SUFFICES ASSUME StoreInv PROVE StoreTypeOK
    OBVIOUS
  <2>1. Len(connections) <= Cardinality(Fds)
    BY HeldCounted
  <2>2. \A fd \in Held : fd \in Fds /\ fdMap[fd] \in Indices
    BY Connection
  <2> QED BY <2>1, <2>2
        DEF StoreInv, Typed, StoreTypeOK, PollfdType, BufferType, Positions
<1> QED BY <1>1, StoreInvariant, PTL

(* Removal by moving the last connection into the gap keeps the containers  *)
(* in step, however many are removed in one call and in which order.        *)
THEOREM ContainersInStep == Spec => []InStep
<1>1. StoreInv => InStep
  <2> SUFFICES ASSUME StoreInv PROVE InStep
    OBVIOUS
  <2>1. Cardinality(Held) = Len(connections)
    BY HeldCounted
  <2>2. InUse = Held
    BY DEF StoreInv, Typed, Connected, InUse
  <2> QED BY <2>1, <2>2 DEF StoreInv, Aligned, Removing, InStep
<1> QED BY <1>1, StoreInvariant, PTL

(* Update returns every message under the fd it came from.                  *)
THEOREM SendersRight == Spec => []RightSender
<1>1. StoreInv => RightSender
  BY DEF StoreInv
<1> QED BY <1>1, StoreInvariant, PTL

(* When poll is called the flags ask for what is needed, no more, no less.  *)
THEOREM FlagsRight == Spec => []FlagsMatch
<1>1. StoreInv => FlagsMatch
  <2> SUFFICES ASSUME StoreInv, pc = "poll", NEW i \in Indices
               PROVE  /\ PollfdOf(i).out <=> connections[i].outgoing # 0
                      /\ PollfdOf(i).in \/ connections[i].outgoing # 0
    BY DEF FlagsMatch
  <2> DEFINE fd == connections[i].fd
  <2>1. fd \in Held /\ fdMap[fd] = i
    BY DEF StoreInv, Aligned
  <2>2. PollfdFor(fd) = PollfdOf(i) /\ BufferFor(fd) = connections[i]
    BY <2>1 DEF PollfdFor, BufferFor
  <2> QED BY <2>1, <2>2 DEF StoreInv, Polled, Updating
<1> QED BY <1>1, StoreInvariant, PTL

(* A connection is removed only when it has been flushed or is dead.        *)
THEOREM NothingCutShort == Spec => NothingCut
<1> DEFINE Cut == pc' # "error" =>
                     \A fd \in Held \ Held' :
                        BufferFor(fd).outgoing = 0 \/ peers[fd].state = "left"
<1>1. ASSUME StoreInv, [Next]_vars PROVE [Cut]_vars
  <2> SUFFICES ASSUME pc' # "error", NEW o \in Held, o \notin Held'
               PROVE  BufferFor(o).outgoing = 0 \/ peers[o].state = "left"
    OBVIOUS
  <2>1. fdMap' # fdMap
    BY DEF Held
  <2>2. ~Fail
    BY DEF Fail
  <2>3. CASE StopReceiving
    <3>1. PICK q : q = Head(todo)
      OBVIOUS
    <3>2. q \in Held /\ ~Lingers(q) /\ Pop(q)
      BY <2>1, <2>2, <2>3, <3>1 DEF StopReceiving
    <3>3. Held' = Held \ {q}
      BY <3>2, PopAligned, <1>1 DEF StoreInv
    <3> QED BY <3>2, <3>3 DEF Lingers
  <2>4. CASE PopNext
    <3>1. PICK q : q = Head(todo)
      OBVIOUS
    <3>2. q \in Held /\ Pop(q) /\ pc = "pop" /\ todo # <<>>
      BY <2>2, <2>4, <3>1 DEF PopNext
    <3>3. Held' = Held \ {q}
      BY <3>2, PopAligned, <1>1 DEF StoreInv
    <3>4. q \in ToSet(todo)
      BY <1>1, <3>1, <3>2, TailDistinct DEF StoreInv, Typed, Removing
    <3> QED BY <1>1, <3>2, <3>3, <3>4 DEF StoreInv, Removing, Done, Gone
  <2>5. CASE UpdateListening
    <3>1. PICK q : q = Min(Free(InUse))
      OBVIOUS
    <3>2. Accept(q)
      BY <2>1, <2>2, <2>5, <3>1 DEF UpdateListening, containers
    <3>3. Held \subseteq Held'
      BY <3>2 DEF Accept, Held
    <3> QED BY <3>3
  <2>6. CASE \E n \in 0 .. MaxUnsent : Flush(n)
    BY <2>1, <2>6 DEF Flush
  <2>7. CASE \/ PushBuffer \/ BeginStop \/ BeginPoll \/ PollReady \/ PollTimeout
             \/ SystemCallFails
    BY <2>1, <2>2, <2>7 DEF PushBuffer, BeginStop, BeginPoll, PollReady, PollTimeout,
                            SystemCallFails, containers
  <2>8. CASE SkipRead \/ Receive \/ ReceiveEnd \/ SkipWrite \/ SendFails
    BY <2>1, <2>8 DEF SkipRead, Receive, ReceiveEnd, SkipWrite, SendFails, containers
  <2>9. CASE BeginPop \/ ReturnClose \/ CallUpdate \/ CallClose
    BY <2>1, <2>9 DEF BeginPop, ReturnClose, CallUpdate, CallClose, containers
  <2>10. CASE \/ \E fd \in Fds : PeerSends(fd) \/ PeerLeaves(fd)
              \/ Terminated \/ UNCHANGED vars
    BY <2>1, <2>10 DEF PeerSends, PeerLeaves, Terminated, vars, containers
  <2> QED BY <1>1, <2>3, <2>4, <2>5, <2>6, <2>7, <2>8, <2>9, <2>10 DEF Next, Step
<1> QED BY <1>1, StoreInvariant, PTL DEF Spec, NothingCut
=============================================================================
