--------------------------- MODULE SeatingProofs ----------------------------
(***************************************************************************)
(* Theorems about who is connected to the server of Server and who sits    *)
(* where, for every number of seats and descriptors and all messages, and  *)
(* about what a player that comes back is told.                            *)
(***************************************************************************)
EXTENDS SeatingLemmas

-----------------------------------------------------------------------------
(* What every step must do: keep the invariant, move no deadline from one   *)
(* candidate to another, and fail only for what poll reported.              *)
EntriesKept ==
    \A fd \in Candidates \cap Candidates' :
        pc = "poll" \/ fd = updateData.opened \/ IsOverdue(fd)' = IsOverdue(fd)
RightError ==
    pc' = "error" => \/ pc \in {"poll", "apply", "close"}
                     \/ pc = "dispatch" /\ inbox # <<>>
RightStep == Seated' /\ Queued' /\ Exchanged' /\ EntriesKept /\ RightError

(* The process ends.                                                        *)
LEMMA StopRight ==
  ASSUME NEW how \in {"done", "error", "crash"}, Stop(how),
         \/ how # "error" \/ pc \in {"poll", "apply", "close"}
         \/ pc = "dispatch" /\ inbox # <<>>
  PROVE  RightStep
<1>1. Seated' /\ Queued' /\ Exchanged'
  BY StopInv
<1>2. Candidates' = {} /\ pc' = how
  BY DEF Stop, Candidates
<1> QED BY <1>1, <1>2 DEF RightStep, EntriesKept, RightError

(* Steps that leave the candidates alone move no deadline.                  *)
LEMMA SameEntries ==
  ASSUME UNCHANGED candidacy
  PROVE  EntriesKept
BY DEF EntriesKept, candidacy, IsOverdue, Candidates

(* One lemma per action.                                                    *)
LEMMA InitSeated ==
  ASSUME Init
  PROVE  Seated /\ Queued /\ Exchanged
<1>1. /\ candidates = <<>> /\ candidateMap = <<>> /\ playerMap = <<>>
      /\ seatFd = [s \in Seats |-> NoFd] /\ pc = "update"
      /\ playerMessages = <<>> /\ inbox = <<>>
      /\ trickOverdue = FALSE /\ isTrickReceived = FALSE
      /\ updateData = NoUpdate /\ receiving = {} /\ sending = {}
  BY DEF Init
<1>2. Candidates = {} /\ Players = {}
  BY <1>1 DEF Candidates, Players
<1>3. Seated
  <2>1. Candidacy \in Tables
    <3>1. <<>> \in Seq(Entry) /\ <<>> \in Maps
      <4>1. <<>> \in [{} -> Nat] /\ {} \in SUBSET Fds
        OBVIOUS
      <4> QED BY <4>1 DEF Maps
    <3>2. InStep([list |-> <<>>, map |-> <<>>])
      BY DEF InStep
    <3>3. [list |-> <<>>, map |-> <<>>] \in Tables
      BY <3>1, <3>2 DEF Tables
    <3> QED BY <1>1, <3>3 DEF Candidacy
  <2>2. playerMap \in [Players -> Seats]
    BY <1>1, <1>2
  <2> QED BY <1>1, <1>2, <2>1, <2>2 DEF Seated, SeatsConsistent
<1>4. Queued
  <2>1. trickOverdue \in BOOLEAN /\ isTrickReceived \in BOOLEAN
    BY <1>1
  <2>2. playerMessages \in Seq(Message) /\ inbox \in Seq(Message)
    BY <1>1
  <2> QED BY <2>1, <2>2 DEF Queued
<1>5. Exchanged
  <2>1. NoUpdate \in Updates
    BY DEF NoUpdate, Updates
  <2>2. NoUpdate.closed = <<>> /\ NoUpdate.msgs = <<>> /\ NoUpdate.opened = NoFd
    BY DEF NoUpdate
  <2>3. StoreAgrees
    BY <1>1, <1>2, <2>2, EmptyList DEF StoreAgrees
  <2>4. OutgoingAddressed
    BY <1>1, <2>2 DEF OutgoingAddressed, Out
  <2>5. Pending
    BY <1>1, <2>2 DEF Pending
  <2> QED BY <1>1, <2>1, <2>3, <2>4, <2>5 DEF Exchanged, Stages
<1> QED BY <1>3, <1>4, <1>5

(* The store never refuses what the server hands over, and when the server  *)
(* waits, the store reads from exactly the connected.                       *)
LEMMA PrePollKeeps ==
  ASSUME Seated, Queued, Exchanged, PrePoll
  PROVE  RightStep
<1> DEFINE od == OverdueCandidates
           all == updateData.closed \o od
           data == [updateData EXCEPT !.closed = @ \o od]
<1>1. pc = "update" /\ Between
  BY DEF PrePoll, Between
<1>2. od \in Seq(Fds) /\ IsInjective(od) /\ ToSet(od) \subseteq Candidates
  BY OverdueAmong DEF Seated
<1>3. /\ data \in Updates /\ data.msgs = Out /\ data.closed = all /\ data.opened = NoFd
      /\ all \in Seq(Fds)
  <2> HIDE DEF od
  <2>1. updateData \in Updates /\ updateData.opened = NoFd
    BY <1>1, InBetween
  <2>2. updateData.closed \in Seq(Fds) /\ Out \in Seq(Message)
    BY <2>1 DEF Updates, Out
  <2>3. all \in Seq(Fds)
    BY <1>2, <2>2
  <2> QED BY <2>1, <2>2, <2>3 DEF Updates, Out
<1>4. ToSet(all) = ToSet(updateData.closed) \cup ToSet(od) /\ IsInjective(all)
  <2> HIDE DEF od
  <2>1. ToSet(updateData.closed) \cap ToSet(od) = {}
    BY <1>1, <1>2, InBetween DEF Connected
  <2> QED BY <1>1, <1>2, <2>1, InBetween, ToSetConcat, ConcatDistinct
<1> HIDE DEF od, data, all
<1>5. ~Refused(data)
  <2>1. Addressed(data) \subseteq receiving
    BY <1>1, <1>3 DEF Addressed, Exchanged, OutgoingAddressed
  <2>2. ToSet(data.closed) \subseteq receiving
    BY <1>1, <1>2, <1>3, <1>4, InBetween DEF Connected
  <2>3. ~ \E i, j \in DOMAIN data.closed : i # j /\ data.closed[i] = data.closed[j]
    BY <1>3, <1>4 DEF IsInjective
  <2> QED BY <2>1, <2>2, <2>3 DEF Refused, InStore
<1>6. /\ PopConnections(od) /\ HandOver(data) /\ pc' = "poll"
      /\ UNCHANGED <<playerMessages, trickOverdue, inbox, isTrickReceived>>
  BY <1>5 DEF PrePoll, od, data
<1>7. Seated' /\ Candidates' = Candidates \ ToSet(od) /\ Players' = Players \ ToSet(od)
  BY <1>2, <1>6, PopConnectionsSeated
<1>8. Queued'
  BY <1>6 DEF Queued
<1>9. Exchanged'
  <2>1. receiving' = receiving \ ToSet(all) /\ updateData' = data
        /\ sending' = sending \cup Addressed(data)
    BY <1>3, <1>6 DEF HandOver
  <2>2. Connected' = Connected \ ToSet(od)
    BY <1>7 DEF Connected
  <2>3. receiving' = Connected' /\ ToSet(all) \cap Connected' = {}
    BY <1>1, <1>4, <2>1, <2>2, InBetween
  <2>4. receiving' \subseteq Fds /\ sending' \subseteq Fds
    <3>1. Addressed(data) \subseteq Fds
      <4>1. \A i \in DOMAIN data.msgs : data.msgs[i] \in Message
        BY <1>3 DEF Updates
      <4> QED BY <4>1 DEF Addressed, Message
    <3> QED BY <2>1, <3>1 DEF Exchanged
  <2>5. StoreAgrees' /\ OutgoingAddressed' /\ Pending'
    BY <1>3, <1>6, <2>1, <2>3
       DEF StoreAgrees, OutgoingAddressed, Pending, Between, Connected, Candidates, Players
  <2> QED BY <1>3, <1>6, <2>1, <2>4, <2>5 DEF Exchanged, Updates, Stages
<1>10. EntriesKept
  BY <1>2, <1>6, PopConnectionsSeated DEF EntriesKept, IsOverdue
<1> QED BY <1>6, <1>7, <1>8, <1>9, <1>10 DEF RightStep, RightError

(* Whatever poll reports, if it is messages and descriptors: lost are       *)
(* connections the store held, new is a descriptor that is not in use.      *)
LEMMA ReportKeeps ==
  ASSUME Seated, Queued, Exchanged, PollReturns,
         NEW msgs \in Seq(Message), NEW gone \in SUBSET Fds, NEW flushed,
         NEW connects \in BOOLEAN, ReportOf(msgs, gone, flushed, connects)
  PROVE  /\ RightStep
         /\ updateData'.msgs = msgs /\ ToSet(updateData'.closed) = gone
         /\ sending' = sending \ (flushed \cup gone)
         /\ receiving' = (receiving \ gone) \cup ({updateData'.opened} \ {NoFd})
         /\ updateData'.opened \in Fds \cup {NoFd}
         /\ updateData'.opened # NoFd <=> connects
         /\ updateData'.opened \notin (receiving \ gone) \cup sending'
<1>1. /\ pc = "poll" /\ pc' = "apply"
      /\ UNCHANGED seating /\ UNCHANGED candidacy
      /\ UNCHANGED <<playerMessages, trickOverdue, inbox, isTrickReceived>>
  BY DEF PollReturns, seating
<1>2. receiving = Connected /\ receiving \subseteq Fds /\ sending \subseteq Fds
  BY <1>1 DEF Exchanged, StoreAgrees, Connected
<1> DEFINE sent == sending \ (flushed \cup gone)
           recv == receiving \ gone
           new  == IF connects THEN {Min(Free(sent \cup recv))} ELSE {}
<1>3. /\ connects => Free(sent \cup recv) # {}
      /\ sending' = sent
      /\ receiving' = recv \cup new
      /\ updateData' = [msgs |-> msgs, closed |-> SetToSeq(gone),
                        opened |-> IF connects THEN Min(new) ELSE NoFd]
  BY DEF ReportOf
<1>4. SetToSeq(gone) \in Seq(Fds) /\ ToSet(SetToSeq(gone)) = gone
  <2>1. IsFiniteSet(gone)
    BY FdsAssumption, FS_Subset
  <2>2. SetToSeq(gone) \in Seq(gone) /\ ToSet(SetToSeq(gone)) = gone
    BY <2>1, SetToSeqOf
  <2> QED BY <2>2
<1>5. /\ updateData'.opened \in Fds \cup {NoFd}
      /\ new = {updateData'.opened} \ {NoFd}
      /\ updateData'.opened \notin recv \cup sent
      /\ updateData'.opened # NoFd <=> connects
  <2>1. CASE ~connects
    <3>1. updateData'.opened = NoFd /\ new = {}
      BY <1>3, <2>1
    <3> QED BY <1>2, <2>1, <3>1, FdsAssumption
  <2>2. CASE connects
    <3> DEFINE x == Min(Free(sent \cup recv))
    <3>1. x \in Free(sent \cup recv)
      BY <1>3, <2>2, MinIsMember, FdsAssumption DEF Free
    <3>2. x \in Fds /\ x \notin recv \cup sent
      BY <3>1 DEF Free
    <3> HIDE DEF x
    <3>3. Min({x}) = x
      BY <3>2, MinIsMember, FdsAssumption
    <3>4. new = {x}
      BY <2>2 DEF x
    <3>5. updateData'.opened = x
      BY <1>3, <2>2, <3>3, <3>4
    <3> QED BY <2>2, <3>2, <3>4, <3>5, FdsAssumption
  <2> QED BY <2>1, <2>2
<1> HIDE DEF sent, recv, new
<1>6. /\ updateData'.msgs = msgs /\ updateData'.closed = SetToSeq(gone)
      /\ updateData' \in Updates
  BY <1>3, <1>4, <1>5 DEF Updates
<1>7. Seated' /\ Connected' = Connected /\ Candidates' = Candidates /\ Players' = Players
  BY <1>1, SeatedKept
<1>8. Queued'
  BY <1>1 DEF Queued
<1>9. receiving' = (receiving \ gone) \cup ({updateData'.opened} \ {NoFd})
  BY <1>3, <1>5 DEF recv
<1>10. Exchanged'
  <2>1. StoreAgrees'
    BY <1>1, <1>2, <1>4, <1>6, <1>7, <1>9 DEF StoreAgrees, Between, Connected
  <2>2. Pending'
    BY <1>1, <1>2, <1>4, <1>5, <1>6, <1>7 DEF Pending, Between, recv
  <2>3. OutgoingAddressed'
    BY <1>1 DEF OutgoingAddressed, Between
  <2>4. receiving' \subseteq Fds /\ sending' \subseteq Fds
    BY <1>2, <1>3, <1>5 DEF recv, sent
  <2> QED BY <1>1, <1>6, <2>1, <2>2, <2>3, <2>4 DEF Exchanged, Stages
<1>11. RightStep
  BY <1>1, <1>7, <1>8, <1>10, SameEntries DEF RightStep, RightError
<1> QED BY <1>3, <1>4, <1>5, <1>6, <1>9, <1>11 DEF sent, recv

(* Poll reports messages of connections the store reads and lost            *)
(* connections that were known.                                             *)
LEMMA PollReadyKeeps ==
  ASSUME Seated, Queued, Exchanged, PollReady
  PROVE  RightStep
<1> DEFINE room == Min({MaxBatch, MaxStored - Len(playerMessages)})
<1>1. PollReturns /\ pc = "poll" /\ Report(room)
  BY DEF PollReady, PollReturns
<1> HIDE DEF room
<1>2. Losable \subseteq Fds /\ Readable \subseteq Fds
  <2>1. receiving \subseteq Fds /\ sending \subseteq Fds
    BY DEF Exchanged
  <2>2. Lingering \subseteq Fds
    BY <2>1 DEF Lingering
  <2>3. Losable \subseteq Fds
    BY <2>1, <2>2 DEF Losable
  <2>4. Readable \subseteq Fds
    BY <2>1, <2>2 DEF Readable
  <2> QED BY <2>3, <2>4
<1>3. PICK senders \in Batches(room), gone \in SUBSET Losable, connects \in BOOLEAN :
      \E flushed \in Flushes(gone), contents \in [DOMAIN senders -> ClientMessages] :
         ReportOf([i \in DOMAIN senders |-> To(senders[i], contents[i])],
                  gone, flushed, connects)
  BY <1>1 DEF Report
<1>4. PICK flushed \in Flushes(gone), contents \in [DOMAIN senders -> ClientMessages] :
         ReportOf([i \in DOMAIN senders |-> To(senders[i], contents[i])],
                  gone, flushed, connects)
  BY <1>3
<1> DEFINE msgs == [i \in DOMAIN senders |-> To(senders[i], contents[i])]
<1>5. msgs \in Seq(Message)
  <2>1. senders \in SeqOf(Readable, room)
    BY DEF Batches
  <2>2. PICK n \in 0 .. room : senders \in [1 .. n -> Readable]
    BY <2>1 DEF SeqOf
  <2>3. n \in Nat
    OBVIOUS
  <2>4. \A i \in 1 .. n : To(senders[i], contents[i]) \in Message
    BY <1>2, <2>2 DEF To, Message
  <2> QED BY <2>2, <2>3, <2>4
<1>6. gone \in SUBSET Fds
  BY <1>2
<1>7. ReportOf(msgs, gone, flushed, connects)
  BY <1>4
<1> HIDE DEF msgs
<1> QED BY <1>1, <1>5, <1>6, <1>7, ReportKeeps

(* When poll has nothing to report, updateData comes back as it was handed  *)
(* over; what it then calls lost is gone already.                           *)
LEMMA PollTimeoutKeeps ==
  ASSUME Seated, Queued, Exchanged, PollTimeout
  PROVE  RightStep
<1>1. /\ pc = "poll" /\ pc' = "apply"
      /\ UNCHANGED seating /\ UNCHANGED candidacy
      /\ UNCHANGED <<playerMessages, trickOverdue, inbox, isTrickReceived>>
      /\ UNCHANGED <<receiving, sending, updateData>>
  BY DEF PollTimeout, PollReturns, ReportNothing, seating
<1>2. Seated' /\ Connected' = Connected /\ Candidates' = Candidates /\ Players' = Players
  BY <1>1, SeatedKept
<1>3. Queued'
  BY <1>1 DEF Queued
<1>4. Exchanged'
  <2>1. /\ receiving = Connected /\ updateData.opened = NoFd
        /\ ToSet(updateData.closed) \cap Connected = {} /\ receiving \subseteq Fds
    BY <1>1 DEF Exchanged, StoreAgrees, Pending, Connected
  <2>2. StoreAgrees'
    BY <1>1, <1>2, <2>1 DEF StoreAgrees, Between, Connected
  <2>3. Pending'
    BY <1>1, <1>2, <2>1, FdsAssumption DEF Pending, Between
  <2>4. OutgoingAddressed'
    BY <1>1 DEF OutgoingAddressed, Between
  <2> QED BY <1>1, <2>2, <2>3, <2>4 DEF Exchanged, Stages, Updates
<1> QED BY <1>1, <1>2, <1>3, <1>4, SameEntries DEF RightStep, RightError

(* The connections reported as lost go, the new one becomes a candidate;    *)
(* what the store reads is then exactly what the server knows.              *)
LEMMA ApplyKeeps ==
  ASSUME Seated, Queued, Exchanged, Apply
  PROVE  RightStep
<1> DEFINE gone == updateData.closed
           new  == updateData.opened
           left == CandidatesWithout(gone)
<1>1. /\ pc = "apply" /\ updateData \in Updates
      /\ gone \in Seq(Fds) /\ new \in Fds \cup {NoFd} /\ updateData.msgs \in Seq(Message)
      /\ new \notin Connected \ ToSet(gone)
      /\ receiving = (Connected \ ToSet(gone)) \cup ({new} \ {NoFd})
  BY DEF Apply, Exchanged, Updates, Pending, StoreAgrees, Connected
<1>2. CASE (\E fd \in ToSet(gone) : ~Known(fd)) \/ new \in DOMAIN left.map
  BY <1>1, <1>2, StopRight DEF Apply
<1>3. CASE ~ ((\E fd \in ToSet(gone) : ~Known(fd)) \/ new \in DOMAIN left.map)
  <2>1. /\ CandidatesAre(PushCandidate(left, new))
        /\ playerMap' = PlayersWithout(gone) /\ seatFd' = SeatsWithout(gone)
        /\ inbox' = updateData.msgs /\ updateData' = NoUpdate /\ pc' = "dispatch"
        /\ UNCHANGED <<playerMessages, trickOverdue, isTrickReceived>>
        /\ receiving' = receiving /\ sending' = sending
    BY <1>3 DEF Apply, store
  <2>2. /\ left \in Tables /\ DOMAIN left.map = Candidates \ ToSet(gone)
        /\ \A fd \in DOMAIN left.map :
              left.list[left.map[fd]] = candidates[candidateMap[fd]]
    <3>1. left \in Tables /\ Removes(Candidacy, left, ToSet(gone))
      BY <1>1, PopMany DEF Seated
    <3> HIDE DEF left, gone
    <3> QED BY <3>1 DEF Removes, Candidacy, Candidates
  <2> DEFINE r == PushCandidate(left, new)
  <2> HIDE DEF left
  <2>3. /\ r \in Tables
        /\ DOMAIN r.map = DOMAIN left.map \cup ({new} \ {NoFd})
        /\ \A fd \in DOMAIN left.map : r.list[r.map[fd]] = left.list[left.map[fd]]
    <3>1. CASE new = NoFd
      BY <2>2, <3>1 DEF PushCandidate
    <3>2. CASE new # NoFd
      <4>1. new \in Fds /\ new \notin DOMAIN left.map
        BY <1>1, <1>3, <3>2 DEF left
      <4> HIDE DEF gone, new
      <4> QED BY <2>2, <3>2, <4>1, PushOne
    <3> QED BY <3>1, <3>2
  <2>4. candidates' = r.list /\ candidateMap' = r.map
    BY <2>1 DEF CandidatesAre
  <2> HIDE DEF r, gone, new
  <2>5. /\ Players' = Players \ ToSet(gone)
        /\ \A fd \in Players' : seatFd'[playerMap'[fd]] = fd
        /\ \A s \in Seats : seatFd'[s] # NoFd =>
                              seatFd'[s] \in Players' /\ playerMap'[seatFd'[s]] = s
        /\ seatFd' \in [Seats -> Fds \cup {NoFd}]
        /\ Players' \subseteq Fds /\ playerMap' \in [Players' -> Seats]
    BY <2>1, SeatsAfterPop
  <2>6. Candidates' = (Candidates \ ToSet(gone)) \cup ({new} \ {NoFd})
    BY <2>2, <2>3, <2>4 DEF Candidates
  <2>7. Candidates' \cap Players' = {}
    BY <1>1, <2>5, <2>6 DEF Seated, SeatsConsistent, Connected
  <2>8. Candidacy' \in Tables
    <3>1. Candidacy' = r
      BY <2>3, <2>4 DEF Candidacy, Tables
    <3> QED BY <2>3, <3>1 DEF Tables, Entry, Maps, InStep
  <2>9. Seated'
    BY <2>5, <2>7, <2>8 DEF Seated, SeatsConsistent
  <2>10. Queued'
    BY <1>1, <2>1 DEF Queued
  <2>11. Exchanged'
    <3>1. Connected' = receiving'
      BY <1>1, <2>1, <2>5, <2>6 DEF Connected
    <3>2. /\ NoUpdate \in Updates /\ NoUpdate.closed = <<>> /\ NoUpdate.msgs = <<>>
          /\ NoUpdate.opened = NoFd
      BY DEF NoUpdate, Updates
    <3>3. StoreAgrees'
      BY <2>1, <3>1, <3>2, EmptyList DEF StoreAgrees, Connected, Between
    <3>4. OutgoingAddressed'
      BY <2>1, <3>2 DEF OutgoingAddressed, Out
    <3>5. Pending'
      BY <2>1, <3>2 DEF Pending
    <3> QED BY <2>1, <3>2, <3>3, <3>4, <3>5 DEF Exchanged, Stages, Updates
  <2>12. EntriesKept
    BY <2>2, <2>3, <2>4, <2>6 DEF EntriesKept, IsOverdue, new
  <2> QED BY <2>1, <2>9, <2>10, <2>11, <2>12 DEF RightStep, RightError
<1> QED BY <1>2, <1>3

(* Between two calls of the store: nothing is added to updateData.          *)
LEMMA NothingSaid ==
  ASSUME Seated, Exchanged, Between, Between', pc' \in Stages,
         UNCHANGED store, UNCHANGED seating, UNCHANGED updateData
  PROVE  Seated' /\ Exchanged' /\ EntriesKept
<1>1. Seated' /\ Connected' = Connected
  BY SeatedKept
<1>2. EntriesKept
  BY SameEntries DEF seating
<1>3. Exchanged'
  BY <1>1, InBetween, BetweenKept DEF Out
<1> QED BY <1>1, <1>2, <1>3

(* Messages to connections the store reads are added.                       *)
LEMMA MoreSaid ==
  ASSUME Seated, Exchanged, Between, Between', pc' \in Stages,
         UNCHANGED store, UNCHANGED seating,
         NEW out \in Seq(MessagesTo(receiving)), updateData' = Send(updateData, out)
  PROVE  Seated' /\ Exchanged' /\ EntriesKept
<1>1. Seated' /\ Connected' = Connected
  BY SeatedKept
<1>2. EntriesKept
  BY SameEntries DEF seating
<1>3. /\ updateData' \in Updates /\ updateData'.msgs \in Seq(MessagesTo(receiving))
      /\ updateData'.closed = updateData.closed /\ updateData'.opened = NoFd
  <2>1. updateData \in Updates /\ updateData.msgs \in Seq(MessagesTo(receiving))
        /\ updateData.opened = NoFd
    BY InBetween DEF Out
  <2> QED BY <2>1, SendAdds
<1>4. Exchanged'
  BY <1>1, <1>3, InBetween, BetweenKept DEF Out
<1> QED BY <1>1, <1>2, <1>4

(* A connection is closed, perhaps with a last message.                     *)
LEMMA OneClosed ==
  ASSUME Seated, Exchanged, Between, Between', pc' \in Stages, UNCHANGED store,
         NEW fd \in Connected, PopConnections(<<fd>>),
         NEW data \in Updates, data.closed = updateData.closed, data.opened = NoFd,
         data.msgs \in Seq(MessagesTo(receiving)), updateData' = Close(data, fd)
  PROVE  Seated' /\ Exchanged' /\ EntriesKept
<1>1. fd \in Fds
  BY DEF Connected, Seated, Tables, Maps, Candidacy, Candidates
<1>2. <<fd>> \in Seq(Fds) /\ ToSet(<<fd>>) = {fd}
  BY <1>1 DEF ToSet
<1>3. /\ Seated'
      /\ Candidates' = Candidates \ {fd} /\ Players' = Players \ {fd}
      /\ \A f \in Candidates' :
            candidates'[candidateMap'[f]] = candidates[candidateMap[f]]
  BY <1>2, PopConnectionsSeated
<1>4. EntriesKept
  BY <1>3 DEF EntriesKept, IsOverdue
<1>5. /\ updateData' \in Updates /\ updateData'.msgs = data.msgs
      /\ updateData'.closed = Append(updateData.closed, fd)
      /\ updateData'.opened = NoFd
  BY <1>1, CloseAdds
<1>6. /\ IsInjective(updateData'.closed)
      /\ ToSet(updateData'.closed) = ToSet(updateData.closed) \cup {fd}
  <2>1. updateData.closed \in Seq(Fds) /\ IsInjective(updateData.closed)
        /\ fd \notin ToSet(updateData.closed)
    BY InBetween
  <2> QED BY <1>1, <1>5, <2>1, AppendDistinct, ToSetAppend
<1>7. /\ Connected' \cup ToSet(updateData'.closed) = receiving
      /\ Connected' \cap ToSet(updateData'.closed) = {}
  BY <1>3, <1>6, InBetween DEF Connected
<1>8. Exchanged'
  BY <1>5, <1>6, <1>7, BetweenKept DEF Out
<1> QED BY <1>3, <1>4, <1>8

(* A candidate gets a free seat: the seat has one connection, and the       *)
(* connection one seat.                                                     *)
LEMMA PromoteKeeps ==
  ASSUME TableInv, Seated, Exchanged, pc = "dispatch", pc' = "dispatch", UNCHANGED store,
         NEW msg \in Message, Known(msg.fd), PromoteToPlayer(msg)
  PROVE  Seated' /\ Exchanged' /\ EntriesKept
<1> DEFINE fd == msg.fd
           seat == msg.content.seat
           left == CandidatesWithout(<<fd>>)
<1>1. /\ fd \in Candidates /\ fd \notin Players /\ fd \in Fds
      /\ seat \in Seats /\ seatFd[seat] = NoFd /\ fd # NoFd
  <2>1. fd \in Fds /\ msg.content \in ClientMessages \cup ServerMessages
    BY DEF Message
  <2>2. fd \in Candidates /\ fd \notin Players /\ msg.content.type = "IAM" /\ seatFd[seat] = NoFd
    BY DEF PromoteToPlayer, Known
  <2> QED BY <2>1, <2>2, IamHasSeat, FdsAssumption
<1>2. /\ candidates' = left.list /\ candidateMap' = left.map
      /\ seatFd' = [seatFd EXCEPT ![seat] = fd]
      /\ playerMap' = [f \in Players \cup {fd} |-> IF f = fd THEN seat ELSE playerMap[f]]
      /\ updateData' = Send(updateData, AllTo(fd, Recap(seat)))
  BY DEF PromoteToPlayer, CandidatesAre
<1>3. <<fd>> \in Seq(Fds) /\ ToSet(<<fd>>) = {fd}
  BY <1>1 DEF ToSet
<1>4. left \in Tables /\ Removes(Candidacy, left, {fd})
  <2>1. Candidacy \in Tables
    BY DEF Seated
  <2> HIDE DEF fd
  <2> QED BY <1>3, <2>1, PopMany
<1> HIDE DEF fd, seat, left
<1>5. /\ Candidates' = Candidates \ {fd}
      /\ \A f \in Candidates' :
            candidates'[candidateMap'[f]] = candidates[candidateMap[f]]
  BY <1>2, <1>4 DEF Removes, Candidates, Candidacy
<1>6. Candidacy' \in Tables
  <2>1. Candidacy' = left
    BY <1>2, <1>4 DEF Candidacy, Tables
  <2> QED BY <1>4, <2>1 DEF Tables, Entry, Maps, InStep
<1>7. Players' = Players \cup {fd}
  BY <1>2 DEF Players
<1>8. Players' \subseteq Fds /\ playerMap' \in [Players' -> Seats]
  BY <1>1, <1>2, <1>7 DEF Seated
<1>9. seatFd' \in [Seats -> Fds \cup {NoFd}]
  BY <1>1, <1>2 DEF Seated
<1>10. SeatsConsistent'
  <2>1. ASSUME NEW f \in Players' PROVE seatFd'[playerMap'[f]] = f
    <3>1. CASE f = fd
      BY <1>1, <1>2, <1>7, <3>1 DEF Seated
    <3>2. CASE f # fd
      <4>1. f \in Players /\ playerMap'[f] = playerMap[f]
        BY <1>2, <1>7, <3>2
      <4>2. playerMap[f] \in Seats /\ seatFd[playerMap[f]] = f
        BY <4>1 DEF Seated, SeatsConsistent
      <4>3. playerMap[f] # seat
        BY <1>1, <4>1, <4>2, FdsAssumption DEF Seated
      <4> QED BY <1>2, <4>1, <4>2, <4>3 DEF Seated
    <3> QED BY <3>1, <3>2
  <2>2. ASSUME NEW s \in Seats, seatFd'[s] # NoFd
        PROVE  seatFd'[s] \in Players' /\ playerMap'[seatFd'[s]] = s
    <3>1. CASE s = seat
      <4>1. seatFd'[s] = fd
        BY <1>1, <1>2, <3>1 DEF Seated
      <4> QED BY <1>2, <1>7, <3>1, <4>1
    <3>2. CASE s # seat
      <4>1. seatFd'[s] = seatFd[s]
        BY <1>2, <3>2 DEF Seated
      <4>2. seatFd[s] \in Players /\ playerMap[seatFd[s]] = s
        BY <2>2, <4>1 DEF Seated, SeatsConsistent
      <4> QED BY <1>1, <1>2, <1>7, <4>1, <4>2
    <3> QED BY <3>1, <3>2
  <2>3. Candidates' \cap Players' = {}
    BY <1>5, <1>7 DEF Seated, SeatsConsistent
  <2> QED BY <2>1, <2>2, <2>3 DEF SeatsConsistent
<1>11. Seated'
  BY <1>6, <1>8, <1>9, <1>10 DEF Seated
<1>12. Connected' = Connected /\ fd \in Connected
  BY <1>1, <1>5, <1>7 DEF Connected
<1>13. Between /\ Between'
  BY DEF Between
<1>14. AllTo(fd, Recap(seat)) \in Seq(MessagesTo(receiving))
  <2>1. fd \in receiving /\ receiving \subseteq Fds
    BY <1>12, <1>13, InBetween DEF Exchanged
  <2> QED BY <1>1, <2>1, RecapIsMessages, ListAddressed
<1>15. Exchanged'
  <2>1. updateData \in Updates /\ updateData.opened = NoFd
        /\ updateData.msgs \in Seq(MessagesTo(receiving))
    BY <1>13, InBetween DEF Out
  <2>2. /\ updateData' \in Updates /\ updateData'.opened = NoFd
        /\ updateData'.msgs \in Seq(MessagesTo(receiving))
        /\ updateData'.closed = updateData.closed
    BY <1>2, <1>14, <2>1, SendAdds
  <2>3. pc' \in Stages
    BY DEF Stages
  <2> QED BY <1>12, <1>13, <2>2, <2>3, InBetween, BetweenKept DEF Out
<1>16. EntriesKept
  BY <1>5 DEF EntriesKept, IsOverdue
<1> QED BY <1>11, <1>15, <1>16

(* One message of the batch: whoever sent it is known or the server stops.  *)
LEMMA DispatchKeeps ==
  ASSUME TableInv, Seated, Queued, Exchanged, Dispatch
  PROVE  RightStep
<1> DEFINE msg == Head(inbox)
<1>1. /\ pc = "dispatch" /\ inbox # <<>> /\ inbox \in Seq(Message)
      /\ msg \in Message /\ Tail(inbox) \in Seq(Message)
  BY DEF Dispatch, Queued
<1>2. CASE ~Known(msg.fd)
  BY <1>1, <1>2, StopRight DEF Dispatch
<1>3. CASE Known(msg.fd)
  <2>1. /\ \/ KeepForGame(msg) \/ RefuseSeat(msg)
           \/ PromoteToPlayer(msg) \/ CloseCandidate(msg)
        /\ inbox' = Tail(inbox) /\ pc' = pc
        /\ UNCHANGED <<trickOverdue, isTrickReceived>> /\ UNCHANGED store
    BY <1>3 DEF Dispatch
  <2>2. Between /\ Between' /\ pc' \in Stages /\ msg.fd \in Connected
    BY <1>1, <1>3, <2>1 DEF Between, Stages, Known, Connected
  <2>3. /\ updateData \in Updates /\ updateData.opened = NoFd
        /\ updateData.msgs \in Seq(MessagesTo(receiving))
        /\ msg.fd \in receiving /\ receiving \subseteq Fds
    BY <2>2, InBetween DEF Out, Exchanged
  <2> HIDE DEF msg
  <2>4. CASE KeepForGame(msg)
    <3>1. /\ playerMessages' = Append(playerMessages, msg)
          /\ UNCHANGED seating /\ UNCHANGED updateData
      BY <2>4 DEF KeepForGame
    <3>2. playerMessages' \in Seq(Message)
      BY <1>1, <3>1 DEF Queued
    <3>3. Queued'
      BY <1>1, <2>1, <3>2 DEF Queued
    <3>4. Seated' /\ Exchanged' /\ EntriesKept
      BY <2>1, <2>2, <3>1, NothingSaid
    <3> QED BY <1>1, <2>1, <3>3, <3>4 DEF RightStep, RightError
  <2>5. CASE RefuseSeat(msg)
    <3> DEFINE data == Send(updateData, <<To(msg.fd, MsgBusy)>>)
    <3>1. /\ updateData' = Close(data, msg.fd) /\ PopConnections(<<msg.fd>>)
          /\ UNCHANGED playerMessages
      BY <2>5 DEF RefuseSeat
    <3>2. <<To(msg.fd, MsgBusy)>> \in Seq(MessagesTo(receiving))
      BY <2>3, BusyIsMessage, ToIsMessage
    <3>3. /\ data \in Updates /\ data.closed = updateData.closed /\ data.opened = NoFd
          /\ data.msgs \in Seq(MessagesTo(receiving))
      BY <2>3, <3>2, SendAdds
    <3> HIDE DEF data
    <3>4. Seated' /\ Exchanged' /\ EntriesKept
      BY <2>1, <2>2, <3>1, <3>3, OneClosed
    <3>5. Queued'
      BY <1>1, <2>1, <3>1 DEF Queued
    <3> QED BY <1>1, <2>1, <3>4, <3>5 DEF RightStep, RightError
  <2>6. CASE PromoteToPlayer(msg)
    <3>1. Seated' /\ Exchanged' /\ EntriesKept
      BY <1>1, <1>3, <2>1, <2>6, PromoteKeeps DEF msg
    <3>2. UNCHANGED playerMessages
      BY <2>6 DEF PromoteToPlayer
    <3>3. Queued'
      BY <1>1, <2>1, <3>2 DEF Queued
    <3> QED BY <1>1, <2>1, <3>1, <3>3 DEF RightStep, RightError
  <2>7. CASE CloseCandidate(msg)
    <3>1. /\ updateData' = Close(updateData, msg.fd) /\ PopConnections(<<msg.fd>>)
          /\ UNCHANGED playerMessages
      BY <2>7 DEF CloseCandidate
    <3>2. Seated' /\ Exchanged' /\ EntriesKept
      BY <2>1, <2>2, <2>3, <3>1, OneClosed
    <3>3. Queued'
      BY <1>1, <2>1, <3>1 DEF Queued
    <3> QED BY <1>1, <2>1, <3>2, <3>3 DEF RightStep, RightError
  <2> QED BY <2>1, <2>4, <2>5, <2>6, <2>7
<1> QED BY <1>2, <1>3

(* A seat is still empty.                                                   *)
LEMMA UpdateAgainKeeps ==
  ASSUME Seated, Queued, Exchanged, UpdateAgain
  PROVE  RightStep
<1>1. /\ pc = "dispatch" /\ pc' = "update" /\ UNCHANGED seating /\ UNCHANGED store
      /\ UNCHANGED updateData
      /\ UNCHANGED <<playerMessages, trickOverdue, inbox, isTrickReceived>>
  BY DEF UpdateAgain
<1>2. Between /\ Between' /\ pc' \in Stages
  BY <1>1 DEF Between, Stages
<1>3. Seated' /\ Exchanged' /\ EntriesKept
  BY <1>1, <1>2, NothingSaid
<1>4. Queued'
  BY <1>1 DEF Queued
<1> QED BY <1>1, <1>3, <1>4 DEF RightStep, RightError

(* All seats are taken, so the deal and the first TRICK find their players. *)
LEMMA NewDealKeeps ==
  ASSUME TableInv, Seated, Queued, Exchanged, NewDealAndTrick
  PROVE  RightStep
<1>1. /\ pc = "dispatch" /\ inbox = <<>> /\ FullTable
      /\ \A s \in Seats : seatFd[s] # NoFd /\ seatFd[s] \in Players
  BY FullTableSeats DEF NewDealAndTrick
<1> DEFINE d == Head(deals)
           out == DealMsgs(d) \o <<To(seatFd[d.first], MsgTrick(trick'))>>
<1>2. /\ StartGame /\ updateData' = Send(updateData, out)
      /\ trickOverdue' = FALSE /\ TakePlayerMessages
      /\ UNCHANGED seating /\ UNCHANGED isTrickReceived /\ UNCHANGED store
  BY <1>1 DEF NewDealAndTrick
<1>3. d \in DealConfig /\ d.first \in Seats
  <2>1. deals # <<>> /\ deals \in Seq(DealConfig)
    BY <1>2 DEF StartGame, TableInv, TableTypeOK
  <2>2. d \in DealConfig
    BY <2>1
  <2> QED BY <2>2 DEF DealConfig
<1>4. trick' \in Trick /\ trick'.number # 0
  BY <1>2, <1>3, TricksAssumption DEF StartGame, Deal, FirstTrick, Trick
<1> HIDE DEF d
<1>5. out \in Seq(MessagesTo(Players))
  <2>1. DealMsgs(d) \in Seq(MessagesTo(Players))
    BY <1>1, <1>3, DealMsgsAddressed
  <2>2. To(seatFd[d.first], MsgTrick(trick')) \in MessagesTo(Players)
    BY <1>1, <1>3, <1>4, TrickIsMessage, ToIsMessage DEF Seated
  <2> QED BY <2>1, <2>2
<1> HIDE DEF out
<1>6. pc' = "handle" /\ inbox' = playerMessages /\ playerMessages' = <<>>
  BY <1>2 DEF TakePlayerMessages
<1>7. Between /\ Between' /\ pc' \in Stages
  BY <1>1, <1>6 DEF Between, Stages
<1>8. out \in Seq(MessagesTo(receiving))
  BY <1>5, <1>7, InBetween, MessagesToMore DEF Connected
<1>9. Seated' /\ Exchanged' /\ EntriesKept
  BY <1>2, <1>7, <1>8, MoreSaid
<1>10. Queued'
  <2>1. trickOverdue' \in BOOLEAN /\ isTrickReceived' \in BOOLEAN
    BY <1>2 DEF Queued
  <2>2. playerMessages' \in Seq(Message) /\ inbox' \in Seq(Message)
    BY <1>6 DEF Queued
  <2> QED BY <2>1, <2>2 DEF Queued
<1> QED BY <1>6, <1>9, <1>10 DEF RightStep, RightError

(* A turn of the game begins.                                               *)
LEMMA BeginHandlingKeeps ==
  ASSUME Seated, Queued, Exchanged, BeginHandling
  PROVE  RightStep
<1>1. /\ pc = "dispatch" /\ inbox = <<>> /\ FullTable
      /\ \A s \in Seats : seatFd[s] # NoFd /\ seatFd[s] \in Players
  BY FullTableSeats DEF BeginHandling
<1>2. /\ TakePlayerMessages /\ UNCHANGED seating /\ UNCHANGED updateData
      /\ UNCHANGED <<trickOverdue, isTrickReceived>> /\ UNCHANGED store
  BY <1>1 DEF BeginHandling
<1>3. pc' = "handle" /\ inbox' = playerMessages /\ playerMessages' = <<>>
  BY <1>2 DEF TakePlayerMessages
<1>4. Between /\ Between' /\ pc' \in Stages
  BY <1>1, <1>3 DEF Between, Stages
<1>5. Seated' /\ Exchanged' /\ EntriesKept
  BY <1>2, <1>4, NothingSaid
<1>6. Queued'
  BY <1>2, <1>3 DEF Queued
<1> QED BY <1>3, <1>5, <1>6 DEF RightStep, RightError

(* One message of a turn.                                                   *)
LEMMA HandleKeeps ==
  ASSUME TableInv, Seated, Queued, Exchanged, Handle
  PROVE  RightStep
<1> DEFINE msg == Head(inbox)
<1>1. /\ pc = "handle" /\ inbox # <<>> /\ inbox \in Seq(Message)
      /\ msg \in Message /\ Tail(inbox) \in Seq(Message)
  BY DEF Handle, Queued
<1>2. CASE FullTable /\ msg.fd \notin Players
  BY <1>1, <1>2, StopRight DEF Handle
<1>3. CASE ~ (FullTable /\ msg.fd \notin Players)
  <2>1. /\ \/ KeepForResumedGame(msg) \/ ClosePlayer(msg)
           \/ AnswerWrong(msg) \/ AcceptCard(msg)
        /\ inbox' = Tail(inbox) /\ pc' = pc /\ UNCHANGED store
    BY <1>3 DEF Handle
  <2>2. Between /\ Between' /\ pc' \in Stages
    BY <1>1, <2>1 DEF Between, Stages
  <2>3. /\ updateData \in Updates /\ updateData.opened = NoFd
        /\ updateData.msgs \in Seq(MessagesTo(receiving))
        /\ Players \subseteq receiving /\ receiving \subseteq Fds
    BY <2>2, InBetween DEF Out, Exchanged, Connected
  <2>4. RightError
    BY <1>1, <2>1 DEF RightError
  <2> HIDE DEF msg
  <2>5. CASE KeepForResumedGame(msg)
    <3>1. /\ playerMessages' = IF msg.fd \in Players THEN Append(playerMessages, msg)
                                                     ELSE playerMessages
          /\ UNCHANGED seating /\ UNCHANGED updateData
          /\ UNCHANGED <<trickOverdue, isTrickReceived>>
      BY <2>5 DEF KeepForResumedGame
    <3>2. playerMessages' \in Seq(Message)
      BY <1>1, <3>1 DEF Queued
    <3>3. Queued'
      BY <1>1, <2>1, <3>1, <3>2 DEF Queued
    <3>4. Seated' /\ Exchanged' /\ EntriesKept
      BY <2>1, <2>2, <3>1, NothingSaid
    <3> QED BY <2>4, <3>3, <3>4 DEF RightStep
  <2>6. CASE ClosePlayer(msg)
    <3>1. /\ msg.fd \in Connected
          /\ updateData' = Close(updateData, msg.fd) /\ PopConnections(<<msg.fd>>)
          /\ UNCHANGED <<playerMessages, trickOverdue, isTrickReceived>>
      BY <1>3, <2>6 DEF ClosePlayer, Connected, msg
    <3>2. Seated' /\ Exchanged' /\ EntriesKept
      BY <2>1, <2>2, <2>3, <3>1, OneClosed
    <3>3. Queued'
      BY <1>1, <2>1, <3>1 DEF Queued
    <3> QED BY <2>4, <3>2, <3>3 DEF RightStep
  <2>7. CASE AnswerWrong(msg)
    <3> DEFINE out == <<To(msg.fd, MsgWrong(trick))>>
    <3>1. /\ msg.fd \in receiving /\ UNCHANGED seating /\ UNCHANGED playerMessages
          /\ updateData' = Send(updateData, out)
          /\ trickOverdue' = FALSE /\ isTrickReceived' = TRUE
      BY <1>3, <2>3, <2>7 DEF AnswerWrong, msg
    <3>2. out \in Seq(MessagesTo(receiving))
      <4>1. trick \in Trick
        BY DEF TableInv, TableTypeOK
      <4>2. MsgWrong(trick) \in ServerMessages
        BY <4>1, TrickIsMessage
      <4>3. To(msg.fd, MsgWrong(trick)) \in MessagesTo(receiving)
        BY <2>3, <3>1, <4>2, ToIsMessage
      <4> QED BY <4>3
    <3> HIDE DEF out
    <3>3. Seated' /\ Exchanged' /\ EntriesKept
      BY <2>1, <2>2, <3>1, <3>2, MoreSaid
    <3>4. Queued'
      <4>1. trickOverdue' \in BOOLEAN /\ isTrickReceived' \in BOOLEAN
        BY <3>1
      <4>2. playerMessages' \in Seq(Message) /\ inbox' \in Seq(Message)
        BY <1>1, <2>1, <3>1 DEF Queued, msg
      <4> QED BY <4>1, <4>2 DEF Queued
    <3> QED BY <2>4, <3>3, <3>4 DEF RightStep
  <2>8. CASE AcceptCard(msg)
    <3> DEFINE card == msg.content.cards[1]
    <3>1. /\ FullTable /\ MoveAccepted(playerMap[msg.fd], msg.content) /\ PlayCard(card)
          /\ updateData' = Send(updateData, NewsOf(card))
          /\ isTrickReceived' = TRUE
          /\ UNCHANGED seating /\ UNCHANGED <<playerMessages, trickOverdue>>
      BY <2>8 DEF AcceptCard
    <3>2. TrickOngoing /\ card \in Card
      <4>1. IsMoveLegal(trick.turn, card)
        BY <3>1 DEF MoveAccepted
      <4>2. trick.turn \in Seats /\ card \in hands[trick.turn]
        BY <4>1 DEF IsMoveLegal, TableInv, TableTypeOK, Trick
      <4>3. TrickOngoing
        BY <3>1 DEF PlayCard, ContinueTrick, FinishTrick, FinishDeal, Play, CanPlay
      <4> QED BY <4>2, <4>3 DEF TableInv, TableTypeOK
    <3> HIDE DEF card
    <3>3. NewsOf(card) \in Seq(MessagesTo(receiving))
      BY <2>3, <3>1, <3>2, NewsAddressed, MessagesToMore
    <3>4. Seated' /\ Exchanged' /\ EntriesKept
      BY <2>1, <2>2, <3>1, <3>3, MoreSaid
    <3>5. Queued'
      <4>1. trickOverdue' \in BOOLEAN /\ isTrickReceived' \in BOOLEAN
        BY <3>1 DEF Queued
      <4>2. playerMessages' \in Seq(Message) /\ inbox' \in Seq(Message)
        BY <1>1, <2>1, <3>1 DEF Queued, msg
      <4> QED BY <4>1, <4>2 DEF Queued
    <3> QED BY <2>4, <3>4, <3>5 DEF RightStep
  <2> QED BY <2>1, <2>5, <2>6, <2>7, <2>8
<1> QED BY <1>2, <1>3

(* The end of a turn: only a seated player is asked for a card.             *)
LEMMA EndHandlingKeeps ==
  ASSUME TableInv, Seated, Queued, Exchanged, EndHandling
  PROVE  RightStep
<1>1. /\ pc = "handle" /\ pc' = "update" /\ inbox = <<>>
      /\ isTrickReceived' = FALSE
      /\ UNCHANGED seating /\ UNCHANGED <<playerMessages, inbox>> /\ UNCHANGED store
  BY DEF EndHandling
<1>2. Between /\ Between' /\ pc' \in Stages
  BY <1>1 DEF Between, Stages
<1>3. CASE TrickIsDue
  <2> DEFINE out == <<To(seatFd[trick.turn], MsgTrick(trick))>>
  <2>1. updateData' = Send(updateData, out) /\ trickOverdue' = FALSE
    BY <1>3 DEF EndHandling
  <2>2. /\ FullTable /\ trick \in Trick /\ trick.number # 0 /\ trick.turn \in Seats
    BY <1>3 DEF TrickIsDue, TrickOngoing, TableInv, TableTypeOK, Trick
  <2>3. out \in Seq(MessagesTo(Players))
    BY <2>2, FullTableSeats, TrickIsMessage, ToIsMessage DEF Seated
  <2>4. out \in Seq(MessagesTo(receiving))
    BY <1>2, <2>3, InBetween, MessagesToMore DEF Connected
  <2> HIDE DEF out
  <2>5. Seated' /\ Exchanged' /\ EntriesKept
    BY <1>1, <1>2, <2>1, <2>4, MoreSaid
  <2>6. trickOverdue' \in BOOLEAN /\ isTrickReceived' \in BOOLEAN
    BY <1>1, <2>1
  <2>7. Queued'
    BY <1>1, <2>6 DEF Queued
  <2> QED BY <1>1, <2>5, <2>7 DEF RightStep, RightError
<1>4. CASE ~TrickIsDue
  <2>1. UNCHANGED updateData /\ UNCHANGED trickOverdue
    BY <1>4 DEF EndHandling
  <2>2. Seated' /\ Exchanged' /\ EntriesKept
    BY <1>1, <1>2, <2>1, NothingSaid
  <2>3. trickOverdue' \in BOOLEAN /\ isTrickReceived' \in BOOLEAN
    BY <1>1, <2>1 DEF Queued
  <2>4. Queued'
    BY <1>1, <2>3 DEF Queued
  <2> QED BY <1>1, <2>2, <2>4 DEF RightStep, RightError
<1> QED BY <1>3, <1>4

(* After the game.                                                          *)
LEMMA CloseStoreKeeps ==
  ASSUME Seated, Queued, Exchanged, CloseStore \/ FlushAfterClose
  PROVE  RightStep
<1>1. /\ pc' = "close" /\ receiving' \subseteq Fds /\ sending' \subseteq Fds
      /\ UNCHANGED seating /\ UNCHANGED updateData
      /\ UNCHANGED <<playerMessages, trickOverdue, inbox, isTrickReceived>>
  BY DEF CloseStore, FlushAfterClose, StopAll, FlushMore, Flushes, Exchanged
<1>2. Seated' /\ EntriesKept
  BY <1>1, SeatedKept, SameEntries DEF seating
<1>3. Queued'
  BY <1>1 DEF Queued
<1>4. Exchanged'
  BY <1>1 DEF Exchanged, StoreAgrees, OutgoingAddressed, Pending, Between, Stages, Updates
<1> QED BY <1>1, <1>2, <1>3, <1>4 DEF RightStep, RightError

(* A deadline passes.                                                       *)
LEMMA TimePassesKeeps ==
  ASSUME Seated, Queued, Exchanged, NEW fd \in Fds, TimePasses(fd)
  PROVE  RightStep
<1> DEFINE i == candidateMap[fd]
<1>1. /\ pc = "poll" /\ pc' = pc /\ fd \in Candidates
      /\ candidates' = [candidates EXCEPT ![i].overdue = TRUE]
      /\ UNCHANGED <<candidateMap, seatFd, playerMap, updateData>>
      /\ UNCHANGED <<playerMessages, trickOverdue, inbox, isTrickReceived>>
      /\ UNCHANGED store
  BY DEF TimePasses
<1>2. /\ candidates \in Seq(Entry) /\ i \in DOMAIN candidates /\ InStep(Candidacy)
      /\ candidateMap \in Maps /\ candidates[i] \in Entry
  BY <1>1 DEF Seated, Tables, Candidacy, InStep, Candidates
<1>3. /\ candidates' \in Seq(Entry) /\ DOMAIN candidates' = DOMAIN candidates
      /\ \A j \in DOMAIN candidates : candidates'[j].fd = candidates[j].fd
  <2>1. [candidates[i] EXCEPT !.overdue = TRUE] \in Entry
        /\ [candidates[i] EXCEPT !.overdue = TRUE].fd = candidates[i].fd
    BY <1>2 DEF Entry
  <2> DEFINE e == [candidates[i] EXCEPT !.overdue = TRUE]
  <2>2. candidates' = [candidates EXCEPT ![i] = e]
    BY <1>1
  <2> HIDE DEF e, i
  <2> QED BY <1>2, <2>1, <2>2 DEF e
<1>4. Candidacy' \in Tables
  <2>1. Candidacy' = [list |-> candidates', map |-> candidateMap]
    BY <1>1 DEF Candidacy
  <2>2. InStep([list |-> candidates', map |-> candidateMap])
    BY <1>2, <1>3 DEF InStep, Candidacy
  <2>3. [list |-> candidates', map |-> candidateMap] \in Tables
    BY <1>2, <1>3, <2>2 DEF Tables
  <2> QED BY <2>1, <2>3 DEF Tables, Entry, Maps, InStep
<1>5. Candidates' = Candidates /\ Players' = Players /\ Connected' = Connected
  BY <1>1 DEF Candidates, Players, Connected
<1>6. Seated'
  BY <1>1, <1>4, <1>5 DEF Seated, SeatsConsistent
<1>7. Queued'
  BY <1>1 DEF Queued
<1>8. Exchanged'
  BY <1>1, <1>5 DEF Exchanged, StoreAgrees, OutgoingAddressed, Pending, Between, Stages,
                    Updates, store, Out
<1> QED BY <1>1, <1>6, <1>7, <1>8 DEF RightStep, EntriesKept, RightError

(* The deadline of the trick passes.                                        *)
LEMMA TrickTimePassesKeeps ==
  ASSUME Seated, Queued, Exchanged, TrickTimePasses
  PROVE  RightStep
<1>1. /\ pc = "poll" /\ pc' = pc /\ trickOverdue' = TRUE
      /\ UNCHANGED seating /\ UNCHANGED updateData
      /\ UNCHANGED <<playerMessages, inbox, isTrickReceived>> /\ UNCHANGED store
  BY DEF TrickTimePasses
<1>2. Seated' /\ EntriesKept /\ Candidates' = Candidates /\ Players' = Players
              /\ Connected' = Connected
  BY <1>1, SeatedKept, SameEntries DEF seating
<1>3. Queued'
  <2>1. trickOverdue' \in BOOLEAN /\ isTrickReceived' \in BOOLEAN
    BY <1>1 DEF Queued
  <2> QED BY <1>1, <2>1 DEF Queued
<1>4. Exchanged'
  BY <1>1, <1>2 DEF Exchanged, StoreAgrees, OutgoingAddressed, Pending, Between, Stages,
                    Updates, store, Out
<1> QED BY <1>1, <1>2, <1>3, <1>4 DEF RightStep, RightError

(* A step in which nothing happens.                                         *)
LEMMA StutterKeeps ==
  ASSUME Seated, Queued, Exchanged, UNCHANGED vars
  PROVE  Seated' /\ Queued' /\ Exchanged' /\ EntriesKept
<1>1. /\ pc' = pc /\ UNCHANGED seating /\ UNCHANGED updateData /\ UNCHANGED store
      /\ UNCHANGED <<playerMessages, trickOverdue, inbox, isTrickReceived>>
  BY DEF vars
<1>2. Seated' /\ EntriesKept /\ Candidates' = Candidates /\ Players' = Players
              /\ Connected' = Connected
  BY <1>1, SeatedKept, SameEntries DEF seating
<1>3. Queued'
  BY <1>1 DEF Queued
<1>4. Exchanged'
  BY <1>1, <1>2 DEF Exchanged, StoreAgrees, OutgoingAddressed, Pending, Between, Stages,
                    Updates, store, Out
<1> QED BY <1>2, <1>3, <1>4

-----------------------------------------------------------------------------
(* ServerInv is inductive.                                                  *)
LEMMA InitServerInv ==
  ASSUME Init
  PROVE  ServerInv
BY InitSeated, InitInv DEF ServerInv, Init

(* Every step, whatever clients and network do, keeps it.                   *)
LEMMA NextServerInv ==
  ASSUME ServerInv, [Next]_vars
  PROVE  ServerInv' /\ EntriesKept /\ (RightError \/ UNCHANGED vars)
<1>1. TableInv /\ Seated /\ Queued /\ Exchanged
  BY DEF ServerInv
<1>2. TableInv'
  BY <1>1, StepIsTableStep, NextInv DEF TableInv
<1>3. RightStep \/ (Seated' /\ Queued' /\ Exchanged' /\ EntriesKept /\ UNCHANGED vars)
  <2>1. CASE PrePoll
    BY <1>1, <2>1, PrePollKeeps
  <2>2. CASE PollReady
    BY <1>1, <2>2, PollReadyKeeps
  <2>3. CASE PollTimeout
    BY <1>1, <2>3, PollTimeoutKeeps
  <2>4. CASE PollFails
    BY <2>4, StopRight DEF PollFails
  <2>5. CASE Apply
    BY <1>1, <2>5, ApplyKeeps
  <2>6. CASE Dispatch
    BY <1>1, <2>6, DispatchKeeps
  <2>7. CASE UpdateAgain
    BY <1>1, <2>7, UpdateAgainKeeps
  <2>8. CASE NewDealAndTrick
    BY <1>1, <2>8, NewDealKeeps
  <2>9. CASE BeginHandling
    BY <1>1, <2>9, BeginHandlingKeeps
  <2>10. CASE Handle
    BY <1>1, <2>10, HandleKeeps
  <2>11. CASE EndHandling
    BY <1>1, <2>11, EndHandlingKeeps
  <2>12. CASE CloseStore \/ FlushAfterClose
    BY <1>1, <2>12, CloseStoreKeeps
  <2>13. CASE LostAfterClose
    BY <2>13, StopRight DEF LostAfterClose
  <2>14. CASE Closed
    BY <2>14, StopRight DEF Closed
  <2>15. CASE \E fd \in Fds : TimePasses(fd)
    BY <1>1, <2>15, TimePassesKeeps
  <2>16. CASE TrickTimePasses
    BY <1>1, <2>16, TrickTimePassesKeeps
  <2>17. CASE Terminated \/ UNCHANGED vars
    BY <1>1, <2>17, StutterKeeps DEF Terminated
  <2> QED BY <2>1, <2>2, <2>3, <2>4, <2>5, <2>6, <2>7, <2>8, <2>9, <2>10, <2>11,
             <2>12, <2>13, <2>14, <2>15, <2>16, <2>17 DEF Next, ServerStep
<1> QED BY <1>2, <1>3 DEF RightStep, ServerInv

(* So it holds in every state of the server: the tables agree, the queues   *)
(* hold messages, server and store know the same connections.               *)
THEOREM ServerInvariant == Spec => []ServerInv
<1>1. ServerInv /\ [Next]_vars => ServerInv'
  BY NextServerInv
<1> QED BY <1>1, InitServerInv, PTL DEF Spec

-----------------------------------------------------------------------------
(* Every variable of the server has a value of its C++ type; in particular  *)
(* the queues only ever hold messages that have a receiver or a sender.     *)
THEOREM TypesOK == Spec => []ServerTypeOK
<1>1. ServerInv => ServerTypeOK
  <2> SUFFICES ASSUME ServerInv PROVE ServerTypeOK
    OBVIOUS
  <2>1. TableTypeOK /\ Seated /\ Queued /\ Exchanged
    BY DEF ServerInv, TableInv
  <2>2. /\ candidates \in Seq([fd : Fds, overdue : BOOLEAN]) /\ Candidates \subseteq Fds
        /\ candidateMap \in [Candidates -> DOMAIN candidates]
    BY <2>1 DEF Seated, Tables, Maps, InStep, Candidacy, Candidates, Entry
  <2>3. trickOverdue \in BOOLEAN /\ isTrickReceived \in BOOLEAN
    BY <2>1 DEF Queued
  <2>4. playerMessages \in Seq(Message) /\ inbox \in Seq(Message)
    BY <2>1 DEF Queued
  <2>5. /\ seatFd \in [Seats -> Fds \cup {NoFd}]
        /\ Players \subseteq Fds /\ playerMap \in [Players -> Seats]
    BY <2>1 DEF Seated
  <2>6. /\ receiving \subseteq Fds /\ sending \subseteq Fds
        /\ updateData \in [msgs : Seq(Message), closed : Seq(Fds), opened : Fds \cup {NoFd}]
        /\ pc \in {"update", "poll", "apply", "dispatch", "handle", "close",
                   "done", "error", "crash"}
    BY <2>1 DEF Exchanged, Updates, Stages
  <2> QED BY <2>1, <2>2, <2>3, <2>4, <2>5, <2>6 DEF ServerTypeOK
<1> QED BY <1>1, ServerInvariant, PTL

(* No sequence of arrivals, departures, refusals and promotions leaves a    *)
(* seat with two connections, a connection without its seat, or somebody    *)
(* both candidate and player.                                               *)
THEOREM SeatsAgree == Spec => []SeatsConsistent
<1>1. ServerInv => SeatsConsistent
  BY DEF ServerInv, Seated
<1> QED BY <1>1, ServerInvariant, PTL

(* PopConnection, called for any candidates in any order, keeps the vector  *)
(* of candidates and the map of their indices in step.                      *)
THEOREM CandidatesAgree == Spec => []CandidatesInStep
<1>1. ServerInv => CandidatesInStep
  <2> SUFFICES ASSUME ServerInv PROVE CandidatesInStep
    OBVIOUS
  <2> DEFINE n == Len(candidates)
  <2>1. /\ candidates \in Seq(Entry) /\ n \in Nat /\ DOMAIN candidates = 1 .. n
        /\ Candidates \subseteq Fds /\ candidateMap \in [Candidates -> 1 .. n]
        /\ \A i \in 1 .. n :
              candidates[i].fd \in Candidates /\ candidateMap[candidates[i].fd] = i
        /\ \A fd \in Candidates : candidates[candidateMap[fd]].fd = fd
    BY DEF ServerInv, Seated, Tables, Maps, InStep, Candidacy, Candidates
  <2> HIDE DEF n
  <2>2. IsFiniteSet(Candidates)
    BY <2>1, FdsAssumption, FS_Subset
  <2>3. candidateMap \in Bijection(Candidates, 1 .. n)
    BY <2>1 DEF Bijection, Injection, Surjection, IsInjective
  <2>4. Cardinality(Candidates) = Cardinality(1 .. n) /\ Cardinality(1 .. n) = n
    BY <2>1, <2>2, <2>3, FS_Bijection, FS_Interval DEF ExistsBijection
  <2> QED BY <2>1, <2>4 DEF CandidatesInStep, n
<1> QED BY <1>1, ServerInvariant, PTL

(* Whenever the thread waits, the store reads from exactly the candidates   *)
(* and the players; nobody is forgotten with an open connection.            *)
THEOREM StoreInAgreement == Spec => []StoreAgrees
<1>1. ServerInv => StoreAgrees
  BY DEF ServerInv, Exchanged
<1> QED BY <1>1, ServerInvariant, PTL

(* Nothing is ever addressed to an empty seat or a closed connection.       *)
THEOREM AlwaysAddressed == Spec => []OutgoingAddressed
<1>1. ServerInv => OutgoingAddressed
  BY DEF ServerInv, Exchanged
<1> QED BY <1>1, ServerInvariant, PTL

(* A removal from the middle of the candidates takes no deadline to another *)
(* candidate.                                                               *)
THEOREM DeadlinesStay == Spec => DeadlinesKept
<1>1. ServerInv /\ [Next]_vars =>
        [\A fd \in Candidates \cap Candidates' :
            pc = "poll" \/ fd = updateData.opened \/ IsOverdue(fd)' = IsOverdue(fd)]_vars
  BY NextServerInv DEF EntriesKept
<1> QED BY <1>1, ServerInvariant, PTL DEF Spec, DeadlinesKept

(* The server fails only for what poll reported to it: the store refuses    *)
(* nothing that is handed over, a deal finds its players, a turn its seats. *)
THEOREM NoErrorOfItsOwn == Spec => NoInternalError
<1>1. ServerInv /\ [Next]_vars =>
        [pc' = "error" => \/ pc \in {"poll", "apply", "close"}
                          \/ pc = "dispatch" /\ inbox # <<>>]_vars
  BY NextServerInv DEF RightError
<1> QED BY <1>1, ServerInvariant, PTL DEF Spec, NoInternalError

-----------------------------------------------------------------------------
(* RejoinHand is about the last DEAL to a player among the messages on      *)
(* their way and the TAKENs after it.                                       *)
LaterTo(q, i, t)   == {j \in i + 1 .. Len(q) : q[j].fd = q[i].fd /\ q[j].content.type = t}
TakenAfter(q, i)   == UNION {CardsOf(q[j].content.cards) : j \in LaterTo(q, i, "TAKEN")}
LastDeal(q, i, fd) == /\ i \in DOMAIN q /\ q[i].fd = fd /\ q[i].content.type = "DEAL"
                      /\ LaterTo(q, i, "DEAL") = {}
Rebuilds(q, fd, held) ==
    \A i \in DOMAIN q : LastDeal(q, i, fd) => q[i].content.hand \ TakenAfter(q, i) = held
DealtAs(q, fd, hand) ==
    \A i \in DOMAIN q : LastDeal(q, i, fd) => q[i].content.hand = hand

NoDealIn(r, fd) == \A k \in DOMAIN r : r[k].fd = fd => r[k].content.type # "DEAL"
TakenIn(r, fd)  ==
    UNION {CardsOf(r[k].content.cards) :
               k \in {k \in DOMAIN r : r[k].fd = fd /\ r[k].content.type = "TAKEN"}}

(* The last DEAL of w, q and r together, is that of q, or the one at k in r. *)
GoesOn(w, q, r, fd) ==
    \A i \in DOMAIN w : LastDeal(w, i, fd) =>
        /\ i \in DOMAIN q /\ LastDeal(q, i, fd) /\ w[i] = q[i]
        /\ TakenAfter(w, i) = TakenAfter(q, i) \cup TakenIn(r, fd)
BeginsAnew(w, r, k, fd) ==
    \A i \in DOMAIN w : LastDeal(w, i, fd) =>
        w[i] = r[k] /\ TakenAfter(w, i) = TakenAfter(r, k)

(* Messages without a DEAL: what they take is taken from the same hand.     *)
LEMMA NoMoreDeal ==
  ASSUME NEW q \in Seq(Message), NEW r \in Seq(Message), NEW fd, NoDealIn(r, fd),
         NEW w, w = q \o r
  PROVE  GoesOn(w, q, r, fd)
<1> SUFFICES ASSUME NEW i \in DOMAIN w, LastDeal(w, i, fd)
             PROVE  /\ i \in DOMAIN q /\ LastDeal(q, i, fd) /\ w[i] = q[i]
                    /\ TakenAfter(w, i) = TakenAfter(q, i) \cup TakenIn(r, fd)
  BY DEF GoesOn
<1>0. /\ q \o r \in Seq(Message) /\ Len(q) \in Nat /\ Len(r) \in Nat
      /\ Len(q \o r) = Len(q) + Len(r) /\ DOMAIN (q \o r) = 1 .. Len(q) + Len(r)
      /\ DOMAIN q = 1 .. Len(q) /\ DOMAIN r = 1 .. Len(r)
      /\ \A j \in 1 .. Len(q) : (q \o r)[j] = q[j]
      /\ \A j \in 1 .. Len(r) : (q \o r)[Len(q) + j] = r[j]
  OBVIOUS
<1>1. PICK p \in Seq(Message), m \in Nat, n \in Nat :
         /\ p = w /\ m = Len(q) /\ n = Len(r) /\ Len(p) = m + n /\ DOMAIN p = 1 .. m + n
         /\ DOMAIN q = 1 .. m /\ DOMAIN r = 1 .. n
         /\ \A j \in 1 .. m : p[j] = q[j]
         /\ \A j \in 1 .. n : p[m + j] = r[j]
  BY <1>0
<1>2. i \in 1 .. m + n /\ p[i].fd = fd /\ p[i].content.type = "DEAL" /\ LaterTo(p, i, "DEAL") = {}
  BY <1>1 DEF LastDeal
<1>3. i \in 1 .. m
  <2> SUFFICES ASSUME i > m PROVE FALSE
    BY <1>2
  <2>1. i - m \in 1 .. n /\ m + (i - m) = i
    BY <1>2
  <2>2. i - m \in DOMAIN r /\ r[i - m] = p[i]
    BY <1>1, <2>1
  <2> QED BY <1>2, <2>2 DEF NoDealIn
<1>4. p[i] = q[i]
  BY <1>1, <1>3
<1>5. LastDeal(q, i, fd)
  <2>1. LaterTo(q, i, "DEAL") \subseteq LaterTo(p, i, "DEAL")
    BY <1>1, <1>3, <1>4 DEF LaterTo
  <2> QED BY <1>1, <1>2, <1>3, <1>4, <2>1 DEF LastDeal
<1>6. TakenAfter(p, i) = TakenAfter(q, i) \cup TakenIn(r, fd)
  <2>1. ASSUME NEW x \in TakenAfter(p, i) PROVE x \in TakenAfter(q, i) \cup TakenIn(r, fd)
    <3>1. PICK j \in LaterTo(p, i, "TAKEN") : x \in CardsOf(p[j].content.cards)
      BY <2>1 DEF TakenAfter
    <3>2. j \in i + 1 .. m + n /\ p[j].fd = fd /\ p[j].content.type = "TAKEN"
      BY <1>1, <1>2, <3>1 DEF LaterTo
    <3>3. CASE j <= m
      <4>1. j \in i + 1 .. m /\ p[j] = q[j]
        BY <1>1, <1>3, <3>2, <3>3
      <4>2. j \in LaterTo(q, i, "TAKEN")
        BY <1>1, <1>2, <1>4, <3>2, <4>1 DEF LaterTo
      <4> QED BY <3>1, <4>1, <4>2 DEF TakenAfter
    <3>4. CASE j > m
      <4>1. j - m \in 1 .. n /\ m + (j - m) = j
        BY <1>3, <3>2, <3>4
      <4>2. r[j - m] = p[j]
        BY <1>1, <4>1
      <4> QED BY <1>1, <3>1, <3>2, <4>1, <4>2, SMTT(30) DEF TakenIn
    <3> QED BY <1>3, <3>2, <3>3, <3>4
  <2>2. ASSUME NEW x \in TakenAfter(q, i) PROVE x \in TakenAfter(p, i)
    <3>1. PICK j \in LaterTo(q, i, "TAKEN") : x \in CardsOf(q[j].content.cards)
      BY <2>2 DEF TakenAfter
    <3>2. j \in i + 1 .. m /\ q[j].fd = fd /\ q[j].content.type = "TAKEN"
      BY <1>1, <1>2, <1>4, <3>1 DEF LaterTo
    <3>3. j \in i + 1 .. m + n /\ p[j] = q[j]
      BY <1>1, <1>3, <3>2
    <3>4. j \in LaterTo(p, i, "TAKEN")
      BY <1>1, <1>2, <3>2, <3>3 DEF LaterTo
    <3> QED BY <3>1, <3>3, <3>4 DEF TakenAfter
  <2>3. ASSUME NEW x \in TakenIn(r, fd) PROVE x \in TakenAfter(p, i)
    <3>1. PICK k \in DOMAIN r : r[k].fd = fd /\ r[k].content.type = "TAKEN"
                               /\ x \in CardsOf(r[k].content.cards)
      BY <2>3 DEF TakenIn
    <3>2. m + k \in i + 1 .. m + n /\ p[m + k] = r[k]
      BY <1>1, <1>3, <3>1
    <3>3. m + k \in LaterTo(p, i, "TAKEN")
      BY <1>1, <1>2, <3>1, <3>2 DEF LaterTo
    <3> QED BY <3>1, <3>2, <3>3 DEF TakenAfter
  <2> QED BY <2>1, <2>2, <2>3
<1> QED BY <1>1, <1>3, <1>4, <1>5, <1>6

(* Messages with a DEAL: it is the last, and only they count.               *)
LEMMA OneMoreDeal ==
  ASSUME NEW q \in Seq(Message), NEW r \in Seq(Message), NEW fd,
         NEW k, LastDeal(r, k, fd), NEW w, w = q \o r
  PROVE  BeginsAnew(w, r, k, fd)
<1> SUFFICES ASSUME NEW i \in DOMAIN w, LastDeal(w, i, fd)
             PROVE  w[i] = r[k] /\ TakenAfter(w, i) = TakenAfter(r, k)
  BY DEF BeginsAnew
<1>0. /\ q \o r \in Seq(Message) /\ Len(q) \in Nat /\ Len(r) \in Nat
      /\ Len(q \o r) = Len(q) + Len(r) /\ DOMAIN (q \o r) = 1 .. Len(q) + Len(r)
      /\ DOMAIN q = 1 .. Len(q) /\ DOMAIN r = 1 .. Len(r)
      /\ \A j \in 1 .. Len(q) : (q \o r)[j] = q[j]
      /\ \A j \in 1 .. Len(r) : (q \o r)[Len(q) + j] = r[j]
  OBVIOUS
<1>1. PICK p \in Seq(Message), m \in Nat, n \in Nat :
         /\ p = w /\ m = Len(q) /\ n = Len(r) /\ Len(p) = m + n /\ DOMAIN p = 1 .. m + n
         /\ DOMAIN q = 1 .. m /\ DOMAIN r = 1 .. n
         /\ \A j \in 1 .. m : p[j] = q[j]
         /\ \A j \in 1 .. n : p[m + j] = r[j]
  BY <1>0
<1>2. i \in 1 .. m + n /\ p[i].fd = fd /\ p[i].content.type = "DEAL" /\ LaterTo(p, i, "DEAL") = {}
  BY <1>1 DEF LastDeal
<1>3. k \in 1 .. n /\ r[k].fd = fd /\ r[k].content.type = "DEAL" /\ LaterTo(r, k, "DEAL") = {}
  BY <1>1 DEF LastDeal
<1>4. p[m + k] = r[k] /\ m + k \in 1 .. m + n
  BY <1>1, <1>3
<1>5. ~ (i < m + k)
  <2> SUFFICES ASSUME i < m + k PROVE FALSE
    OBVIOUS
  <2>1. m + k \in i + 1 .. m + n
    BY <1>2, <1>3
  <2>2. m + k \in LaterTo(p, i, "DEAL")
    BY <1>1, <1>2, <1>3, <1>4, <2>1 DEF LaterTo
  <2> QED BY <1>2, <2>2
<1>6. ~ (i > m + k)
  <2> SUFFICES ASSUME i > m + k PROVE FALSE
    OBVIOUS
  <2>1. i - m \in k + 1 .. n /\ i - m \in 1 .. n /\ m + (i - m) = i
    BY <1>2, <1>3
  <2>2. r[i - m] = p[i]
    BY <1>1, <2>1
  <2>3. i - m \in LaterTo(r, k, "DEAL")
    BY <1>1, <1>2, <1>3, <2>1, <2>2 DEF LaterTo
  <2> QED BY <1>3, <2>3
<1>7. i = m + k
  <2>1. i \in Int /\ m + k \in Int
    BY <1>2, <1>3
  <2> QED BY <1>5, <1>6, <2>1
<1>8. TakenAfter(p, i) = TakenAfter(r, k)
  <2>1. ASSUME NEW x \in TakenAfter(p, i) PROVE x \in TakenAfter(r, k)
    <3>1. PICK j \in LaterTo(p, i, "TAKEN") : x \in CardsOf(p[j].content.cards)
      BY <2>1 DEF TakenAfter
    <3>2. j \in i + 1 .. m + n /\ p[j].fd = fd /\ p[j].content.type = "TAKEN"
      BY <1>1, <1>2, <3>1 DEF LaterTo
    <3>3. j - m \in k + 1 .. n /\ j - m \in 1 .. n /\ m + (j - m) = j
      BY <1>3, <1>7, <3>2, SMTT(30)
    <3>4. r[j - m] = p[j]
      BY <1>1, <3>3
    <3>5. j - m \in LaterTo(r, k, "TAKEN")
      BY <1>1, <1>3, <3>2, <3>3, <3>4 DEF LaterTo
    <3> QED BY <3>1, <3>4, <3>5 DEF TakenAfter
  <2>2. ASSUME NEW x \in TakenAfter(r, k) PROVE x \in TakenAfter(p, i)
    <3>1. PICK j \in LaterTo(r, k, "TAKEN") : x \in CardsOf(r[j].content.cards)
      BY <2>2 DEF TakenAfter
    <3>2. j \in k + 1 .. n /\ r[j].fd = fd /\ r[j].content.type = "TAKEN"
      BY <1>1, <1>3, <3>1 DEF LaterTo
    <3>3. m + j \in i + 1 .. m + n /\ p[m + j] = r[j]
      BY <1>1, <1>3, <1>7, <3>2
    <3>4. m + j \in LaterTo(p, i, "TAKEN")
      BY <1>1, <1>2, <3>2, <3>3 DEF LaterTo
    <3> QED BY <3>1, <3>3, <3>4 DEF TakenAfter
  <2> QED BY <2>1, <2>2
<1> QED BY <1>1, <1>4, <1>7, <1>8

(* Nobody who waits for a seat is addressed, and whatever of the deal is on *)
(* its way to a player rebuilds what it holds.                              *)
NoneWaiting == \A i \in DOMAIN Out : Out[i].fd \notin Candidates
RebuiltAt(fd) ==
    /\ Rebuilds(Out, fd, hands[playerMap[fd]] \cup InPlay(playerMap[fd]))
    /\ TrickOngoing => DealtAs(Out, fd, Head(deals).hands[playerMap[fd]])
AllRebuilt   == NoneWaiting /\ \A fd \in Players : RebuiltAt(fd)
HandsRebuilt == Between => AllRebuilt

(* RebuiltAt after a step, said with constants.                             *)
LEMMA RebuiltThen ==
  ASSUME NEW fd, NEW p, p = Out', NEW s, s = playerMap'[fd],
         NEW held, held = (hands[s] \cup InPlay(s))', Rebuilds(p, fd, held),
         TrickOngoing' => DealtAs(p, fd, Head(deals').hands[s])
  PROVE  RebuiltAt(fd)'
BY DEF RebuiltAt, Rebuilds, DealtAs, LastDeal, TakenAfter, LaterTo, InPlay, TrickOngoing,
       CardsOf, Out

(* Where an element of two lists comes from.                                *)
LEMMA ConcatFrom ==
  ASSUME NEW S, NEW q \in Seq(S), NEW r \in Seq(S), NEW i \in DOMAIN (q \o r)
  PROVE  \/ i \in DOMAIN q /\ (q \o r)[i] = q[i]
         \/ \E k \in DOMAIN r : (q \o r)[i] = r[k]
<1>1. CASE i <= Len(q)
  BY <1>1
<1>2. CASE i > Len(q)
  <2>1. i - Len(q) \in DOMAIN r /\ (q \o r)[i] = r[i - Len(q)]
    BY <1>2
  <2> QED BY <2>1
<1>3. i \in Nat /\ Len(q) \in Nat
  OBVIOUS
<1> QED BY <1>1, <1>2, <1>3

(* Lists put together one after the other, in either way.                   *)
LEMMA Regroup ==
  \A a, b, c \in Seq(Message) : a \o (b \o c) = (a \o b) \o c
OBVIOUS

(* The same as operators the provers do not look into.                      *)
EitherWay(a, b, c)   == a \o (b \o c) = (a \o b) \o c
OneByOne(a, b, c, d) == a \o (b \o (c \o d)) = ((a \o b) \o c) \o d

(* Four lists put together from either end.                                 *)
LEMMA RegroupAll == \A a, b, c, d \in Seq(Message) : OneByOne(a, b, c, d)
<1>1. \A a, b, c \in Seq(Message) : EitherWay(a, b, c)
  BY Regroup DEF EitherWay
<1> SUFFICES ASSUME NEW a \in Seq(Message), NEW b \in Seq(Message),
                    NEW c \in Seq(Message), NEW d \in Seq(Message)
             PROVE  OneByOne(a, b, c, d)
  OBVIOUS
<1>2. PICK x \in Seq(Message), y \in Seq(Message) : x = c \o d /\ y = a \o b
  <2>1. c \o d \in Seq(Message) /\ a \o b \in Seq(Message)
    OBVIOUS
  <2> QED BY ONLY <2>1
<1>3. EitherWay(a, b, x) /\ EitherWay(y, c, d)
  BY <1>1
<1>4. a \o (b \o x) = (a \o b) \o x /\ y \o (c \o d) = (y \o c) \o d
  BY ONLY <1>3 DEF EitherWay
<1> QED BY ONLY <1>2, <1>4 DEF OneByOne

(* Messages that are no DEAL and no TAKEN change nothing of it.             *)
LEMMA QuietlyTold ==
  ASSUME NEW q \in Seq(Message), NEW r \in Seq(Message), NEW fd,
         \A k \in DOMAIN r : r[k].fd = fd => r[k].content.type \notin {"DEAL", "TAKEN"},
         NEW w, w = q \o r, NEW held, NEW hand
  PROVE  /\ Rebuilds(q, fd, held) => Rebuilds(w, fd, held)
         /\ DealtAs(q, fd, hand) => DealtAs(w, fd, hand)
<1>1. NoDealIn(r, fd) /\ TakenIn(r, fd) = {}
  BY DEF NoDealIn, TakenIn
<1>2. GoesOn(w, q, r, fd)
  BY <1>1, NoMoreDeal
<1> QED BY <1>1, <1>2 DEF GoesOn, Rebuilds, DealtAs

(* A trick taken, without a DEAL after it.                                  *)
LEMMA TakenTold ==
  ASSUME NEW q \in Seq(Message), NEW r \in Seq(Message), NEW fd, NoDealIn(r, fd),
         NEW w, w = q \o r, NEW held, NEW hand
  PROVE  /\ Rebuilds(q, fd, held) => Rebuilds(w, fd, held \ TakenIn(r, fd))
         /\ DealtAs(q, fd, hand) => DealtAs(w, fd, hand)
<1>1. GoesOn(w, q, r, fd)
  BY NoMoreDeal
<1> QED BY <1>1 DEF GoesOn, Rebuilds, DealtAs

(* A DEAL, and the TAKENs after it.                                         *)
LEMMA DealTold ==
  ASSUME NEW q \in Seq(Message), NEW r \in Seq(Message), NEW fd, NEW k, LastDeal(r, k, fd),
         NEW w, w = q \o r
  PROVE  /\ Rebuilds(w, fd, r[k].content.hand \ TakenAfter(r, k))
         /\ DealtAs(w, fd, r[k].content.hand)
<1>1. BeginsAnew(w, r, k, fd)
  BY OneMoreDeal
<1> QED BY <1>1 DEF BeginsAnew, Rebuilds, DealtAs

(* A step that leaves the table alone and tells no player of cards.         *)
LEMMA MoreTold ==
  ASSUME AllRebuilt, UNCHANGED tableVars, Players' \subseteq Players, Candidates' \subseteq Candidates,
         \A fd \in Players' : playerMap'[fd] = playerMap[fd],
         Out \in Seq(Message), NEW r \in Seq(Message), Out' = Out \o r,
         \A k \in DOMAIN r :
            /\ r[k].fd \notin Candidates'
            /\ r[k].fd \in Players' => r[k].content.type \notin {"DEAL", "TAKEN"}
  PROVE  AllRebuilt'
<1>1. PICK q \in Seq(Message), p \in {Out'} : q = Out /\ p = Out' /\ p = q \o r
  OBVIOUS
<1>2. NoneWaiting'
  <2>1. ASSUME NEW i \in DOMAIN p PROVE p[i].fd \notin Candidates'
    <3>1. (i \in DOMAIN q /\ p[i] = q[i]) \/ \E k \in DOMAIN r : p[i] = r[k]
      BY <1>1, <2>1, ConcatFrom
    <3> QED BY <1>1, <3>1 DEF AllRebuilt, NoneWaiting
  <2> QED BY <1>1, <2>1 DEF NoneWaiting, Out
<1>3. ASSUME NEW fd \in Players' PROVE RebuiltAt(fd)'
  <2>1. PICK s, held, hand : s = playerMap[fd] /\ held = hands[s] \cup InPlay(s)
                             /\ hand = Head(deals).hands[s]
    OBVIOUS
  <2>2. RebuiltAt(fd) /\ s = playerMap'[fd]
    BY <2>1 DEF AllRebuilt
  <2>3. Rebuilds(p, fd, held) /\ (TrickOngoing => DealtAs(p, fd, hand))
    <3>1. Rebuilds(q, fd, held) /\ (TrickOngoing => DealtAs(q, fd, hand))
      BY <1>1, <2>1, <2>2 DEF RebuiltAt
    <3>2. \A k \in DOMAIN r : r[k].fd = fd => r[k].content.type \notin {"DEAL", "TAKEN"}
      OBVIOUS
    <3>3. p = q \o r
      BY <1>1
    <3> QED BY ONLY <3>1, <3>2, <3>3, QuietlyTold, q \in Seq(Message), r \in Seq(Message)
  <2>4. held = (hands[s] \cup InPlay(s))' /\ (TrickOngoing' <=> TrickOngoing) /\ deals' = deals
    BY <2>1 DEF tableVars, gameVars, InPlay, TrickOngoing, CardsOf
  <2> QED BY <1>1, <2>1, <2>2, <2>3, <2>4, RebuiltThen
<1> QED BY <1>2, <1>3 DEF AllRebuilt

(* A step that says nothing, and leaves the table alone.                    *)
LEMMA ToldNothing ==
  ASSUME AllRebuilt, UNCHANGED tableVars, Out \in Seq(Message), Out' = Out,
         Players' \subseteq Players, Candidates' \subseteq Candidates,
         \A fd \in Players' : playerMap'[fd] = playerMap[fd]
  PROVE  AllRebuilt'
<1>1. PICK r \in Seq(Message) : r = <<>>
  <2>1. <<>> \in Seq(Message)
    OBVIOUS
  <2> QED BY <2>1
<1>2. Out' = Out \o r
  BY <1>1
<1>3. \A k \in DOMAIN r : /\ r[k].fd \notin Candidates'
                          /\ r[k].fd \in Players' => r[k].content.type \notin {"DEAL", "TAKEN"}
  BY <1>1
<1> QED BY <1>2, <1>3, MoreTold

(* Whoever is told to play has a seat.                                      *)
LEMMA NoneStillWaits ==
  ASSUME NoneWaiting, Out \in Seq(Message), NEW r \in Seq(Message), Out' = Out \o r,
         Candidates' \subseteq Candidates, \A k \in DOMAIN r : r[k].fd \notin Candidates'
  PROVE  NoneWaiting'
<1>1. PICK q \in Seq(Message), p \in {Out'} : q = Out /\ p = Out' /\ p = q \o r
  OBVIOUS
<1>2. ASSUME NEW i \in DOMAIN p PROVE p[i].fd \notin Candidates'
  <2>1. (i \in DOMAIN q /\ p[i] = q[i]) \/ \E k \in DOMAIN r : p[i] = r[k]
    BY <1>1, <1>2, ConcatFrom
  <2> QED BY <1>1, <2>1 DEF NoneWaiting
<1> QED BY <1>1, <1>2 DEF NoneWaiting, Out

(* What a player of a running deal is told when it takes its seat.          *)
LEMMA RecapTold ==
  ASSUME TableInv, TrickOngoing, NEW s \in Seats, NEW fd, NEW r, r = AllTo(fd, Recap(s))
  PROVE  /\ LastDeal(r, 1, fd) /\ r[1].content.hand = Head(deals).hands[s]
         /\ TakenAfter(r, 1) = TakenCards
<1> DEFINE dealt == MsgDeal(Head(deals), s)
           told  == [k \in DOMAIN tricks |-> MsgTaken(tricks, k)]
<1>1. PICK n \in Nat, ts \in Seq(TrickRecord) : ts = tricks /\ n = Len(ts) /\ DOMAIN ts = 1 .. n
  BY DEF TableInv, TableTypeOK
<1>2. /\ Recap(s) = <<dealt>> \o told
      /\ dealt.type = "DEAL" /\ dealt.hand = Head(deals).hands[s]
      /\ \A k \in 1 .. n : told[k].type = "TAKEN" /\ told[k].cards = tricks[k].cards
  BY <1>1 DEF Recap, MsgDeal, MsgTaken
<1>3. DOMAIN told = 1 .. n
  BY <1>1
<1> HIDE DEF dealt, told
<1>4. PICK out : out = Recap(s) /\ DOMAIN out = 1 .. n + 1 /\ Len(out) = n + 1
                 /\ out[1] = dealt /\ \A k \in 1 .. n : out[k + 1] = told[k]
  <2>1. told \in Seq({told[k] : k \in 1 .. n}) /\ Len(told) = n
    <3>1. told = [k \in 1 .. n |-> told[k]]
      BY <1>1 DEF told
    <3> QED BY <1>3, <3>1
  <2>2. /\ DOMAIN (<<dealt>> \o told) = 1 .. n + 1 /\ Len(<<dealt>> \o told) = n + 1
        /\ (<<dealt>> \o told)[1] = dealt
        /\ \A k \in 1 .. n : (<<dealt>> \o told)[k + 1] = told[k]
    BY <2>1
  <2> QED BY <1>2, <2>2
<1>5. /\ DOMAIN r = 1 .. n + 1 /\ Len(r) = n + 1
      /\ \A k \in 1 .. n + 1 : r[k].fd = fd /\ r[k].content = out[k]
  <2>1. r = [k \in 1 .. n + 1 |-> To(fd, out[k])]
    BY <1>4 DEF AllTo
  <2>2. n + 1 \in Nat
    OBVIOUS
  <2> QED BY <2>1, <2>2 DEF To
<1>6. \A j \in 2 .. n + 1 : /\ j - 1 \in 1 .. n /\ r[j].content = told[j - 1]
                            /\ r[j].content.type = "TAKEN"
                            /\ r[j].content.cards = tricks[j - 1].cards
  <2> SUFFICES ASSUME NEW j \in 2 .. n + 1
               PROVE  /\ j - 1 \in 1 .. n /\ r[j].content = told[j - 1]
                      /\ r[j].content.type = "TAKEN"
                      /\ r[j].content.cards = tricks[j - 1].cards
    OBVIOUS
  <2>1. PICK k \in 1 .. n : k = j - 1 /\ j = k + 1
    <3>1. j - 1 \in 1 .. n
      OBVIOUS
    <3> QED BY <3>1
  <2>2. out[j] = told[k] /\ j \in 1 .. n + 1
    BY <1>4, <2>1
  <2>3. r[j].content = told[k]
    BY <1>5, <2>2
  <2> QED BY <1>2, <2>1, <2>3
<1>7. LaterTo(r, 1, "DEAL") = {} /\ LaterTo(r, 1, "TAKEN") = 2 .. n + 1
  BY <1>5, <1>6 DEF LaterTo
<1>8. LastDeal(r, 1, fd) /\ r[1].content.hand = Head(deals).hands[s]
  BY <1>2, <1>4, <1>5, <1>7 DEF LastDeal
<1>9. TakenAfter(r, 1) = TakenCards
  <2>1. ASSUME NEW x \in TakenAfter(r, 1) PROVE x \in TakenCards
    <3>1. PICK j \in 2 .. n + 1 : x \in CardsOf(r[j].content.cards)
      BY <1>7, <2>1 DEF TakenAfter
    <3> QED BY <1>1, <1>6, <3>1 DEF TakenCards
  <2>2. ASSUME NEW x \in TakenCards PROVE x \in TakenAfter(r, 1)
    <3>1. PICK k \in 1 .. n : x \in CardsOf(tricks[k].cards)
      BY <1>1, <2>2 DEF TakenCards
    <3>2. PICK j \in 2 .. n + 1 : j - 1 = k
      <4>1. k + 1 \in 2 .. n + 1 /\ (k + 1) - 1 = k
        OBVIOUS
      <4> QED BY <4>1
    <3> QED BY <1>6, <1>7, <3>1, <3>2 DEF TakenAfter
  <2> QED BY <2>1, <2>2
<1> QED BY <1>8, <1>9

(* A new player is told all of the deal, the others nothing.                *)
LEMMA PromoteRebuilds ==
  ASSUME TableInv, Apart, Seated, AllRebuilt, Out \in Seq(Message), UNCHANGED tableVars,
         NEW msg \in Message, Known(msg.fd), PromoteToPlayer(msg), updateData \in Updates
  PROVE  AllRebuilt'
<1> DEFINE fd == msg.fd
           seat == msg.content.seat
           left == CandidatesWithout(<<fd>>)
<1>1. fd \in Candidates /\ fd \notin Players /\ fd \in Fds /\ seat \in Seats
  <2>1. fd \in Fds /\ msg.content \in ClientMessages \cup ServerMessages
    BY DEF Message
  <2>2. fd \in Candidates /\ fd \notin Players /\ msg.content.type = "IAM"
    BY DEF PromoteToPlayer, Known
  <2> QED BY <2>1, <2>2, IamHasSeat
<1>2. /\ candidateMap' = left.map
      /\ playerMap' = [f \in Players \cup {fd} |-> IF f = fd THEN seat ELSE playerMap[f]]
      /\ updateData' = Send(updateData, AllTo(fd, Recap(seat)))
  BY DEF PromoteToPlayer, CandidatesAre
<1>3. Removes(Candidacy, left, {fd})
  <2>1. <<fd>> \in Seq(Fds) /\ ToSet(<<fd>>) = {fd} /\ Candidacy \in Tables
    BY <1>1 DEF ToSet, Seated
  <2> HIDE DEF fd
  <2> QED BY <2>1, PopMany
<1> HIDE DEF fd, seat, left
<1>4. Candidates' = Candidates \ {fd} /\ Players' = Players \cup {fd}
  BY <1>2, <1>3 DEF Removes, Candidates, Candidacy, Players
<1>5. PICK q \in Seq(Message), r \in Seq(Message), p \in {Out'} :
         q = Out /\ r = AllTo(fd, Recap(seat)) /\ p = Out' /\ p = q \o r
  <2>1. AllTo(fd, Recap(seat)) \in Seq(Message)
    <3>1. AllTo(fd, Recap(seat)) \in Seq(MessagesTo(Fds))
      BY <1>1, RecapIsMessages, ListAddressed
    <3> QED BY <3>1, AddressedTo
  <2>2. Out' = Out \o AllTo(fd, Recap(seat))
    BY <1>2 DEF Out, Send, Updates
  <2> QED BY <2>1, <2>2
<1>6. \A k \in DOMAIN r : r[k].fd = fd
  BY <1>5 DEF AllTo, To
<1>7. NoneWaiting'
  BY <1>4, <1>5, <1>6, NoneStillWaits DEF AllRebuilt
<1>8. (TrickOngoing' <=> TrickOngoing) /\ deals' = deals
  BY DEF tableVars, gameVars, TrickOngoing
<1>9. ASSUME NEW f \in Players PROVE RebuiltAt(f)'
  <2>1. PICK s, held, hand : s = playerMap[f] /\ held = hands[s] \cup InPlay(s)
                             /\ hand = Head(deals).hands[s]
    OBVIOUS
  <2>2. s = playerMap'[f] /\ f # fd
    BY <1>1, <1>2, <2>1
  <2>3. Rebuilds(p, f, held) /\ (TrickOngoing => DealtAs(p, f, hand))
    <3>1. Rebuilds(q, f, held) /\ (TrickOngoing => DealtAs(q, f, hand))
      BY <1>5, <2>1 DEF AllRebuilt, RebuiltAt
    <3>2. \A k \in DOMAIN r : r[k].fd = f => r[k].content.type \notin {"DEAL", "TAKEN"}
      BY <1>6, <2>2
    <3>3. p = q \o r
      BY <1>5
    <3> QED BY ONLY <3>1, <3>2, <3>3, QuietlyTold, q \in Seq(Message), r \in Seq(Message)
  <2>4. held = (hands[s] \cup InPlay(s))'
    BY <2>1 DEF tableVars, gameVars, InPlay, TrickOngoing, CardsOf
  <2> QED BY <1>5, <1>8, <2>1, <2>2, <2>3, <2>4, RebuiltThen
<1>10. RebuiltAt(fd)'
  <2>1. PICK held, hand : held = hands[seat] \cup InPlay(seat) /\ hand = Head(deals).hands[seat]
    OBVIOUS
  <2>2. playerMap'[fd] = seat
    BY <1>2
  <2>3. Rebuilds(p, fd, held) /\ (TrickOngoing => DealtAs(p, fd, hand))
    <3>1. CASE ~TrickOngoing
      <4>1. p = q
        <5>1. r = <<>>
          BY <1>5, <3>1 DEF Recap, AllTo
        <5> QED BY <1>5, <5>1
      <4>2. \A i \in DOMAIN q : q[i].fd # fd
        BY <1>1, <1>5 DEF AllRebuilt, NoneWaiting
      <4> QED BY <3>1, <4>1, <4>2 DEF Rebuilds, LastDeal
    <3>2. CASE TrickOngoing
      <4>1. /\ LastDeal(r, 1, fd) /\ r[1].content.hand = hand
            /\ TakenAfter(r, 1) = TakenCards
        BY <1>1, <1>5, <2>1, <3>2, RecapTold
      <4>2. held = hand \ TakenCards
        BY <1>1, <2>1, <3>2, HeldBackAll DEF AllHeldBack, HeldBack
      <4>3. p = q \o r
        BY <1>5
      <4> QED BY <4>1, <4>2, <4>3, DealTold
    <3> QED BY <3>1, <3>2
  <2>4. held = (hands[seat] \cup InPlay(seat))'
    BY <2>1 DEF tableVars, gameVars, InPlay, TrickOngoing, CardsOf, seat
  <2> QED BY <1>5, <1>8, <2>1, <2>2, <2>3, <2>4, RebuiltThen
<1> QED BY <1>4, <1>7, <1>9, <1>10 DEF AllRebuilt

(* A DEAL to every seat: each player gets its hand.                         *)
LEMMA DealtToAll ==
  ASSUME Seated, FullTable, NEW d \in DealConfig, NEW q \in Seq(Message),
         NEW r \in Seq(Message), r = DealMsgs(d), NEW fd \in Players, NEW w, w = q \o r
  PROVE  /\ Rebuilds(w, fd, d.hands[playerMap[fd]])
         /\ DealtAs(w, fd, d.hands[playerMap[fd]])
<1>1. PICK s \in Seats : s = playerMap[fd] /\ seatFd[s] = fd
  BY DEF Seated, SeatsConsistent
<1>2. /\ DOMAIN r = 1 .. NSeats
      /\ \A k \in 1 .. NSeats : /\ r[k].fd = seatFd[k - 1] /\ r[k].content.type = "DEAL"
                                /\ r[k].content.hand = d.hands[k - 1]
  BY DEF DealMsgs, SeatOrder, To, MsgDeal
<1>3. PICK k \in 1 .. NSeats : k - 1 = s
  <2>1. s + 1 \in 1 .. NSeats /\ (s + 1) - 1 = s
    BY NSeatsAssumption DEF Seats
  <2> QED BY <2>1
<1>4. \A j \in 1 .. NSeats : r[j].fd = fd => j = k
  <2> SUFFICES ASSUME NEW j \in 1 .. NSeats, r[j].fd = fd PROVE j = k
    OBVIOUS
  <2>1. j - 1 \in Seats /\ seatFd[j - 1] = fd
    BY <1>2, NSeatsAssumption DEF Seats
  <2>2. j - 1 = s
    BY <1>1, <2>1, FullTableSeats
  <2> QED BY <1>3, <2>2, NSeatsAssumption
<1>5. LastDeal(r, k, fd) /\ r[k].content.hand = d.hands[s]
  <2>1. Len(r) = NSeats
    BY <1>2, NSeatsAssumption
  <2>2. LaterTo(r, k, "DEAL") = {}
    BY <1>1, <1>2, <1>3, <1>4, <2>1, NSeatsAssumption DEF LaterTo
  <2> QED BY <1>1, <1>2, <1>3, <2>2 DEF LastDeal
<1>6. TakenAfter(r, k) = {}
  <2>1. Len(r) = NSeats
    BY <1>2, NSeatsAssumption
  <2>2. LaterTo(r, k, "TAKEN") = {}
    BY <1>2, <2>1, NSeatsAssumption DEF LaterTo
  <2> QED BY <2>2 DEF TakenAfter
<1>7. PICK hand : hand = r[k].content.hand \ TakenAfter(r, k) /\ hand = r[k].content.hand
  BY <1>5, <1>6
<1>8. Rebuilds(w, fd, hand) /\ DealtAs(w, fd, hand)
  <2>1. LastDeal(r, k, fd)
    BY <1>5
  <2>2. /\ Rebuilds(w, fd, r[k].content.hand \ TakenAfter(r, k))
        /\ DealtAs(w, fd, r[k].content.hand)
    BY ONLY <2>1, DealTold, q \in Seq(Message), r \in Seq(Message), w = q \o r
  <2> QED BY ONLY <1>7, <2>2
<1>9. hand = d.hands[playerMap[fd]]
  BY <1>1, <1>5, <1>7
<1> QED BY <1>8, <1>9

(* A trick told to every seat: each player takes its cards off its hand.    *)
LEMMA TakenByAll ==
  ASSUME TableInv, TrickOngoing, Seated, FullTable, NEW card \in Card,
         NEW taken, taken = MsgTaken(Append(tricks, RecordOf(WithCard(card))),
                                     WithCard(card).number),
         NEW r, r = ToSeats(taken), NEW fd \in Players
  PROVE  NoDealIn(r, fd) /\ TakenIn(r, fd) = CardsOf(trick.cards) \cup {card}
<1>1. PICK s \in Seats : s = playerMap[fd] /\ seatFd[s] = fd
  BY DEF Seated, SeatsConsistent
<1>2. /\ DOMAIN r = 1 .. NSeats
      /\ \A k \in 1 .. NSeats : r[k].fd = seatFd[k - 1] /\ r[k].content = taken
  BY DEF ToSeats, SeatOrder, To
<1>3. taken.type = "TAKEN" /\ CardsOf(taken.cards) = CardsOf(trick.cards) \cup {card}
  <2>1. taken.type = "TAKEN" /\ ToSet(taken.cards) = CardsOf(trick.cards) \cup {card}
    BY TakenSays
  <2> QED BY <2>1 DEF ToSet, CardsOf
<1>4. PICK k \in 1 .. NSeats : k - 1 = s
  <2>1. s + 1 \in 1 .. NSeats /\ (s + 1) - 1 = s
    BY NSeatsAssumption DEF Seats
  <2> QED BY <2>1
<1>5. k \in DOMAIN r /\ r[k].fd = fd
  BY <1>1, <1>2, <1>4
<1> HIDE DEF TakenIn
<1>6. NoDealIn(r, fd)
  BY <1>2, <1>3 DEF NoDealIn
<1>7. TakenIn(r, fd) = CardsOf(taken.cards)
  BY <1>2, <1>3, <1>5 DEF TakenIn
<1> QED BY <1>3, <1>6, <1>7

(* Messages to players are not to those who wait.                           *)
LEMMA ToldPlayers ==
  ASSUME NoneWaiting, Seated, UNCHANGED seating, Out \in Seq(Message),
         NEW r \in Seq(MessagesTo(Players)), Out' = Out \o r
  PROVE  NoneWaiting' /\ r \in Seq(Message) /\ Players' = Players
         /\ \A fd \in Players : playerMap'[fd] = playerMap[fd]
<1>1. r \in Seq(Message) /\ \A k \in DOMAIN r : r[k].fd \in Players
  BY AddressedTo
<1>2. Candidates' = Candidates /\ Players' = Players /\ playerMap' = playerMap
  BY DEF seating, candidacy, Candidates, Players
<1>3. \A k \in DOMAIN r : r[k].fd \notin Candidates'
  BY <1>1, <1>2 DEF Seated, SeatsConsistent
<1> QED BY <1>1, <1>2, <1>3, NoneStillWaits

(* The game begins: every player gets its DEAL, one its first TRICK.        *)
LEMMA NewDealRebuilds ==
  ASSUME TableInv, Seated, Exchanged, AllRebuilt, NewDealAndTrick
  PROVE  AllRebuilt' \/ ~Between'
<1>1. /\ pc = "dispatch" /\ FullTable /\ ~TrickOngoing
      /\ \A s \in Seats : seatFd[s] # NoFd /\ seatFd[s] \in Players
  BY FullTableSeats DEF NewDealAndTrick, Started
<1> DEFINE d == Head(deals)
           last == <<To(seatFd[d.first], MsgTrick(trick'))>>
<1>2. /\ StartGame /\ UNCHANGED seating
      /\ updateData' = Send(updateData, DealMsgs(d) \o last)
  BY <1>1 DEF NewDealAndTrick
<1>3. d \in DealConfig /\ d.first \in Seats
  <2>1. deals # <<>> /\ deals \in Seq(DealConfig)
    BY <1>2 DEF StartGame, TableInv, TableTypeOK
  <2>2. d \in DealConfig
    BY <2>1
  <2> QED BY <2>2 DEF DealConfig
<1>4. /\ trick' = FirstTrick(d) /\ hands' = HandsDealt(hands, d) /\ deals' = deals
      /\ trick' \in Trick /\ trick'.number # 0
  BY <1>2, <1>3, TricksAssumption DEF StartGame, Deal, FirstTrick, Trick
<1> HIDE DEF d
<1>5. /\ DealMsgs(d) \in Seq(MessagesTo(Players))
      /\ last \in Seq(MessagesTo(Players))
  <2>1. DealMsgs(d) \in Seq(MessagesTo(Players))
    BY <1>1, <1>3, DealMsgsAddressed
  <2>2. To(seatFd[d.first], MsgTrick(trick')) \in MessagesTo(Players)
    BY <1>1, <1>3, <1>4, TrickIsMessage, ToIsMessage DEF Seated
  <2> QED BY <2>1, <2>2
<1>6. updateData \in Updates /\ Out \in Seq(Message)
  BY DEF Exchanged, Updates, Out
<1>7. last = <<last[1]>> /\ DOMAIN last = {1} /\ last[1].content.type = "TRICK"
  BY DEF To, MsgTrick
<1> HIDE DEF last
<1>8. PICK q \in Seq(Message), r \in Seq(MessagesTo(Players)), t \in Seq(MessagesTo(Players)),
           m \in Seq(MessagesTo(Players)), w \in Seq(Message), p \in {Out'} :
         /\ q = Out /\ r = DealMsgs(d) /\ t = last /\ m = r \o t /\ p = Out' /\ p = q \o m
         /\ w = q \o r /\ p = w \o t
  <2>1. PICK q \in Seq(Message), r \in Seq(MessagesTo(Players)), t \in Seq(MessagesTo(Players)) :
           q = Out /\ r = DealMsgs(d) /\ t = last
    BY <1>5, <1>6
  <2>2. r \in Seq(Message) /\ t \in Seq(Message)
    BY AddressedTo
  <2>3. r \o t \in Seq(MessagesTo(Players)) /\ q \o r \in Seq(Message)
    BY <2>2
  <2>4. q \o (r \o t) = (q \o r) \o t
    BY <2>2, Regroup
  <2>5. Out' = q \o (r \o t)
    BY <1>2, <1>6, <2>1 DEF Out, Send, Updates
  <2>6. PICK m \in Seq(MessagesTo(Players)), w \in Seq(Message), p \in {Out'} :
           m = r \o t /\ w = q \o r /\ p = q \o m /\ p = w \o t /\ p = Out'
    BY <2>3, <2>4, <2>5
  <2> QED BY <2>1, <2>6
<1>9. NoneWaiting' /\ Players' = Players
      /\ \A fd \in Players : playerMap'[fd] = playerMap[fd]
  BY <1>2, <1>6, <1>8, ToldPlayers DEF AllRebuilt
<1>10. r \in Seq(Message) /\ t \in Seq(Message)
  BY <1>8, AddressedTo
<1>11. ASSUME NEW fd \in Players PROVE RebuiltAt(fd)'
  <2>1. PICK s \in Seats : s = playerMap[fd]
    BY DEF Seated
  <2>2. PICK hand : hand = d.hands[s]
    OBVIOUS
  <2>3. Rebuilds(w, fd, hand) /\ DealtAs(w, fd, hand)
    BY <1>1, <1>3, <1>8, <1>10, <2>1, <2>2, DealtToAll
  <2>4. Rebuilds(p, fd, hand) /\ DealtAs(p, fd, hand)
    <3>1. \A k \in DOMAIN t : t[k].content.type \notin {"DEAL", "TAKEN"}
      BY <1>7, <1>8
    <3> QED BY <1>8, <1>10, <2>3, <3>1, QuietlyTold
  <2>5. hand = (hands[s] \cup InPlay(s))'
    <3>1. hands[s] = {}
      BY <1>1 DEF TableInv, HandSizes
    <3>2. hands'[s] = hand
      BY <1>4, <2>2, <3>1 DEF HandsDealt
    <3>3. InPlay(s)' = {}
      <4>1. trick'.cards = <<>>
        BY <1>4 DEF FirstTrick
      <4> QED BY <4>1 DEF InPlay, CardsOf
    <3> QED BY <3>2, <3>3
  <2>6. s = playerMap'[fd] /\ p = Out' /\ hand = Head(deals').hands[s]
    BY <1>4, <1>8, <1>9, <2>1, <2>2 DEF d
  <2> QED BY <2>4, <2>5, <2>6, RebuiltThen
<1> QED BY <1>9, <1>11 DEF AllRebuilt

(* SCORE and TOTAL say nothing of cards.                                    *)
LEMMA PointsSay ==
  ASSUME NEW points, NEW totals, NEW r, r = PointsMsgs(points, totals), NEW k \in DOMAIN r
  PROVE  r[k].content.type \notin {"DEAL", "TAKEN"}
BY DEF PointsMsgs, To, MsgPoints

(* A card: nothing is said, or the trick is, or the end of the deal and the *)
(* next one.                                                                *)
LEMMA CardRebuilds ==
  ASSUME TableInv, Apart, Seated, Exchanged, AllRebuilt, Between, NEW msg, AcceptCard(msg)
  PROVE  AllRebuilt'
<1> DEFINE card  == msg.content.cards[1]
           taken == MsgTaken(Append(tricks, RecordOf(WithCard(card))), WithCard(card).number)
           gone  == CardsOf(trick.cards) \cup {card}
<1>1. /\ FullTable /\ MoveAccepted(playerMap[msg.fd], msg.content) /\ PlayCard(card)
      /\ updateData' = Send(updateData, NewsOf(card)) /\ UNCHANGED seating
  BY DEF AcceptCard
<1>2. TrickOngoing /\ card \in Card /\ IsMoveLegal(trick.turn, card)
  <2>1. IsMoveLegal(trick.turn, card)
    BY <1>1 DEF MoveAccepted
  <2>2. trick.turn \in Seats /\ card \in hands[trick.turn] /\ TrickOngoing
    BY <2>1 DEF IsMoveLegal, TableInv, TableTypeOK, Trick
  <2> QED BY <2>1, <2>2 DEF TableInv, TableTypeOK
<1> HIDE DEF card
<1>3. NewsOf(card) \in Seq(MessagesTo(Players))
  BY <1>1, <1>2, NewsAddressed
<1>4. PICK q \in Seq(Message), news \in Seq(Message), p \in {Out'} :
         q = Out /\ news = NewsOf(card) /\ p = Out' /\ p = q \o news
  <2>1. updateData \in Updates /\ Out \in Seq(Message)
    BY DEF Exchanged, Updates, Out
  <2>2. NewsOf(card) \in Seq(Message)
    BY <1>3, AddressedTo
  <2>3. Out' = Out \o NewsOf(card)
    BY <1>1, <2>1 DEF Out, Send, Updates
  <2> QED BY <2>1, <2>2, <2>3
<1>5. NoneWaiting' /\ Players' = Players
      /\ \A fd \in Players : playerMap'[fd] = playerMap[fd]
  BY <1>1, <1>3, <1>4, ToldPlayers DEF AllRebuilt
<1>6. PICK r \in Seq(Message) : r = ToSeats(taken)
  <2>1. taken \in ServerMessages
    BY <1>2, TakenSays
  <2> HIDE DEF taken
  <2>2. ToSeats(taken) \in Seq(Message)
    BY <1>1, <2>1, ToSeatsAddressed, AddressedTo
  <2> QED BY <2>2
<1>7. \A fd \in Players : NoDealIn(r, fd) /\ TakenIn(r, fd) = gone
  BY <1>1, <1>2, <1>6, TakenByAll
<1> HIDE DEF taken, gone
<1>8. ASSUME NEW fd \in Players PROVE RebuiltAt(fd)'
  <2>1. PICK s, held, hand :
           s \in Seats /\ s = playerMap[fd] /\ held = hands[s] \cup InPlay(s) /\ hand = Head(deals).hands[s]
    BY DEF Seated
  <2>2. Rebuilds(q, fd, held) /\ DealtAs(q, fd, hand) /\ p = Out' /\ s = playerMap'[fd]
    BY <1>2, <1>4, <1>5, <2>1 DEF AllRebuilt, RebuiltAt
  <2>3. CASE ContinueTrick(card)
    <3>1. news = <<>> /\ p = q
      BY <1>4, <2>3 DEF ContinueTrick, NewsOf
    <3>2. held = (hands[s] \cup InPlay(s))'
      BY <1>1, <1>2, <2>1, <2>3, HeldAfterCard
    <3>3. hand = Head(deals').hands[s]
      BY <2>1, <2>3 DEF ContinueTrick
    <3> QED BY <2>2, <3>1, <3>2, <3>3, RebuiltThen
  <2>4. CASE FinishTrick(card)
    <3>1. p = q \o r
      BY <1>4, <1>6, <2>4 DEF FinishTrick, NewsOf, taken
    <3>2. PICK left : left = held \ gone
      OBVIOUS
    <3>3. left = (hands[s] \cup InPlay(s))'
      BY <1>1, <1>2, <2>1, <2>4, <3>2, HeldAfterCard DEF gone
    <3>4. hand = Head(deals').hands[s]
      BY <2>1, <2>4 DEF FinishTrick
    <3>5. Rebuilds(p, fd, left) /\ DealtAs(p, fd, hand)
      <4>1. NoDealIn(r, fd) /\ left = held \ TakenIn(r, fd)
        BY <1>7, <3>2
      <4> QED BY <2>2, <3>1, <4>1, TakenTold
    <3> QED BY <2>2, <3>3, <3>4, <3>5, RebuiltThen
  <2>5. CASE FinishDeal(card)
    <3>1. /\ held \subseteq gone
          /\ (hands[s] \cup InPlay(s))' = IF Tail(deals) = <<>> THEN {} ELSE Head(Tail(deals)).hands[s]
      BY <1>1, <1>2, <2>1, <2>5, HeldAfterCard DEF gone
    <3>2. PICK t \in Seq(Message) : t = PointsMsgs(AddPoints(score, WithCard(card)),
                                                   AddPoints(total, WithCard(card)))
      <4>1. AddPoints(score, WithCard(card)) \in [Seats -> Nat]
            /\ AddPoints(total, WithCard(card)) \in [Seats -> Nat]
        BY <1>2, WithCardType, AddPointsType DEF TableInv, TableTypeOK
      <4>2. PointsMsgs(AddPoints(score, WithCard(card)), AddPoints(total, WithCard(card)))
               \in Seq(Message)
        BY <1>1, <4>1, PointsMsgsAddressed, AddressedTo
      <4> QED BY <4>2
    <3>3. \A k \in DOMAIN t : t[k].content.type \notin {"DEAL", "TAKEN"}
      BY <3>2, PointsSay
    <3>4. CompletesTrick(card) /\ CompletesDeal(card) /\ deals' = Tail(deals)
      BY <2>5 DEF FinishDeal, CompletesDeal
    <3>5. news = r \o (t \o IF Tail(deals) = <<>> THEN <<>> ELSE DealMsgs(Head(Tail(deals))))
      BY <1>4, <1>6, <3>2, <3>4 DEF NewsOf, taken
    <3>6. PICK v \in Seq(Message), w \in Seq(Message) : v = q \o r /\ w = v \o t
      <4>1. q \o r \in Seq(Message)
        OBVIOUS
      <4>2. PICK v \in Seq(Message) : v = q \o r
        BY <4>1
      <4>3. v \o t \in Seq(Message)
        OBVIOUS
      <4> QED BY <4>2, <4>3
    <3>7. CASE Tail(deals) = <<>>
      <4>1. p = w
        <5>1. news = r \o t
          BY <3>5, <3>7
        <5> QED BY <1>4, <3>6, <5>1, Regroup
      <4>2. PICK none : none = {} /\ none = held \ TakenIn(r, fd)
        BY <1>7, <3>1
      <4>3. Rebuilds(w, fd, none)
        <5>1. NoDealIn(r, fd) /\ Rebuilds(q, fd, held) /\ v = q \o r
          BY <1>7, <2>2, <3>6
        <5>2. Rebuilds(v, fd, held \ TakenIn(r, fd))
          BY <5>1, TakenTold
        <5>3. Rebuilds(v, fd, none)
          BY ONLY <4>2, <5>2
        <5> QED BY <3>3, <3>6, <5>3, QuietlyTold
      <4>4. none = (hands[s] \cup InPlay(s))' /\ ~TrickOngoing'
        BY <2>5, <3>1, <3>4, <3>7, <4>2 DEF FinishDeal, NoTrick, TrickOngoing
      <4> QED BY <2>2, <4>1, <4>3, <4>4, RebuiltThen
    <3>8. CASE Tail(deals) # <<>>
      <4>1. PICK d \in DealConfig : d = Head(Tail(deals))
        <5>1. deals \in Seq(DealConfig) /\ deals # <<>>
          BY <1>2 DEF TableInv, TableTypeOK, DealInProgress
        <5>2. Head(Tail(deals)) \in DealConfig
          BY <3>8, <5>1
        <5> QED BY <5>2
      <4>2. PICK m \in Seq(Message) : m = DealMsgs(d)
        <5>1. DealMsgs(d) \in Seq(Message)
          BY <1>1, DealMsgsAddressed, AddressedTo
        <5> QED BY <5>1
      <4>3. p = w \o m
        <5>1. news = r \o (t \o m)
          BY <3>5, <3>8, <4>1, <4>2
        <5>2. OneByOne(q, r, t, m)
          BY RegroupAll
        <5> QED BY <1>4, <3>6, <5>1, <5>2 DEF OneByOne
      <4>4. PICK new : new = d.hands[s]
        OBVIOUS
      <4>5. Rebuilds(p, fd, new) /\ DealtAs(p, fd, new)
        BY <1>1, <2>1, <4>2, <4>3, <4>4, DealtToAll
      <4>6. new = (hands[s] \cup InPlay(s))' /\ new = Head(deals').hands[s]
        BY <3>1, <3>4, <3>8, <4>1, <4>4
      <4> QED BY <2>2, <4>5, <4>6, RebuiltThen
    <3> QED BY <3>7, <3>8
  <2> QED BY <1>1, <2>3, <2>4, <2>5 DEF PlayCard
<1> QED BY <1>5, <1>8 DEF AllRebuilt

(* Connections are closed: the players that stay are told nothing.          *)
LEMMA ClosedRebuilds ==
  ASSUME Seated, AllRebuilt, UNCHANGED tableVars, Out \in Seq(Message),
         NEW fd \in Connected, PopConnections(<<fd>>),
         NEW r \in Seq(Message), Out' = Out \o r,
         \A k \in DOMAIN r : r[k].fd = fd /\ r[k].content.type \notin {"DEAL", "TAKEN"}
  PROVE  AllRebuilt'
<1>1. <<fd>> \in Seq(Fds) /\ ToSet(<<fd>>) = {fd}
  <2>1. fd \in Fds
    BY DEF Connected, Seated, Tables, Maps, Candidacy, Candidates
  <2> QED BY <2>1 DEF ToSet
<1>2. Candidates' = Candidates \ {fd} /\ Players' = Players \ {fd}
  BY <1>1, PopConnectionsSeated
<1>3. \A f \in Players' : playerMap'[f] = playerMap[f]
  <2>1. playerMap' = PlayersWithout(<<fd>>) /\ seatFd' = SeatsWithout(<<fd>>)
    BY DEF PopConnections
  <2> QED BY <2>1, SeatsAfterPop
<1>4. \A k \in DOMAIN r : /\ r[k].fd \notin Candidates'
                          /\ r[k].fd \in Players' => r[k].content.type \notin {"DEAL", "TAKEN"}
  BY <1>2
<1> QED BY <1>2, <1>3, <1>4, MoreTold

(* The table rests, and so do the seats; what is said is not of cards.      *)
LEMMA OtherTalkRebuilds ==
  ASSUME Seated, AllRebuilt, UNCHANGED tableVars, UNCHANGED seating, Out \in Seq(Message),
         NEW fd \in Players, NEW m, To(fd, m) \in Message, m.type \notin {"DEAL", "TAKEN"},
         updateData \in Updates, updateData' = Send(updateData, <<To(fd, m)>>)
  PROVE  AllRebuilt'
<1>1. PICK r \in Seq(Message) : r = <<To(fd, m)>>
  <2>1. <<To(fd, m)>> \in Seq(Message)
    OBVIOUS
  <2> QED BY <2>1
<1>2. Out' = Out \o r
  BY <1>1 DEF Out, Send, Updates
<1>3. Candidates' = Candidates /\ Players' = Players /\ playerMap' = playerMap
  BY DEF seating, candidacy, Candidates, Players
<1>4. \A k \in DOMAIN r : r[k].fd = fd /\ r[k].content = m
  BY <1>1 DEF To
<1>5. fd \notin Candidates
  BY DEF Seated, SeatsConsistent
<1> QED BY <1>2, <1>3, <1>4, <1>5, MoreTold

(* Nothing happens to table, seats and messages.                            *)
LEMMA StillRebuilt ==
  ASSUME AllRebuilt, UNCHANGED tableVars, UNCHANGED seating, UNCHANGED updateData,
         Out \in Seq(Message)
  PROVE  AllRebuilt'
<1>1. Candidates' = Candidates /\ Players' = Players /\ playerMap' = playerMap /\ Out' = Out
  BY DEF seating, candidacy, Candidates, Players, Out
<1> QED BY <1>1, ToldNothing

(* Messages are only on their way while the thread is between two polls.    *)
LEMMA NothingSaidYet ==
  ASSUME Apply
  PROVE  AllRebuilt' \/ ~Between'
<1>1. CASE updateData' = NoUpdate
  <2>1. Out' = <<>>
    BY <1>1 DEF Out, NoUpdate
  <2>2. PICK p : p = Out' /\ DOMAIN p = {}
    BY <2>1
  <2>3. NoneWaiting'
    BY <2>2 DEF NoneWaiting, Out
  <2>4. ASSUME NEW fd \in Players' PROVE RebuiltAt(fd)'
    <3>1. PICK s, held : s = playerMap'[fd] /\ held = (hands[s] \cup InPlay(s))'
      OBVIOUS
    <3>2. Rebuilds(p, fd, held) /\ DealtAs(p, fd, Head(deals').hands[s])
      BY <2>2 DEF Rebuilds, DealtAs
    <3> QED BY <2>2, <3>1, <3>2, RebuiltThen
  <2> QED BY <2>3, <2>4 DEF AllRebuilt
<1>2. CASE Stop("error")
  BY <1>2 DEF Stop, Between
<1> QED BY <1>1, <1>2 DEF Apply

(* One message of the batch of Update.                                      *)
LEMMA DispatchRebuilds ==
  ASSUME TableInv, Apart, Seated, Queued, Exchanged, AllRebuilt, Dispatch
  PROVE  AllRebuilt' \/ ~Between'
<1> DEFINE msg == Head(inbox)
<1>1. /\ pc = "dispatch" /\ inbox # <<>> /\ inbox \in Seq(Message) /\ msg \in Message
      /\ updateData \in Updates /\ Out \in Seq(Message) /\ updateData.msgs = Out
  BY DEF Dispatch, Queued, Exchanged, Updates, Out
<1>2. CASE ~Known(msg.fd)
  <2>1. Stop("error")
    BY <1>2 DEF Dispatch
  <2> QED BY <2>1 DEF Stop, Between
<1>3. CASE Known(msg.fd)
  <2>1. /\ \/ KeepForGame(msg) \/ RefuseSeat(msg)
           \/ PromoteToPlayer(msg) \/ CloseCandidate(msg)
        /\ UNCHANGED tableVars /\ msg.fd \in Connected /\ msg.fd \in Fds
    BY <1>1, <1>3 DEF Dispatch, Known, Connected, Message
  <2> HIDE DEF msg
  <2>2. CASE KeepForGame(msg)
    BY <1>1, <2>1, <2>2, StillRebuilt DEF KeepForGame
  <2>3. CASE RefuseSeat(msg)
    <3> DEFINE said == <<To(msg.fd, MsgBusy)>>
               data == Send(updateData, said)
    <3>1. updateData' = Close(data, msg.fd) /\ PopConnections(<<msg.fd>>)
      BY <2>3 DEF RefuseSeat
    <3>2. PICK r \in Seq(Message) : r = said
      <4>1. said \in Seq(Message)
        BY <2>1, BusyIsMessage DEF To, Message
      <4> QED BY <4>1
    <3>3. \A k \in DOMAIN r : r[k].fd = msg.fd /\ r[k].content.type \notin {"DEAL", "TAKEN"}
      BY <3>2 DEF To, MsgBusy
    <3>4. data \in Updates /\ data.msgs = Out \o r
      <4>1. Out \o r \in Seq(Message)
        BY <1>1, <3>2
      <4>2. data = [updateData EXCEPT !.msgs = Out \o r]
        BY <1>1, <3>2 DEF Send
      <4> HIDE DEF data, said
      <4> QED BY <1>1, <4>1, <4>2 DEF Updates
    <3> HIDE DEF data
    <3>5. Out' = Out \o r
      BY <2>1, <3>1, <3>4, CloseAdds DEF Out
    <3> QED BY <1>1, <2>1, <3>1, <3>3, <3>5, ClosedRebuilds
  <2>4. CASE PromoteToPlayer(msg)
    BY <1>1, <1>3, <2>1, <2>4, PromoteRebuilds DEF msg
  <2>5. CASE CloseCandidate(msg)
    <3>1. updateData' = Close(updateData, msg.fd) /\ PopConnections(<<msg.fd>>)
      BY <2>5 DEF CloseCandidate
    <3>2. PICK r \in Seq(Message) : r = <<>>
      <4>1. <<>> \in Seq(Message)
        OBVIOUS
      <4> QED BY <4>1
    <3>3. Out' = Out \o r
      BY <1>1, <2>1, <3>1, <3>2, CloseAdds DEF Out
    <3>4. \A k \in DOMAIN r : r[k].fd = msg.fd /\ r[k].content.type \notin {"DEAL", "TAKEN"}
      BY <3>2
    <3> QED BY <1>1, <2>1, <3>1, <3>3, <3>4, ClosedRebuilds
  <2> QED BY <2>1, <2>2, <2>3, <2>4, <2>5
<1> QED BY <1>2, <1>3

(* One message of a turn.                                                   *)
LEMMA HandleRebuilds ==
  ASSUME TableInv, Apart, Seated, Queued, Exchanged, AllRebuilt, Handle
  PROVE  AllRebuilt' \/ ~Between'
<1> DEFINE msg == Head(inbox)
<1>1. /\ pc = "handle" /\ inbox # <<>> /\ inbox \in Seq(Message) /\ msg \in Message
      /\ updateData \in Updates /\ Out \in Seq(Message) /\ updateData.msgs = Out /\ Between
  BY DEF Handle, Queued, Exchanged, Updates, Out, Between
<1>2. CASE FullTable /\ msg.fd \notin Players
  <2>1. Stop("crash")
    BY <1>2 DEF Handle
  <2> QED BY <2>1 DEF Stop, Between
<1>3. CASE ~ (FullTable /\ msg.fd \notin Players)
  <2>1. /\ \/ KeepForResumedGame(msg) \/ ClosePlayer(msg)
           \/ AnswerWrong(msg) \/ AcceptCard(msg)
        /\ FullTable => msg.fd \in Players
    BY <1>3 DEF Handle
  <2>2. msg.fd \in Fds
    BY <1>1 DEF Message
  <2> HIDE DEF msg
  <2>3. CASE KeepForResumedGame(msg)
    BY <1>1, <2>3, StillRebuilt DEF KeepForResumedGame
  <2>4. CASE ClosePlayer(msg)
    <3>1. /\ updateData' = Close(updateData, msg.fd) /\ PopConnections(<<msg.fd>>)
          /\ UNCHANGED tableVars /\ msg.fd \in Connected
      BY <2>1, <2>4 DEF ClosePlayer, Connected
    <3>2. PICK r \in Seq(Message) : r = <<>>
      <4>1. <<>> \in Seq(Message)
        OBVIOUS
      <4> QED BY <4>1
    <3>3. Out' = Out \o r
      BY <1>1, <2>2, <3>1, <3>2, CloseAdds DEF Out
    <3>4. \A k \in DOMAIN r : r[k].fd = msg.fd /\ r[k].content.type \notin {"DEAL", "TAKEN"}
      BY <3>2
    <3> QED BY <1>1, <3>1, <3>3, <3>4, ClosedRebuilds
  <2>5. CASE AnswerWrong(msg)
    <3>1. /\ msg.fd \in Players /\ UNCHANGED seating /\ UNCHANGED tableVars
          /\ updateData' = Send(updateData, <<To(msg.fd, MsgWrong(trick))>>)
      BY <2>1, <2>5 DEF AnswerWrong
    <3>2. To(msg.fd, MsgWrong(trick)) \in Message
      <4>1. MsgWrong(trick) \in ServerMessages
        BY TrickIsMessage DEF TableInv, TableTypeOK
      <4> QED BY <2>2, <4>1 DEF To, Message
    <3>3. MsgWrong(trick).type \notin {"DEAL", "TAKEN"}
      BY DEF MsgWrong
    <3> QED BY <1>1, <3>1, <3>2, <3>3, OtherTalkRebuilds
  <2>6. CASE AcceptCard(msg)
    BY <1>1, <2>6, CardRebuilds
  <2> QED BY <2>1, <2>3, <2>4, <2>5, <2>6
<1> QED BY <1>2, <1>3

(* The end of a turn: a TRICK, or nothing.                                  *)
LEMMA EndHandlingRebuilds ==
  ASSUME TableInv, Seated, Exchanged, AllRebuilt, EndHandling
  PROVE  AllRebuilt'
<1>1. /\ UNCHANGED tableVars /\ UNCHANGED seating
      /\ updateData \in Updates /\ Out \in Seq(Message)
  BY DEF EndHandling, Exchanged, Updates, Out
<1>2. CASE TrickIsDue
  <2> DEFINE fd == seatFd[trick.turn]
  <2>1. updateData' = Send(updateData, <<To(fd, MsgTrick(trick))>>)
    BY <1>2 DEF EndHandling
  <2>2. FullTable /\ trick \in Trick /\ trick.number # 0 /\ trick.turn \in Seats
    BY <1>2 DEF TrickIsDue, TrickOngoing, TableInv, TableTypeOK, Trick
  <2>3. fd \in Players /\ fd \in Fds
    BY <2>2, FullTableSeats DEF Seated
  <2>4. To(fd, MsgTrick(trick)) \in Message
    BY <2>2, <2>3, TrickIsMessage DEF To, Message
  <2>5. MsgTrick(trick).type \notin {"DEAL", "TAKEN"}
    BY DEF MsgTrick
  <2> HIDE DEF fd
  <2> QED BY <1>1, <2>1, <2>3, <2>4, <2>5, OtherTalkRebuilds
<1>3. CASE ~TrickIsDue
  BY <1>1, <1>3, StillRebuilt DEF EndHandling
<1> QED BY <1>2, <1>3

-----------------------------------------------------------------------------
(* What the invariant has to know for RejoinHand: that no card of the       *)
(* current trick was taken before, that none lies on the table between      *)
(* deals, and what the messages on their way amount to.                     *)
RejoinInv == ServerInv /\ Apart /\ Cleared /\ HandsRebuilt

(* No message, no card.                                                     *)
LEMMA InitRejoinInv ==
  ASSUME Init
  PROVE  RejoinInv
<1>1. ServerInv
  BY InitServerInv
<1>2. trick.cards = <<>> /\ Out = <<>> /\ Players = {}
  BY DEF Init, TableInit, GameInit, NoTrick, NoUpdate, Out, Players
<1>3. Apart /\ Cleared
  BY <1>2, NoCardApart DEF Cleared
<1>4. HandsRebuilt
  BY <1>2 DEF HandsRebuilt, AllRebuilt, NoneWaiting
<1> QED BY <1>1, <1>3, <1>4 DEF RejoinInv

(* Every step keeps it.                                                     *)
LEMMA NextRejoinInv ==
  ASSUME RejoinInv, [Next]_vars
  PROVE  RejoinInv'
<1>1. TableInv /\ Seated /\ Queued /\ Exchanged /\ Apart /\ Cleared /\ HandsRebuilt
  BY DEF RejoinInv, ServerInv
<1>2. ServerInv'
  BY NextServerInv DEF RejoinInv
<1>3. Apart' /\ Cleared'
  <2>1. [TableNext]_tableVars
    BY <1>1, StepIsTableStep DEF TableInv
  <2> QED BY <1>1, <2>1, ApartKept, ClearedKept
<1>4. AllRebuilt' \/ ~Between'
  <2>1. Out \in Seq(Message)
    BY <1>1 DEF Exchanged, Updates, Out
  <2>2. CASE PrePoll
    BY <2>2 DEF PrePoll, Stop, Between
  <2>3. CASE PollReady \/ PollTimeout
    BY <2>3 DEF PollReady, PollTimeout, PollReturns, Between
  <2>4. CASE PollFails \/ LostAfterClose \/ Closed
    BY <2>4 DEF PollFails, LostAfterClose, Closed, Stop, Between
  <2>5. CASE Apply
    BY <2>5, NothingSaidYet
  <2>6. CASE Dispatch
    <3>1. AllRebuilt
      BY <1>1, <2>6 DEF Dispatch, Between, HandsRebuilt
    <3> QED BY <1>1, <2>6, <3>1, DispatchRebuilds
  <2>7. CASE UpdateAgain
    <3>1. AllRebuilt
      BY <1>1, <2>7 DEF UpdateAgain, Between, HandsRebuilt
    <3> QED BY <2>1, <2>7, <3>1, StillRebuilt DEF UpdateAgain
  <2>8. CASE NewDealAndTrick
    <3>1. AllRebuilt
      BY <1>1, <2>8 DEF NewDealAndTrick, Between, HandsRebuilt
    <3> QED BY <1>1, <2>8, <3>1, NewDealRebuilds
  <2>9. CASE BeginHandling
    <3>1. AllRebuilt
      BY <1>1, <2>9 DEF BeginHandling, Between, HandsRebuilt
    <3>2. CASE Stop("error")
      BY <3>2 DEF Stop, Between
    <3>3. CASE UNCHANGED tableVars /\ UNCHANGED seating /\ UNCHANGED updateData
      BY <2>1, <3>1, <3>3, StillRebuilt
    <3> QED BY <2>9, <3>2, <3>3 DEF BeginHandling
  <2>10. CASE Handle
    <3>1. AllRebuilt
      BY <1>1, <2>10 DEF Handle, Between, HandsRebuilt
    <3> QED BY <1>1, <2>10, <3>1, HandleRebuilds
  <2>11. CASE EndHandling
    <3>1. AllRebuilt
      BY <1>1, <2>11 DEF EndHandling, Between, HandsRebuilt
    <3> QED BY <1>1, <2>11, <3>1, EndHandlingRebuilds
  <2>12. CASE CloseStore \/ FlushAfterClose
    BY <2>12 DEF CloseStore, FlushAfterClose, Between
  <2>13. CASE (\E fd \in Fds : TimePasses(fd)) \/ TrickTimePasses
    BY <2>13 DEF TimePasses, TrickTimePasses, Between
  <2>14. CASE Terminated \/ UNCHANGED vars
    <3>1. UNCHANGED vars
      BY <2>14 DEF Terminated
    <3>2. CASE Between
      BY <1>1, <2>1, <3>1, <3>2, StillRebuilt DEF vars, HandsRebuilt
    <3>3. CASE ~Between
      BY <3>1, <3>3 DEF vars, Between
    <3> QED BY <3>2, <3>3
  <2> QED BY <2>2, <2>3, <2>4, <2>5, <2>6, <2>7, <2>8, <2>9, <2>10, <2>11, <2>12, <2>13,
             <2>14 DEF Next, ServerStep
<1>5. HandsRebuilt'
  BY <1>4 DEF HandsRebuilt
<1> QED BY <1>2, <1>3, <1>5 DEF RejoinInv

(* Whatever a player is told in one go, however often it left and came      *)
(* back, rebuilds its hand: the cards of its last DEAL less those taken     *)
(* since are the ones it holds and the one it has on the table.             *)
THEOREM HandsRebuild == Spec => []RejoinHand
<1>1. RejoinInv => RejoinHand
  <2> SUFFICES ASSUME RejoinInv, Between, NEW i \in DOMAIN Out,
                      Out[i].content.type = "DEAL", LaterTo(Out, i, "DEAL") = {},
                      Out[i].fd \in Players
               PROVE  Out[i].content.hand \ TakenAfter(Out, i)
                        = hands[playerMap[Out[i].fd]]
                            \cup (Out[i].content.hand \cap CardsOf(trick.cards))
    BY DEF RejoinHand, LaterTo, TakenAfter
  <2>1. PICK fd, s, hand : fd \in Players /\ fd = Out[i].fd /\ s = playerMap[fd]
                               /\ hand = Out[i].content.hand
    OBVIOUS
  <2>2. LastDeal(Out, i, fd)
    BY <2>1 DEF LastDeal
  <2>3. /\ Rebuilds(Out, fd, hands[s] \cup InPlay(s))
        /\ TrickOngoing => DealtAs(Out, fd, Head(deals).hands[s])
    BY <2>1 DEF RejoinInv, HandsRebuilt, AllRebuilt, RebuiltAt
  <2>4. hand \ TakenAfter(Out, i) = hands[s] \cup InPlay(s)
    BY <2>1, <2>2, <2>3 DEF Rebuilds
  <2>5. InPlay(s) = hand \cap CardsOf(trick.cards)
    <3>1. CASE TrickOngoing
      <4>1. hand = Head(deals).hands[s]
        BY <2>1, <2>2, <2>3, <3>1 DEF DealtAs
      <4> QED BY <3>1, <4>1 DEF InPlay
    <3>2. CASE ~TrickOngoing
      <4>1. CardsOf(trick.cards) = {}
        BY <3>2 DEF RejoinInv, Cleared, CardsOf
      <4> QED BY <3>2, <4>1 DEF InPlay
    <3> QED BY <3>1, <3>2
  <2> QED BY <2>1, <2>4, <2>5
<1>2. RejoinInv /\ [Next]_vars => RejoinInv'
  BY NextRejoinInv
<1> QED BY <1>1, <1>2, InitRejoinInv, PTL DEF Spec
=============================================================================
