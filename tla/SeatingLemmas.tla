--------------------------- MODULE SeatingLemmas ----------------------------
(***************************************************************************)
(* The inductive invariant ServerInv of Server, with the connections in    *)
(* it, and what it needs to know of the operators Server is built from:    *)
(* the removal of connections, the messages, the record exchanged with the *)
(* store.  The proofs about the steps are in SeatingProofs.                *)
(***************************************************************************)
EXTENDS ServerProofs, LoopLemmas

-----------------------------------------------------------------------------
(* The candidates and the map of their indices, in step.                    *)
Entry  == [fd : Fds, overdue : BOOLEAN]
InStep(t) ==
    /\ t.map \in [DOMAIN t.map -> DOMAIN t.list]
    /\ \A i \in DOMAIN t.list :
          t.list[i].fd \in DOMAIN t.map /\ t.map[t.list[i].fd] = i
    /\ \A fd \in DOMAIN t.map : t.list[t.map[fd]].fd = fd
Maps   == UNION {[D -> Nat] : D \in SUBSET Fds}
Tables == {t \in [list : Seq(Entry), map : Maps] : InStep(t)}

Candidacy == [list |-> candidates, map |-> candidateMap]

(* What a removal of candidates must do: the others stay, each with its     *)
(* own entry.                                                               *)
Removes(t, r, gone) ==
    /\ DOMAIN r.map = DOMAIN t.map \ gone
    /\ \A fd \in DOMAIN r.map : r.list[r.map[fd]] = t.list[t.map[fd]]

(* PopConnection of one candidate, first, last or in between.               *)
LEMMA PopOne ==
  ASSUME NEW t \in Tables, NEW fd
  PROVE  /\ PopCandidate(t, fd) \in Tables
         /\ Removes(t, PopCandidate(t, fd), {fd})
<1> DEFINE r == PopCandidate(t, fd)
           n == Len(t.list)
           i == t.map[fd]
           last == t.list[n]
<1>0. /\ t.list \in Seq(Entry) /\ n \in Nat /\ DOMAIN t.list = 1 .. n
      /\ DOMAIN t.map \subseteq Fds
      /\ InStep(t)
  BY DEF Tables, Maps
<1>1. CASE fd \notin DOMAIN t.map
  BY <1>1 DEF PopCandidate, Removes
<1>2. CASE fd \in DOMAIN t.map
  <2>1. /\ i \in 1 .. n /\ n \in 1 .. n /\ t.list[i].fd = fd
        /\ last \in Entry /\ last.fd \in DOMAIN t.map /\ t.map[last.fd] = n
    <3>1. i \in 1 .. n /\ t.list[i].fd = fd
      BY <1>0, <1>2 DEF InStep
    <3>2. n \in 1 .. n
      BY <1>0, <3>1
    <3>3. last.fd \in DOMAIN t.map /\ t.map[last.fd] = n
      BY <1>0, <3>2 DEF InStep
    <3>4. last \in Entry
      BY <1>0, <3>2
    <3> QED BY <3>1, <3>2, <3>3, <3>4
  <2>2. /\ r.map = [f \in DOMAIN t.map \ {fd} |-> IF f = last.fd THEN i ELSE t.map[f]]
        /\ r.list = SubSeq([t.list EXCEPT ![i] = last], 1, n - 1)
        /\ r = [list |-> r.list, map |-> r.map]
    <3>1. Len([t.list EXCEPT ![i] = last]) = n
      BY <1>0, <2>1
    <3> QED BY <1>2, <3>1 DEF PopCandidate, MapWithout, WithLastAt, Front, Last
  <2>3. /\ r.list \in Seq(Entry) /\ Len(r.list) = n - 1 /\ DOMAIN r.list = 1 .. n - 1
        /\ \A j \in 1 .. n - 1 : r.list[j] = IF j = i THEN last ELSE t.list[j]
    <3>1. [t.list EXCEPT ![i] = last] \in Seq(Entry)
      BY <1>0, <2>1
    <3> QED BY <1>0, <2>1, <2>2, <3>1
  <2>4. DOMAIN r.map = DOMAIN t.map \ {fd}
    BY <2>2
  <2>5. ASSUME NEW f \in DOMAIN r.map
        PROVE  r.map[f] \in 1 .. n - 1 /\ r.list[r.map[f]] = t.list[t.map[f]]
    <3>1. CASE f = last.fd
      <4>1. r.map[f] = i /\ i # n
        BY <1>0, <2>1, <2>2, <2>4, <3>1 DEF InStep
      <4>2. i \in 1 .. n - 1 /\ t.map[f] = n
        <5> HIDE DEF i, n
        <5> QED BY <1>0, <2>1, <3>1, <4>1
      <4>3. r.list[i] = last
        <5> HIDE DEF r, i, n, last
        <5> QED BY <2>3, <4>2
      <4> QED BY <4>1, <4>2, <4>3
    <3>2. CASE f # last.fd
      <4>1. t.map[f] \in 1 .. n /\ t.map[f] # n /\ t.map[f] # i
        BY <1>0, <2>1, <2>4, <3>2 DEF InStep
      <4> QED BY <2>2, <2>3, <2>4, <3>2, <4>1
    <3> QED BY <3>1, <3>2
  <2>6. \A f \in DOMAIN r.map : r.list[r.map[f]].fd = f
    BY <1>0, <2>4, <2>5 DEF InStep
  <2>7. ASSUME NEW j \in 1 .. n - 1
        PROVE  r.list[j].fd \in DOMAIN r.map /\ r.map[r.list[j].fd] = j
    <3>1. CASE j = i
      <4>1. r.list[j] = last /\ i # n
        BY <1>0, <2>3, <3>1
      <4>2. last.fd # fd
        BY <2>1, <4>1
      <4> QED BY <2>1, <2>2, <2>4, <3>1, <4>1, <4>2
    <3>2. CASE j # i
      <4>1. r.list[j] = t.list[j] /\ j \in DOMAIN t.list
        BY <1>0, <2>3, <3>2
      <4>2. t.list[j].fd \in DOMAIN t.map /\ t.map[t.list[j].fd] = j
        BY <1>0, <4>1 DEF InStep
      <4>3. t.list[j].fd # fd /\ t.list[j].fd # last.fd
        BY <1>0, <2>1, <3>2, <4>2
      <4> QED BY <2>2, <2>4, <4>1, <4>2, <4>3
    <3> QED BY <3>1, <3>2
  <2>8. r.map \in Maps
    <3>1. r.map \in [DOMAIN r.map -> Nat]
      <4>1. \A f \in DOMAIN r.map : r.map[f] \in Nat
        BY <1>0, <2>5
      <4>2. r.map = [f \in DOMAIN r.map |-> r.map[f]]
        BY <2>2
      <4> HIDE DEF r
      <4> QED BY <4>1, <4>2
    <3> HIDE DEF r
    <3> QED BY <1>0, <2>4, <3>1 DEF Maps
  <2>9. InStep(r)
    <3>1. r.map \in [DOMAIN r.map -> DOMAIN r.list]
      BY <2>2, <2>3, <2>4, <2>5
    <3> HIDE DEF r
    <3> QED BY <2>3, <2>6, <2>7, <3>1 DEF InStep
  <2>10. Removes(t, r, {fd})
    <3> HIDE DEF r
    <3> QED BY <2>4, <2>5 DEF Removes
  <2>11. r \in Tables
    <3> HIDE DEF r
    <3> QED BY <2>2, <2>3, <2>8, <2>9 DEF Tables
  <2> QED BY <2>10, <2>11
<1> QED BY <1>1, <1>2

(* PopConnection, for every fd of a list: exactly these candidates go.      *)
LEMMA PopMany ==
  ASSUME Candidacy \in Tables, NEW gone, gone \in Seq(Fds)
  PROVE  /\ CandidatesWithout(gone) \in Tables
         /\ Removes(Candidacy, CandidatesWithout(gone), ToSet(gone))
<1> DEFINE N == Len(gone)
           g == [n \in 1 .. N |-> [t \in Tables |-> PopCandidate(t, gone[n])]]
           Rounds(f) == [n \in 0 .. N |-> IF n = 0 THEN Candidacy
                                         ELSE PopCandidate(f[n - 1], gone[n])]
           after == CHOOSE f : f = Rounds(f)
           Prefix(n) == {gone[j] : j \in 1 .. n}
           Good == {n \in 0 .. N : /\ after[n] \in Tables
                                  /\ Removes(Candidacy, after[n], Prefix(n))}
<1>1. N \in Nat /\ DOMAIN gone = 1 .. N
  OBVIOUS
<1>2. g \in [1 .. N -> [Tables -> Tables]]
  BY PopOne
<1>3. PICK f \in [0 .. N -> Tables] : IsLoop(f, N, Candidacy, g)
  <2> HIDE DEF N, g
  <2> QED BY <1>1, <1>2, LoopExists
<1>4. f = Rounds(f)
  <2>1. ASSUME NEW n \in 0 .. N PROVE f[n] = Rounds(f)[n]
    <3>1. CASE n = 0
      BY <1>3, <3>1 DEF IsLoop
    <3>2. CASE n # 0
      <4>1. n \in 1 .. N /\ n - 1 \in 0 .. N
        BY <1>1, <3>2
      <4>2. f[n] = g[n][f[n - 1]] /\ f[n - 1] \in Tables
        <5> HIDE DEF g
        <5> QED BY <1>3, <4>1 DEF IsLoop
      <4> QED BY <3>2, <4>1, <4>2
    <3> QED BY <3>1, <3>2
  <2> QED BY <1>3, <2>1
<1>5. after = Rounds(after)
  BY <1>4
<1>6. CandidatesWithout(gone) = after[N]
  BY DEF CandidatesWithout, Candidacy
<1>7. 0 \in Good
  <2>1. after[0] = Candidacy
    <3> HIDE DEF after, N
    <3> QED BY <1>1, <1>5
  <2>2. Prefix(0) = {}
    OBVIOUS
  <2> HIDE DEF after, Prefix
  <2> QED BY <1>1, <2>1, <2>2 DEF Removes
<1>8. ASSUME NEW n \in 1 .. N, n - 1 \in Good PROVE n \in Good
  <2>1. after[n] = PopCandidate(after[n - 1], gone[n])
    <3> HIDE DEF after
    <3> QED BY <1>1, <1>5
  <2>2. Prefix(n) = Prefix(n - 1) \cup {gone[n]}
    <3>1. 1 .. n = 1 .. n - 1 \cup {n}
      BY <1>1
    <3> QED BY <3>1
  <2>3. after[n - 1] \in Tables /\ Removes(Candidacy, after[n - 1], Prefix(n - 1))
    BY <1>8
  <2> HIDE DEF after, Prefix
  <2>4. /\ after[n] \in Tables
        /\ Removes(after[n - 1], after[n], {gone[n]})
    BY <2>1, <2>3, PopOne
  <2>5. Removes(Candidacy, after[n], Prefix(n))
    BY <2>2, <2>3, <2>4 DEF Removes
  <2> QED BY <2>4, <2>5
<1>9. N \in Good
  <2> HIDE DEF Good, N
  <2>1. Kept(Good, N)
    BY <1>8 DEF Kept
  <2> QED BY <1>1, <1>7, <2>1, RoundByRound
<1>10. Prefix(N) = ToSet(gone)
  BY <1>1 DEF ToSet
<1> QED BY <1>6, <1>9, <1>10

(* PushCandidate, of a connection that is not a candidate.                  *)
LEMMA PushOne ==
  ASSUME NEW t \in Tables, NEW new \in Fds, new \notin DOMAIN t.map
  PROVE  /\ PushCandidate(t, new) \in Tables
         /\ DOMAIN PushCandidate(t, new).map = DOMAIN t.map \cup {new}
         /\ \A fd \in DOMAIN t.map :
               PushCandidate(t, new).list[PushCandidate(t, new).map[fd]] = t.list[t.map[fd]]
<1> DEFINE r == PushCandidate(t, new)
           n == Len(t.list)
           e == [fd |-> new, overdue |-> FALSE]
<1>1. /\ t.list \in Seq(Entry) /\ n \in Nat /\ DOMAIN t.list = 1 .. n
      /\ DOMAIN t.map \subseteq Fds
      /\ InStep(t)
  BY DEF Tables, Maps
<1>2. /\ r.list = Append(t.list, e)
      /\ r.map = [fd \in DOMAIN t.map \cup {new} |->
                      IF fd = new THEN n + 1 ELSE t.map[fd]]
      /\ r = [list |-> r.list, map |-> r.map]
  BY FdsAssumption DEF PushCandidate
<1>3. e \in Entry
  BY DEF Entry
<1> HIDE DEF r, e
<1>4. /\ r.list \in Seq(Entry) /\ DOMAIN r.list = 1 .. n + 1
      /\ \A i \in 1 .. n : r.list[i] = t.list[i]
      /\ r.list[n + 1] = e
  BY <1>1, <1>2, <1>3
<1>5. DOMAIN r.map = DOMAIN t.map \cup {new}
  BY <1>2
<1>6. ASSUME NEW fd \in DOMAIN t.map
      PROVE  /\ r.map[fd] = t.map[fd] /\ t.map[fd] \in 1 .. n
             /\ r.list[r.map[fd]] = t.list[t.map[fd]]
  <2>1. t.map[fd] \in 1 .. n
    BY <1>1 DEF InStep
  <2>2. r.map[fd] = t.map[fd]
    BY <1>2
  <2> QED BY <1>4, <2>1, <2>2
<1>7. r.map[new] = n + 1 /\ r.list[n + 1].fd = new
  BY <1>2, <1>4 DEF e
<1>8. \A fd \in DOMAIN r.map : r.map[fd] \in 1 .. n + 1 /\ r.list[r.map[fd]].fd = fd
  <2> SUFFICES ASSUME NEW fd \in DOMAIN r.map
               PROVE  r.map[fd] \in 1 .. n + 1 /\ r.list[r.map[fd]].fd = fd
    OBVIOUS
  <2>1. CASE fd = new
    BY <1>1, <1>7, <2>1
  <2>2. CASE fd # new
    BY <1>1, <1>5, <1>6, <2>2 DEF InStep
  <2> QED BY <2>1, <2>2
<1>9. ASSUME NEW i \in 1 .. n + 1
      PROVE  r.list[i].fd \in DOMAIN r.map /\ r.map[r.list[i].fd] = i
  <2>1. CASE i = n + 1
    BY <1>5, <1>7, <2>1
  <2>2. CASE i # n + 1
    <3>1. i \in 1 .. n
      BY <1>1, <2>2
    <3>2. t.list[i].fd \in DOMAIN t.map /\ t.map[t.list[i].fd] = i
      BY <1>1, <3>1 DEF InStep
    <3> QED BY <1>4, <1>5, <1>6, <3>1, <3>2
  <2> QED BY <2>1, <2>2
<1>10. r.map = [fd \in DOMAIN r.map |-> r.map[fd]]
  BY <1>2
<1>11. InStep(r) /\ r.map \in Maps
  <2>1. r.map \in [DOMAIN r.map -> DOMAIN r.list] /\ r.map \in [DOMAIN r.map -> Nat]
    BY <1>1, <1>4, <1>8, <1>10
  <2>2. DOMAIN r.map \subseteq Fds
    BY <1>1, <1>5
  <2> QED BY <1>4, <1>8, <1>9, <2>1, <2>2 DEF InStep, Maps
<1>12. r \in Tables
  BY <1>2, <1>4, <1>11 DEF Tables
<1> QED BY <1>5, <1>6, <1>12 DEF r

(* The list of overdue candidates: candidates, each once.                   *)
LEMMA OverdueAmong ==
  ASSUME Candidacy \in Tables
  PROVE  /\ OverdueCandidates \in Seq(Fds) /\ IsInjective(OverdueCandidates)
         /\ ToSet(OverdueCandidates) \subseteq Candidates
<1> DEFINE N == Len(candidates)
           Round(q, n) == IF candidates[n].overdue THEN Append(q, candidates[n].fd) ELSE q
           g == [n \in 1 .. N |-> [q \in Seq(Fds) |-> Round(q, n)]]
           Rounds(f) == [n \in 0 .. N |-> IF n = 0 THEN <<>> ELSE Round(f[n - 1], n)]
           among == CHOOSE f : f = Rounds(f)
           Early(n, q) == \A fd \in ToSet(q) : fd \in Candidates /\ candidateMap[fd] <= n
           Good == {n \in 0 .. N : /\ among[n] \in Seq(Fds) /\ IsInjective(among[n])
                                  /\ Early(n, among[n])}
<1>1. /\ candidates \in Seq(Entry) /\ N \in Nat /\ DOMAIN candidates = 1 .. N
      /\ candidateMap \in [Candidates -> 1 .. N]
      /\ \A n \in 1 .. N : /\ candidates[n].fd \in Candidates /\ candidates[n].fd \in Fds
                            /\ candidateMap[candidates[n].fd] = n
  BY DEF Tables, Maps, InStep, Candidacy, Candidates, Entry
<1>2. g \in [1 .. N -> [Seq(Fds) -> Seq(Fds)]]
  <2>1. ASSUME NEW n \in 1 .. N, NEW q \in Seq(Fds) PROVE Round(q, n) \in Seq(Fds)
    BY <1>1
  <2> QED BY <2>1
<1>3. PICK f \in [0 .. N -> Seq(Fds)] : IsLoop(f, N, <<>>, g)
  <2> HIDE DEF N, g
  <2>1. <<>> \in Seq(Fds)
    OBVIOUS
  <2> QED BY <1>1, <1>2, <2>1, LoopExists
<1>4. f = Rounds(f)
  <2>1. ASSUME NEW n \in 0 .. N PROVE f[n] = Rounds(f)[n]
    <3>1. CASE n = 0
      BY <1>3, <3>1 DEF IsLoop
    <3>2. CASE n # 0
      <4>1. n \in 1 .. N /\ n - 1 \in 0 .. N
        BY <1>1, <3>2
      <4>2. f[n] = g[n][f[n - 1]] /\ f[n - 1] \in Seq(Fds)
        <5> HIDE DEF g
        <5> QED BY <1>3, <4>1 DEF IsLoop
      <4>3. f[n] = Round(f[n - 1], n)
        <5> HIDE DEF Round
        <5> QED BY <4>1, <4>2
      <4> QED BY <3>2, <4>3
    <3> QED BY <3>1, <3>2
  <2> QED BY <1>3, <2>1
<1>5. among = Rounds(among)
  BY <1>4
<1>6. OverdueCandidates = among[N]
  BY DEF OverdueCandidates
<1>7. 0 \in Good
  <2>1. among[0] = <<>>
    <3> HIDE DEF among, N
    <3> QED BY <1>1, <1>5
  <2>2. <<>> \in Seq(Fds) /\ IsInjective(<<>>) /\ Early(0, <<>>)
    BY EmptyList
  <2>3. 0 \in 0 .. N
    BY <1>1
  <2> HIDE DEF among, N
  <2> QED BY <2>1, <2>2, <2>3
<1>8. ASSUME NEW n \in 1 .. N, n - 1 \in Good PROVE n \in Good
  <2> DEFINE q == among[n - 1]  fd == candidates[n].fd
  <2>1. among[n] = Round(q, n)
    <3> HIDE DEF among, Round
    <3> QED BY <1>1, <1>5
  <2>2. q \in Seq(Fds) /\ IsInjective(q) /\ Early(n - 1, q) /\ fd \in Fds
    BY <1>1, <1>8
  <2>3. fd \notin ToSet(q)
    <3>1. candidateMap[fd] = n /\ ~(n <= n - 1)
      BY <1>1
    <3>2. fd \in ToSet(q) => candidateMap[fd] <= n - 1
      BY <2>2
    <3> QED BY <3>1, <3>2
  <2>4. CASE candidates[n].overdue
    <3>1. among[n] = Append(q, fd)
      BY <2>1, <2>4
    <3> HIDE DEF among, q, fd
    <3>2. among[n] \in Seq(Fds) /\ IsInjective(among[n]) /\ ToSet(among[n]) = ToSet(q) \cup {fd}
      BY <2>2, <2>3, <3>1, AppendDistinct, ToSetAppend
    <3>3. Early(n, among[n])
      BY <1>1, <2>2, <3>2 DEF fd
    <3> QED BY <3>2, <3>3
  <2>5. CASE ~candidates[n].overdue
    <3>1. among[n] = q
      BY <2>1, <2>5
    <3> HIDE DEF among, q, fd
    <3> QED BY <1>1, <2>2, <3>1
  <2> QED BY <2>4, <2>5
<1>9. N \in Good
  <2> HIDE DEF Good, N
  <2>1. Kept(Good, N)
    BY <1>8 DEF Kept
  <2> QED BY <1>1, <1>7, <2>1, RoundByRound
<1> QED BY <1>6, <1>9

-----------------------------------------------------------------------------
(* The invariant.  Seated: the seats and the candidates, each view in step  *)
(* with the others.  Queued: the messages taken in.  Exchanged: what server *)
(* and store tell each other; besides the properties of Server it says that *)
(* nothing is reported as new before poll has returned, that a round does   *)
(* not close again what it has closed, and that a new descriptor is not one *)
(* of those still in use.                                                   *)
Connected == Candidates \cup Players

Seated ==
    /\ Candidacy \in Tables
    /\ seatFd \in [Seats -> Fds \cup {NoFd}]
    /\ Players \subseteq Fds /\ playerMap \in [Players -> Seats]
    /\ SeatsConsistent

Queued ==
    /\ trickOverdue \in BOOLEAN /\ isTrickReceived \in BOOLEAN
    /\ playerMessages \in Seq(Message) /\ inbox \in Seq(Message)

Updates == [msgs : Seq(Message), closed : Seq(Fds), opened : Fds \cup {NoFd}]
Stages == {"update", "poll", "apply", "dispatch", "handle", "close",
            "done", "error", "crash"}

Pending ==
    /\ Between \/ pc = "poll" => updateData.opened = NoFd
    /\ pc = "poll"  => ToSet(updateData.closed) \cap Connected = {}
    /\ pc = "apply" => updateData.opened \notin Connected \ ToSet(updateData.closed)

Exchanged ==
    /\ receiving \subseteq Fds /\ sending \subseteq Fds
    /\ updateData \in Updates
    /\ pc \in Stages
    /\ StoreAgrees
    /\ OutgoingAddressed
    /\ Pending

ServerInv == TableInv /\ Seated /\ Queued /\ Exchanged

(* When as many players as there are seats are connected, every seat has    *)
(* its player.                                                              *)
LEMMA FullTableSeats ==
  ASSUME Seated, FullTable
  PROVE  \A s \in Seats : seatFd[s] # NoFd /\ seatFd[s] \in Players
                         /\ playerMap[seatFd[s]] = s
<1>1. playerMap \in Injection(Players, Seats)
  BY DEF Seated, SeatsConsistent, Injection, IsInjective
<1>2. IsFiniteSet(Seats) /\ Cardinality(Seats) = NSeats
  BY NSeatsAssumption, FS_Interval DEF Seats
<1>3. playerMap \in Surjection(Players, Seats)
  BY <1>1, <1>2, FS_Injection DEF FullTable
<1>4. ASSUME NEW s \in Seats PROVE \E fd \in Players : playerMap[fd] = s /\ seatFd[s] = fd
  BY <1>3 DEF Surjection, Seated, SeatsConsistent
<1> QED BY <1>4, FdsAssumption DEF Seated

(* Removals keep the seats consistent: nobody else moves.                   *)
LEMMA SeatsAfterPop ==
  ASSUME Seated, NEW gone, playerMap' = PlayersWithout(gone), seatFd' = SeatsWithout(gone)
  PROVE  /\ Players' = Players \ ToSet(gone)
         /\ \A fd \in Players' : playerMap'[fd] = playerMap[fd] /\ seatFd'[playerMap'[fd]] = fd
         /\ \A s \in Seats : seatFd'[s] # NoFd =>
                               seatFd'[s] \in Players' /\ playerMap'[seatFd'[s]] = s
         /\ seatFd' \in [Seats -> Fds \cup {NoFd}]
         /\ Players' \subseteq Fds /\ playerMap' \in [Players' -> Seats]
<1>1. /\ playerMap' = [fd \in Players \ ToSet(gone) |-> playerMap[fd]]
      /\ Players' = Players \ ToSet(gone)
      /\ \A fd \in Players' : playerMap'[fd] = playerMap[fd]
  BY DEF PlayersWithout, Players
<1>2. Players' \subseteq Fds /\ playerMap' \in [Players' -> Seats]
  BY <1>1 DEF Seated
<1>3. ASSUME NEW s \in Seats
      PROVE  seatFd'[s] = IF seatFd[s] \in Players \cap ToSet(gone) THEN NoFd ELSE seatFd[s]
  <2>1. seatFd'[s] = IF \E fd \in (ToSet(gone) \cap Players) \ Candidates : playerMap[fd] = s
                     THEN NoFd ELSE seatFd[s]
    BY DEF SeatsWithout
  <2>2. (\E fd \in (ToSet(gone) \cap Players) \ Candidates : playerMap[fd] = s)
          <=> seatFd[s] \in Players \cap ToSet(gone)
    <3>1. \A fd \in Players : playerMap[fd] = s => seatFd[s] = fd
      BY DEF Seated, SeatsConsistent
    <3>2. seatFd[s] \in Players => playerMap[seatFd[s]] = s /\ seatFd[s] \notin Candidates
      <4>1. NoFd \notin Players
        BY FdsAssumption DEF Seated
      <4> QED BY <4>1 DEF Seated, SeatsConsistent
    <3> QED BY <3>1, <3>2
  <2> QED BY <2>1, <2>2
<1>4. seatFd' \in [Seats -> Fds \cup {NoFd}]
  <2>1. seatFd' = [s \in Seats |-> seatFd'[s]]
    BY DEF SeatsWithout
  <2> QED BY <1>3, <2>1 DEF Seated
<1>5. \A fd \in Players' : seatFd'[playerMap'[fd]] = fd
  BY <1>1, <1>3 DEF Seated, SeatsConsistent
<1>6. \A s \in Seats : seatFd'[s] # NoFd =>
                          seatFd'[s] \in Players' /\ playerMap'[seatFd'[s]] = s
  BY <1>1, <1>3 DEF Seated, SeatsConsistent
<1> QED BY <1>1, <1>2, <1>4, <1>5, <1>6

(* Removals keep the seating consistent.                                    *)
LEMMA PopConnectionsSeated ==
  ASSUME Seated, NEW gone, gone \in Seq(Fds), PopConnections(gone)
  PROVE  /\ Seated'
         /\ Candidates' = Candidates \ ToSet(gone)
         /\ Players' = Players \ ToSet(gone)
         /\ \A fd \in Candidates' :
               candidates'[candidateMap'[fd]] = candidates[candidateMap[fd]]
<1> DEFINE left == CandidatesWithout(gone)
<1>1. left \in Tables /\ Removes(Candidacy, left, ToSet(gone))
  BY PopMany DEF Seated
<1>2. /\ candidates' = left.list /\ candidateMap' = left.map
      /\ playerMap' = PlayersWithout(gone) /\ seatFd' = SeatsWithout(gone)
  BY DEF PopConnections, CandidatesAre
<1>3. Candidacy' = left
  BY <1>1, <1>2 DEF Candidacy, Tables
<1>4. Candidacy' \in Tables
  BY <1>1, <1>3 DEF Tables, Entry, Maps, InStep
<1>5. /\ Candidates' = Candidates \ ToSet(gone)
      /\ \A fd \in Candidates' :
            candidates'[candidateMap'[fd]] = candidates[candidateMap[fd]]
  BY <1>1, <1>2 DEF Removes, Candidates, Candidacy
<1>6. Players' = Players \ ToSet(gone)
  BY <1>2, SeatsAfterPop
<1>7. SeatsConsistent'
  <2>1. Candidates' \cap Players' = {}
    BY <1>5, <1>6 DEF Seated, SeatsConsistent
  <2> HIDE DEF left
  <2> QED BY <1>2, <2>1, SeatsAfterPop DEF SeatsConsistent
<1> HIDE DEF left
<1> QED BY <1>2, <1>4, <1>5, <1>6, <1>7, SeatsAfterPop DEF Seated

-----------------------------------------------------------------------------
(* The messages of the server are messages.                                 *)
MessagesTo(F) == {m \in Message : m.fd \in F}

(* An IAM names a seat.                                                     *)
LEMMA IamHasSeat ==
  ASSUME NEW m \in ClientMessages \cup ServerMessages, m.type = "IAM"
  PROVE  m.seat \in Seats
<1>1. CASE m \in ClientMessages
  BY <1>1, MessagesAssumption
<1>2. CASE m \in ServerMessages
  BY <1>2 DEF ServerMessages
<1> QED BY <1>1, <1>2

(* DEAL, from any configured deal.                                          *)
LEMMA DealIsMessage ==
  ASSUME NEW d \in DealConfig, NEW s \in Seats
  PROVE  MsgDeal(d, s) \in ServerMessages
BY DEF MsgDeal, ServerMessages, DealConfig

(* TAKEN, from any recorded trick.                                          *)
LEMMA TakenIsMessage ==
  ASSUME NEW ts \in Seq(TrickRecord), NEW k \in 1 .. LastTrick, k \in DOMAIN ts
  PROVE  MsgTaken(ts, k) \in ServerMessages
<1>1. ts[k].cards \in Seq(Card) /\ ts[k].taker \in Seats
  <2>1. ts[k] \in TrickRecord
    OBVIOUS
  <2> QED BY <2>1 DEF TrickRecord
<1> QED BY <1>1 DEF MsgTaken, ServerMessages

(* TRICK of a numbered trick; WRONG of any.                                 *)
LEMMA TrickIsMessage ==
  ASSUME NEW t \in Trick
  PROVE  /\ t.number # 0 => MsgTrick(t) \in ServerMessages
         /\ MsgWrong(t) \in ServerMessages
BY TricksAssumption DEF MsgTrick, MsgWrong, ServerMessages, Trick

(* SCORE and TOTAL.                                                         *)
LEMMA PointsAreMessage ==
  ASSUME NEW header \in {"SCORE", "TOTAL"}, NEW points \in [Seats -> Nat]
  PROVE  MsgPoints(header, points) \in ServerMessages
BY DEF MsgPoints, ServerMessages

(* BUSY.                                                                    *)
LEMMA BusyIsMessage == MsgBusy \in ServerMessages
BY DEF MsgBusy, ServerMessages

(* A message of the server to one of the connections F.                     *)
LEMMA ToIsMessage ==
  ASSUME NEW F \in SUBSET Fds, NEW fd \in F, NEW m \in ServerMessages
  PROVE  To(fd, m) \in MessagesTo(F)
BY DEF To, Message, MessagesTo

(* Lists of messages.                                                       *)
LEMMA MessagesToMore ==
  ASSUME NEW F, NEW G, F \subseteq G, NEW q \in Seq(MessagesTo(F))
  PROVE  q \in Seq(MessagesTo(G))
<1>1. MessagesTo(F) \subseteq MessagesTo(G)
  BY DEF MessagesTo
<1> QED BY <1>1

(* The two ways of saying that all messages of a list go to F.              *)
LEMMA AddressedTo ==
  ASSUME NEW F, NEW q
  PROVE  q \in Seq(MessagesTo(F)) <=> q \in Seq(Message) /\ \A i \in DOMAIN q : q[i].fd \in F
<1>1. ASSUME q \in Seq(MessagesTo(F))
      PROVE  q \in Seq(Message) /\ \A i \in DOMAIN q : q[i].fd \in F
  <2>1. MessagesTo(F) \subseteq Message
    BY DEF MessagesTo
  <2>2. \A i \in DOMAIN q : q[i] \in MessagesTo(F)
    BY <1>1
  <2> QED BY <1>1, <2>1, <2>2 DEF MessagesTo
<1>2. ASSUME q \in Seq(Message), \A i \in DOMAIN q : q[i].fd \in F
      PROVE  q \in Seq(MessagesTo(F))
  <2>1. \A i \in DOMAIN q : q[i] \in MessagesTo(F)
    BY <1>2 DEF MessagesTo
  <2> QED BY <1>2, <2>1
<1> QED BY <1>1, <1>2

(* A list of messages to one connection.                                    *)
LEMMA ListAddressed ==
  ASSUME NEW F \in SUBSET Fds, NEW fd \in F, NEW out \in Seq(ServerMessages)
  PROVE  AllTo(fd, out) \in Seq(MessagesTo(F))
<1>1. \A i \in DOMAIN out : To(fd, out[i]) \in MessagesTo(F)
  BY ToIsMessage
<1> QED BY <1>1 DEF AllTo

(* What a rejoining player is told.                                         *)
LEMMA RecapIsMessages ==
  ASSUME TableInv, NEW s \in Seats
  PROVE  Recap(s) \in Seq(ServerMessages)
<1>1. CASE ~TrickOngoing
  BY <1>1 DEF Recap
<1>2. CASE TrickOngoing
  <2>1. MsgDeal(Head(deals), s) \in ServerMessages
    BY <1>2, CurrentDeal, DealIsMessage
  <2>2. tricks \in Seq(TrickRecord) /\ Len(tricks) \in Nat /\ Len(tricks) <= LastTrick
    BY <1>2, TricksAssumption DEF TableInv, TableTypeOK, TurnFollowsLeader, Trick
  <2>3. \A k \in DOMAIN tricks : MsgTaken(tricks, k) \in ServerMessages
    <3>1. \A k \in DOMAIN tricks : k \in 1 .. LastTrick
      BY <2>2, TricksAssumption
    <3> QED BY <2>2, <3>1, TakenIsMessage
  <2>4. [k \in DOMAIN tricks |-> MsgTaken(tricks, k)] \in Seq(ServerMessages)
    BY <2>2, <2>3
  <2> QED BY <1>2, <2>1, <2>4 DEF Recap
<1> QED BY <1>1, <1>2

(* What all players are told when a card completes a trick, a deal or the   *)
(* game goes to players.                                                    *)
LEMMA ToSeatsAddressed ==
  ASSUME Seated, FullTable, NEW m \in ServerMessages
  PROVE  ToSeats(m) \in Seq(MessagesTo(Players))
<1>1. \A k \in 1 .. NSeats : SeatOrder(k) \in Seats
  BY NSeatsAssumption DEF Seats, SeatOrder
<1>2. \A k \in 1 .. NSeats : To(seatFd[SeatOrder(k)], m) \in MessagesTo(Players)
  BY <1>1, FullTableSeats, ToIsMessage DEF Seated
<1> QED BY <1>2, NSeatsAssumption DEF ToSeats

(* DEAL to every seat.                                                      *)
LEMMA DealMsgsAddressed ==
  ASSUME Seated, FullTable, NEW d \in DealConfig
  PROVE  DealMsgs(d) \in Seq(MessagesTo(Players))
<1>1. \A k \in 1 .. NSeats : SeatOrder(k) \in Seats
  BY NSeatsAssumption DEF Seats, SeatOrder
<1>2. \A k \in 1 .. NSeats :
        To(seatFd[SeatOrder(k)], MsgDeal(d, SeatOrder(k))) \in MessagesTo(Players)
  BY <1>1, FullTableSeats, DealIsMessage, ToIsMessage DEF Seated
<1> QED BY <1>2, NSeatsAssumption DEF DealMsgs

(* SCORE and TOTAL to every seat.                                           *)
LEMMA PointsMsgsAddressed ==
  ASSUME Seated, FullTable, NEW p \in [Seats -> Nat], NEW t \in [Seats -> Nat]
  PROVE  PointsMsgs(p, t) \in Seq(MessagesTo(Players))
<1> DEFINE m(k) == IF k % 2 = 1 THEN MsgPoints("SCORE", p) ELSE MsgPoints("TOTAL", t)
<1>1. \A k \in 1 .. 2 * NSeats : (k - 1) \div 2 \in Seats
  BY NSeatsAssumption DEF Seats
<1>2. \A k \in 1 .. 2 * NSeats : m(k) \in ServerMessages
  BY PointsAreMessage
<1>3. \A k \in 1 .. 2 * NSeats : To(seatFd[(k - 1) \div 2], m(k)) \in MessagesTo(Players)
  <2> HIDE DEF m
  <2> QED BY <1>1, <1>2, FullTableSeats, ToIsMessage DEF Seated
<1>4. 2 * NSeats \in Nat
  BY NSeatsAssumption
<1>5. PointsMsgs(p, t) = [k \in 1 .. 2 * NSeats |-> To(seatFd[(k - 1) \div 2], m(k))]
  BY DEF PointsMsgs
<1> HIDE DEF m
<1> QED BY <1>3, <1>4, <1>5

(* All that follows a card.                                                 *)
LEMMA NewsAddressed ==
  ASSUME TableInv, Seated, FullTable, NEW card \in Card, PlayCard(card), TrickOngoing
  PROVE  NewsOf(card) \in Seq(MessagesTo(Players))
<1> DEFINE done == WithCard(card)
           recs == Append(tricks, RecordOf(done))
           taken == MsgTaken(recs, done.number)
<1>1. CASE ~CompletesTrick(card)
  BY <1>1 DEF NewsOf
<1>2. CASE CompletesTrick(card)
  <2>1. /\ done \in Trick /\ done.number = trick.number /\ done.cards = Append(trick.cards, card)
        /\ trick.number \in 1 .. LastTrick /\ trick.number = Len(tricks) + 1
        /\ tricks \in Seq(TrickRecord)
    <3>1. done \in Trick /\ done.number = trick.number /\ done.cards = Append(trick.cards, card)
      BY WithCardType DEF TableInv
    <3>2. tricks \in Seq(TrickRecord) /\ trick \in Trick /\ trick.number = Len(tricks) + 1
      BY DEF TableInv, TableTypeOK, TurnFollowsLeader
    <3>3. trick.number \in 1 .. LastTrick
      BY <3>2, TricksAssumption DEF Trick, TrickOngoing
    <3> QED BY <3>1, <3>2, <3>3
  <2>2. recs \in Seq(TrickRecord) /\ done.number \in DOMAIN recs
    <3>1. RecordOf(done) \in TrickRecord
      BY <2>1, TakerType DEF RecordOf, TrickRecord, Trick
    <3> QED BY <2>1, <3>1
  <2>3. ToSeats(taken) \in Seq(MessagesTo(Players))
    <3>1. taken \in ServerMessages
      <4> HIDE DEF done, recs
      <4> QED BY <2>1, <2>2, TakenIsMessage
    <3> HIDE DEF taken
    <3> QED BY <3>1, ToSeatsAddressed
  <2>4. AddPoints(score, done) \in [Seats -> Nat] /\ AddPoints(total, done) \in [Seats -> Nat]
    BY AddPointsType DEF TableInv, TableTypeOK
  <2>5. PointsMsgs(AddPoints(score, done), AddPoints(total, done)) \in Seq(MessagesTo(Players))
    BY <2>4, PointsMsgsAddressed
  <2>6. Tail(deals) # <<>> => DealMsgs(Head(Tail(deals))) \in Seq(MessagesTo(Players))
    <3>1. deals # <<>> /\ deals \in Seq(DealConfig)
      BY DEF TableInv, TableTypeOK, DealInProgress
    <3>2. Tail(deals) # <<>> => Head(Tail(deals)) \in DealConfig
      BY <3>1
    <3> QED BY <3>2, DealMsgsAddressed
  <2>7. NewsOf(card) = ToSeats(taken) \o
             IF ~CompletesDeal(card) THEN <<>>
             ELSE PointsMsgs(AddPoints(score, done), AddPoints(total, done)) \o
                  (IF Tail(deals) = <<>> THEN <<>> ELSE DealMsgs(Head(Tail(deals))))
    BY <1>2 DEF NewsOf
  <2> HIDE DEF taken, done
  <2> QED BY <2>3, <2>5, <2>6, <2>7
<1> QED BY <1>1, <1>2

(* The message that follows a full trick.                                   *)
LEMMA TakenSays ==
  ASSUME TableInv, TrickOngoing, NEW card \in Card,
         NEW taken, taken = MsgTaken(Append(tricks, RecordOf(WithCard(card))),
                                     WithCard(card).number)
  PROVE  /\ taken \in ServerMessages /\ taken.type = "TAKEN"
         /\ taken.number = trick.number
         /\ ToSet(taken.cards) = CardsOf(trick.cards) \cup {card}
<1> DEFINE done == WithCard(card)
           recs == Append(tricks, RecordOf(done))
<1>1. /\ done \in Trick /\ done.number = trick.number /\ done.cards = Append(trick.cards, card)
      /\ trick.cards \in Seq(Card)
      /\ trick.number \in 1 .. LastTrick /\ trick.number = Len(tricks) + 1
      /\ tricks \in Seq(TrickRecord)
  <2>1. done \in Trick /\ done.number = trick.number /\ done.cards = Append(trick.cards, card)
    BY WithCardType DEF TableInv
  <2>2. tricks \in Seq(TrickRecord) /\ trick \in Trick /\ trick.number = Len(tricks) + 1
    BY DEF TableInv, TableTypeOK, TurnFollowsLeader
  <2>3. trick.number \in 1 .. LastTrick /\ trick.cards \in Seq(Card)
    BY <2>2, TricksAssumption DEF Trick, TrickOngoing
  <2> QED BY <2>1, <2>2, <2>3
<1>2. /\ recs \in Seq(TrickRecord) /\ done.number \in DOMAIN recs
      /\ recs[done.number].cards = done.cards
  <2>1. RecordOf(done) \in TrickRecord /\ RecordOf(done).cards = done.cards
    BY <1>1, TakerType DEF RecordOf, TrickRecord, Trick
  <2> HIDE DEF done
  <2> QED BY <1>1, <2>1
<1>3. taken \in ServerMessages
  <2> HIDE DEF done, recs
  <2>1. taken = MsgTaken(recs, done.number)
    BY DEF done, recs
  <2> QED BY <1>1, <1>2, <2>1, TakenIsMessage
<1>4. taken.type = "TAKEN" /\ taken.number = trick.number /\ taken.cards = done.cards
  <2> HIDE DEF done, recs
  <2>1. taken = MsgTaken(recs, done.number)
    BY DEF done, recs
  <2> QED BY <1>1, <1>2, <2>1 DEF MsgTaken
<1>5. ToSet(taken.cards) = CardsOf(Append(trick.cards, card))
  BY <1>1, <1>4 DEF ToSet, CardsOf
<1> QED BY <1>1, <1>3, <1>4, <1>5, CardsOfAppend

-----------------------------------------------------------------------------
(* What a handler adds to updateData.                                       *)
LEMMA SendAdds ==
  ASSUME NEW data \in Updates, NEW F, data.msgs \in Seq(MessagesTo(F)),
         NEW out \in Seq(MessagesTo(F))
  PROVE  /\ Send(data, out) \in Updates
         /\ Send(data, out).msgs \in Seq(MessagesTo(F))
         /\ Send(data, out).closed = data.closed /\ Send(data, out).opened = data.opened
<1>1. data.msgs \o out \in Seq(MessagesTo(F))
  OBVIOUS
<1>2. data.msgs \o out \in Seq(Message)
  BY <1>1, AddressedTo
<1> QED BY <1>1, <1>2 DEF Send, Updates

(* A connection to be closed, at the end of the list.                       *)
LEMMA CloseAdds ==
  ASSUME NEW data \in Updates, NEW fd \in Fds
  PROVE  /\ Close(data, fd) \in Updates
         /\ Close(data, fd).msgs = data.msgs
         /\ Close(data, fd).closed = Append(data.closed, fd)
         /\ Close(data, fd).opened = data.opened
<1>1. data.closed \in Seq(Fds) /\ Append(data.closed, fd) \in Seq(Fds)
  BY DEF Updates
<1> QED BY <1>1 DEF Close, Updates

(* The process ends.                                                        *)
LEMMA StopInv ==
  ASSUME NEW how \in {"done", "error", "crash"}, Stop(how)
  PROVE  Seated' /\ Queued' /\ Exchanged'
<1>1. /\ candidates' = <<>> /\ candidateMap' = <<>> /\ playerMap' = <<>>
      /\ seatFd' = [s \in Seats |-> NoFd] /\ pc' = how
      /\ playerMessages' = <<>> /\ inbox' = <<>>
      /\ trickOverdue' = FALSE /\ isTrickReceived' = FALSE
      /\ updateData' = NoUpdate /\ receiving' = {} /\ sending' = {}
  BY DEF Stop
<1>2. Candidates' = {} /\ Players' = {} /\ ~Between'
  BY <1>1 DEF Candidates, Players, Between
<1>3. Seated'
  <2>1. Candidacy' \in Tables
    <3>1. <<>> \in Seq(Entry) /\ <<>> \in Maps
      <4>1. <<>> \in [{} -> Nat] /\ {} \in SUBSET Fds
        OBVIOUS
      <4> QED BY <4>1 DEF Maps
    <3>2. InStep([list |-> <<>>, map |-> <<>>])
      BY DEF InStep
    <3>3. [list |-> <<>>, map |-> <<>>] \in Tables
      BY <3>1, <3>2 DEF Tables
    <3> QED BY <1>1, <3>3 DEF Candidacy
  <2>2. playerMap' \in [Players' -> Seats]
    BY <1>1, <1>2
  <2> QED BY <1>1, <1>2, <2>1, <2>2 DEF Seated, SeatsConsistent
<1>4. Queued'
  <2>1. trickOverdue' \in BOOLEAN /\ isTrickReceived' \in BOOLEAN
    BY <1>1
  <2>2. playerMessages' \in Seq(Message) /\ inbox' \in Seq(Message)
    BY <1>1
  <2> QED BY <2>1, <2>2 DEF Queued
<1>5. Exchanged'
  <2>1. NoUpdate \in Updates
    BY DEF NoUpdate, Updates
  <2> QED BY <1>1, <1>2, <2>1 DEF Exchanged, StoreAgrees, OutgoingAddressed, Pending, Stages
<1> QED BY <1>3, <1>4, <1>5

(* A step that leaves the seating alone.                                    *)
LEMMA SeatedKept ==
  ASSUME Seated, UNCHANGED seating
  PROVE  Seated' /\ Candidates' = Candidates /\ Players' = Players
                /\ Connected' = Connected
BY DEF Seated, seating, candidacy, SeatsConsistent, Candidacy, Candidates, Players,
       Connected, Tables, Entry, Maps, InStep

(* A step between two calls of the store: what it closes was connected, what *)
(* it says goes to a connection the store reads.                            *)
LEMMA BetweenKept ==
  ASSUME Exchanged, Between, Between', pc' \in Stages, UNCHANGED store,
         updateData' \in Updates, updateData'.opened = NoFd,
         Out' \in Seq(MessagesTo(receiving)),
         IsInjective(updateData'.closed),
         Connected' \cup ToSet(updateData'.closed) = receiving,
         Connected' \cap ToSet(updateData'.closed) = {}
  PROVE  Exchanged'
<1>1. receiving' = receiving /\ sending' = sending
  BY DEF store
<1>2. StoreAgrees'
  BY <1>1 DEF StoreAgrees, Connected, Between, Candidates, Players
<1>3. OutgoingAddressed'
  BY <1>1, AddressedTo DEF OutgoingAddressed, Out
<1>4. Pending'
  BY DEF Pending, Between
<1> QED BY <1>1, <1>2, <1>3, <1>4 DEF Exchanged, Updates, Stages

(* What holds between two calls of the store.                               *)
LEMMA InBetween ==
  ASSUME Exchanged, Between
  PROVE  /\ updateData \in Updates /\ updateData.opened = NoFd
         /\ Out \in Seq(MessagesTo(receiving))
         /\ updateData.closed \in Seq(Fds) /\ IsInjective(updateData.closed)
         /\ Connected \cup ToSet(updateData.closed) = receiving
         /\ Connected \cap ToSet(updateData.closed) = {}
<1>1. Out \in Seq(MessagesTo(receiving))
  BY AddressedTo DEF Exchanged, OutgoingAddressed, Updates, Out
<1> QED BY <1>1 DEF Exchanged, StoreAgrees, Pending, Updates, Connected
=============================================================================
