--------------------------- MODULE ProtocolProofs ---------------------------
(***************************************************************************)
(* Theorems about Protocol, for every number of clients, killed, restarted, *)
(* late or wrong.  The program still plays the card game of Table.  Server  *)
(* and client keep the same hand for every player, wherever the messages    *)
(* between them are, and a process that has been told how the game ended    *)
(* ends well: both from ProtocolInv, the inductive invariant, which adds to *)
(* that of the server (SeatingProofs) what is known of the connections and  *)
(* of the processes at their other end.                                     *)
(***************************************************************************)
EXTENDS Protocol, SeatingProofs

(* A step of the program is one of the server, or poll reporting what       *)
(* clients have sent, or one of the clients: the last two do not touch the  *)
(* table.                                                                   *)
LEMMA ProgramStep ==
  ASSUME [ProtocolNext]_protocolVars
  PROVE  [Next]_vars \/ UNCHANGED tableVars
<1>1. CASE ServerGoesOn
  BY <1>1 DEF ServerGoesOn, Next, ServerStep
<1>2. CASE PollReports
  BY <1>2 DEF PollReports, PollReturns
<1>3. CASE PollTimesOut \/ DeadlinePasses
  BY <1>3 DEF PollTimesOut, DeadlinePasses, Next, ServerStep
<1>4. CASE \E c \in Clients : \/ Process(c) \/ Start(c) \/ Kill(c)
                              \/ UserPlays(c) \/ UserErrs(c) \/ UserLate(c)
  BY <1>4 DEF Process, Start, Kill, UserPlays, UserErrs, UserLate
<1>5. CASE Over \/ UNCHANGED protocolVars
  BY <1>5 DEF Over, protocolVars
<1> QED
  BY <1>1, <1>2, <1>3, <1>4, <1>5 DEF ProtocolNext

(* Whatever the processes do and whenever they come and go, only legal      *)
(* cards of the player on turn are played: all that is proved of the table  *)
(* holds of the whole program.                                              *)
THEOREM ProgramRefinement == ProtocolSpec => TableSpec
<1>1. ProtocolInit => TableInit /\ TableInv
  BY InitInv DEF ProtocolInit, Init
<1>2. TableInv /\ [ProtocolNext]_protocolVars => TableInv' /\ [TableNext]_tableVars
  <2> SUFFICES ASSUME TableInv, [ProtocolNext]_protocolVars
               PROVE  TableInv' /\ [TableNext]_tableVars
    OBVIOUS
  <2>1. [TableNext]_tableVars
    BY ProgramStep, StepIsTableStep DEF TableInv
  <2> QED BY <2>1, NextInv
<1> QED
  BY <1>1, <1>2, PTL DEF ProtocolSpec, TableSpec

-----------------------------------------------------------------------------
(* What a process makes of the messages it reads, one after the other.      *)
Words == ClientMessages \cup ServerMessages
View  == [cards : SUBSET Card, next : 0 .. LastTrick, points : Nat,
          dealt : Nat]

(* No client says what only a server says.                                  *)
LEMMA WordsAre ==
  ASSUME NEW m \in Words
  PROVE  /\ m.type = "DEAL" => m.hand \subseteq Card
         /\ m.type \in {"TAKEN", "TRICK"} => m.number \in 1 .. LastTrick
<1>1. CASE m \in ClientMessages
  BY <1>1, MessagesAssumption
<1>2. CASE m \in ServerMessages
  BY <1>2 DEF ServerMessages
<1> QED BY <1>1, <1>2 DEF Words

(* The handler is total.                                                    *)
LEMMA HandledType ==
  ASSUME NEW v \in View, NEW m \in Words
  PROVE  Handled(v, m) \in View
<1>1. /\ v.cards \subseteq Card /\ v.next \in 0 .. LastTrick
      /\ v.points \in Nat /\ v.dealt \in Nat
  BY DEF View
<1>2. CardsAfter(v.cards, m) \subseteq Card
  BY <1>1, WordsAre DEF CardsAfter
<1>3. NumberAfter(v.next, m) \in 0 .. LastTrick
  <2>1. CASE m.type = "TAKEN"
    <3>1. m.number \in 1 .. LastTrick
      BY <2>1, WordsAre
    <3> QED BY <2>1, <3>1, TricksAssumption DEF NumberAfter
  <2>2. CASE m.type # "TAKEN"
    BY <1>1, <2>2, TricksAssumption DEF NumberAfter
  <2> QED BY <2>1, <2>2
<1>4. PointMessagesAfter(v.points, m) \in Nat
  BY <1>1 DEF PointMessagesAfter
<1>5. DealsAfter(v.dealt, m) \in Nat
  BY <1>1 DEF DealsAfter
<1> QED BY <1>2, <1>3, <1>4, <1>5 DEF Handled, View

(* AllHandled is computed message by message.                               *)
HandlesAll(f, v, q) ==
    /\ f \in [0 .. Len(q) -> View]
    /\ f[0] = v /\ \A n \in 1 .. Len(q) : f[n] = Handled(f[n - 1], q[n])
    /\ AllHandled(v, q) = f[Len(q)]

(* The recursive function inside AllHandled exists and has this type.       *)
LEMMA HandledRounds ==
  ASSUME NEW v \in View, NEW q \in Seq(Words)
  PROVE  \E f : HandlesAll(f, v, q)
<1> DEFINE N == Len(q)
           g == [n \in 1 .. N |-> [w \in View |-> Handled(w, q[n])]]
           Rounds(f) == [n \in 0 .. N |-> IF n = 0 THEN v ELSE Handled(f[n - 1], q[n])]
           after == CHOOSE f : f = Rounds(f)
<1>1. N \in Nat /\ DOMAIN q = 1 .. N /\ \A n \in 1 .. N : q[n] \in Words
  OBVIOUS
<1>2. g \in [1 .. N -> [View -> View]]
  BY <1>1, HandledType
<1>3. PICK f \in [0 .. N -> View] : IsLoop(f, N, v, g)
  <2> HIDE DEF N, g
  <2> QED BY <1>1, <1>2, LoopExists
<1>4. \A n \in 1 .. N : f[n] = Handled(f[n - 1], q[n])
  <2> SUFFICES ASSUME NEW n \in 1 .. N PROVE f[n] = Handled(f[n - 1], q[n])
    OBVIOUS
  <2>1. n - 1 \in 0 .. N
    BY <1>1
  <2>2. f[n] = g[n][f[n - 1]] /\ f[n - 1] \in View
    <3> HIDE DEF g
    <3> QED BY <1>3, <2>1 DEF IsLoop
  <2> QED BY <2>2
<1>5. f = Rounds(f)
  <2>1. ASSUME NEW n \in 0 .. N PROVE f[n] = Rounds(f)[n]
    <3>1. CASE n = 0
      BY <1>3, <3>1 DEF IsLoop
    <3>2. CASE n # 0
      <4>1. n \in 1 .. N
        BY <1>1, <3>2
      <4> QED BY <1>4, <3>2, <4>1
    <3> QED BY <3>1, <3>2
  <2> QED BY <1>3, <2>1
<1>6. after = Rounds(after)
  BY <1>5
<1>7. AllHandled(v, q) = after[N]
  BY DEF AllHandled
<1> DEFINE Same == {n \in 0 .. N : after[n] = f[n]}
<1>8. 0 \in Same
  <2>1. after[0] = v
    <3> HIDE DEF after, N
    <3> QED BY <1>1, <1>6
  <2> HIDE DEF after
  <2> QED BY <1>1, <1>3, <2>1 DEF IsLoop
<1>9. Kept(Same, N)
  <2> SUFFICES ASSUME NEW n \in 1 .. N, n - 1 \in Same PROVE n \in Same
    BY DEF Kept
  <2>1. after[n] = Handled(after[n - 1], q[n])
    <3> HIDE DEF after
    <3> QED BY <1>1, <1>6
  <2> HIDE DEF after
  <2> QED BY <1>4, <2>1
<1>10. N \in Same
  <2> HIDE DEF Same, N
  <2> QED BY <1>1, <1>8, <1>9, RoundByRound
<1>11. f[0] = v
  BY <1>3 DEF IsLoop
<1> HIDE DEF after
<1> QED BY <1>3, <1>4, <1>7, <1>10, <1>11 DEF HandlesAll

(* Nothing, and one message more.                                           *)
LEMMA HandledNone ==
  ASSUME NEW v \in View
  PROVE  AllHandled(v, <<>>) = v
<1>1. <<>> \in Seq(Words) /\ Len(<<>>) = 0
  OBVIOUS
<1>2. PICK f : HandlesAll(f, v, <<>>)
  BY <1>1, HandledRounds
<1> QED BY <1>1, <1>2 DEF HandlesAll

(* One more message changes what a process keeps as CardsAfter and the      *)
(* others say.                                                              *)
LEMMA HandledMore ==
  ASSUME NEW v \in View, NEW q \in Seq(Words), NEW m \in Words
  PROVE  /\ AllHandled(v, q) \in View
         /\ AllHandled(v, Append(q, m)) = Handled(AllHandled(v, q), m)
<1> DEFINE N == Len(q)
           r == Append(q, m)
<1>1. /\ N \in Nat /\ r \in Seq(Words) /\ Len(r) = N + 1 /\ r[N + 1] = m
      /\ \A n \in 1 .. N : r[n] = q[n]
  OBVIOUS
<1>2. PICK f : HandlesAll(f, v, q)
  BY HandledRounds
<1>3. PICK h : HandlesAll(h, v, r)
  <2> HIDE DEF r
  <2> QED BY <1>1, HandledRounds
<1> DEFINE Same == {n \in 0 .. N : f[n] = h[n]}
<1> HIDE DEF r
<1>4. 0 \in Same
  BY <1>1, <1>2, <1>3 DEF HandlesAll
<1>5. Kept(Same, N)
  <2> SUFFICES ASSUME NEW n \in 1 .. N, n - 1 \in Same PROVE n \in Same
    BY DEF Kept
  <2>1. n \in 1 .. N + 1 /\ r[n] = q[n]
    BY <1>1
  <2>2. f[n] = Handled(f[n - 1], q[n])
    BY <1>2 DEF HandlesAll
  <2>3. h[n] = Handled(h[n - 1], r[n])
    BY <1>1, <1>3, <2>1 DEF HandlesAll
  <2> QED BY <2>1, <2>2, <2>3
<1>6. f[N] = h[N]
  <2>1. N \in Same
    <3> HIDE DEF Same, N
    <3> QED BY <1>1, <1>4, <1>5, RoundByRound
  <2> QED BY <2>1
<1>7. AllHandled(v, q) = f[N] /\ f[N] \in View
  BY <1>1, <1>2 DEF HandlesAll
<1>8. AllHandled(v, r) = Handled(h[N], m)
  <2>1. N + 1 \in 1 .. Len(r) /\ N + 1 - 1 = N /\ Len(r) = N + 1
    BY <1>1
  <2>2. h[N + 1] = Handled(h[N + 1 - 1], r[N + 1])
    BY <1>3, <2>1 DEF HandlesAll
  <2> HIDE DEF N
  <2> QED BY <1>1, <1>3, <2>1, <2>2 DEF HandlesAll
<1> HIDE DEF N
<1> QED BY <1>6, <1>7, <1>8 DEF r

(* A single message.                                                        *)
LEMMA HandledOne ==
  ASSUME NEW v \in View, NEW m \in Words
  PROVE  AllHandled(v, <<m>>) = Handled(v, m)
<1>1. <<>> \in Seq(Words) /\ <<m>> = Append(<<>>, m)
  OBVIOUS
<1> QED BY <1>1, HandledNone, HandledMore

(* Two lists, one after the other.                                          *)
LEMMA HandledConcat ==
  ASSUME NEW v \in View, NEW p \in Seq(Words), NEW q \in Seq(Words)
  PROVE  /\ AllHandled(v, p) \in View
         /\ AllHandled(v, p \o q) = AllHandled(AllHandled(v, p), q)
<1> DEFINE w == AllHandled(v, p)
           Good == {r \in Seq(Words) : AllHandled(v, p \o r) = AllHandled(w, r)}
<1>1. ASSUME NEW r \in Seq(Words) PROVE AllHandled(v, r) \in View
  <2>1. CASE r = <<>>
    BY <2>1, HandledNone
  <2>2. CASE r # <<>>
    <3>1. Append(r, r[1]) \in Seq(Words) /\ r[1] \in Words
      BY <2>2
    <3> QED BY <3>1, HandledMore
  <2> QED BY <2>1, <2>2
<1>2. w \in View
  BY <1>1
<1> HIDE DEF w
<1>3. <<>> \in Good
  BY <1>2, HandledNone DEF w
<1>4. Lengthens(Good, Words)
  <2> SUFFICES ASSUME NEW r \in Seq(Words), NEW m \in Words, r \in Good
               PROVE  Append(r, m) \in Good
    BY DEF Lengthens
  <2>1. p \o Append(r, m) = Append(p \o r, m) /\ p \o r \in Seq(Words)
        /\ Append(r, m) \in Seq(Words)
    OBVIOUS
  <2>2. AllHandled(v, Append(p \o r, m)) = Handled(AllHandled(v, p \o r), m)
    BY <2>1, HandledMore
  <2>3. AllHandled(w, Append(r, m)) = Handled(AllHandled(w, r), m)
    BY <1>2, HandledMore
  <2> QED BY <2>1, <2>2, <2>3
<1>5. q \in Good
  <2> HIDE DEF Good
  <2> QED BY <1>3, <1>4, ListByList
<1> QED BY <1>2, <1>5 DEF w

(* Messages that change nothing a process keeps of the deal.                *)
Idle == {m \in Words : m.type \notin {"DEAL", "TAKEN", "SCORE", "TOTAL"}}

(* So messages that are no DEAL, TAKEN or points change nothing of it.      *)
LEMMA HandledIdle ==
  ASSUME NEW v \in View, NEW q \in Seq(Idle)
  PROVE  AllHandled(v, q) = v
<1> DEFINE Good == {r \in Seq(Idle) : AllHandled(v, r) = v}
<1>1. Idle \subseteq Words
  BY DEF Idle
<1>2. <<>> \in Good
  BY HandledNone
<1>3. Lengthens(Good, Idle)
  <2> SUFFICES ASSUME NEW r \in Seq(Idle), NEW m \in Idle, r \in Good
               PROVE  Append(r, m) \in Good
    BY DEF Lengthens
  <2>1. r \in Seq(Words) /\ m \in Words /\ Append(r, m) \in Seq(Idle)
    BY <1>1
  <2>2. AllHandled(v, Append(r, m)) = Handled(v, m)
    BY <2>1, HandledMore
  <2>3. Handled(v, m) = v
    <3>1. m.type \notin {"DEAL", "TAKEN", "SCORE", "TOTAL"}
      BY DEF Idle
    <3>2. Handled(v, m) = [cards |-> v.cards, next |-> v.next, points |-> v.points,
                           dealt |-> v.dealt]
      BY <3>1 DEF Handled, CardsAfter, NumberAfter, PointMessagesAfter, DealsAfter
    <3> QED BY <3>2 DEF View
  <2> QED BY <2>1, <2>2, <2>3
<1>4. q \in Good
  <2> HIDE DEF Good
  <2> QED BY <1>2, <1>3, ListByList
<1> QED BY <1>4

-----------------------------------------------------------------------------
(* What is sent to one connection.                                          *)
Sends(f, fd, q) ==
    /\ f \in [0 .. Len(q) -> Seq(Words)]
    /\ f[0] = <<>>
    /\ \A n \in 1 .. Len(q) :
          f[n] = IF q[n].fd = fd THEN Append(f[n - 1], q[n].content) ELSE f[n - 1]
    /\ SentTo(fd, q) = f[Len(q)]

(* The recursive function inside SentTo exists and has this type.           *)
LEMMA SentRounds ==
  ASSUME NEW fd, NEW q \in Seq(Message)
  PROVE  \E f : Sends(f, fd, q)
<1> DEFINE N == Len(q)
           Round(r, n) == IF q[n].fd = fd THEN Append(r, q[n].content) ELSE r
           g == [n \in 1 .. N |-> [r \in Seq(Words) |-> Round(r, n)]]
           Rounds(f) == [n \in 0 .. N |-> IF n = 0 THEN <<>> ELSE Round(f[n - 1], n)]
           to == CHOOSE f : f = Rounds(f)
<1>1. N \in Nat /\ \A n \in 1 .. N : q[n].content \in Words
  <2>1. \A n \in 1 .. N : q[n] \in Message
    OBVIOUS
  <2> QED BY <2>1 DEF Message, Words
<1>2. g \in [1 .. N -> [Seq(Words) -> Seq(Words)]]
  <2>1. ASSUME NEW n \in 1 .. N, NEW r \in Seq(Words) PROVE Round(r, n) \in Seq(Words)
    BY <1>1
  <2> HIDE DEF Round
  <2> QED BY <2>1
<1>3. PICK f \in [0 .. N -> Seq(Words)] : IsLoop(f, N, <<>>, g)
  <2>1. <<>> \in Seq(Words)
    OBVIOUS
  <2> HIDE DEF N, g
  <2> QED BY <1>1, <1>2, <2>1, LoopExists
<1>4. \A n \in 1 .. N : f[n] = Round(f[n - 1], n)
  <2> SUFFICES ASSUME NEW n \in 1 .. N PROVE f[n] = Round(f[n - 1], n)
    OBVIOUS
  <2>1. n - 1 \in 0 .. N
    BY <1>1
  <2>2. f[n] = g[n][f[n - 1]] /\ f[n - 1] \in Seq(Words)
    <3> HIDE DEF g
    <3> QED BY <1>3, <2>1 DEF IsLoop
  <2> HIDE DEF Round
  <2> QED BY <2>2
<1>5. f = Rounds(f)
  <2>1. ASSUME NEW n \in 0 .. N PROVE f[n] = Rounds(f)[n]
    <3>1. CASE n = 0
      BY <1>3, <3>1 DEF IsLoop
    <3>2. CASE n # 0
      <4>1. n \in 1 .. N
        BY <1>1, <3>2
      <4> HIDE DEF Round
      <4> QED BY <1>4, <3>2, <4>1
    <3> QED BY <3>1, <3>2
  <2> QED BY <1>3, <2>1
<1>6. to = Rounds(to)
  BY <1>5
<1>7. SentTo(fd, q) = to[N]
  BY DEF SentTo
<1> DEFINE Same == {n \in 0 .. N : to[n] = f[n]}
<1>8. 0 \in Same
  <2>1. to[0] = <<>>
    <3> HIDE DEF to, N
    <3> QED BY <1>1, <1>6
  <2> HIDE DEF to
  <2> QED BY <1>1, <1>3, <2>1 DEF IsLoop
<1>9. Kept(Same, N)
  <2> SUFFICES ASSUME NEW n \in 1 .. N, n - 1 \in Same PROVE n \in Same
    BY DEF Kept
  <2>1. to[n] = Round(to[n - 1], n)
    <3> HIDE DEF to, Round
    <3> QED BY <1>1, <1>6
  <2> HIDE DEF to, Round
  <2> QED BY <1>4, <2>1
<1>10. N \in Same
  <2> HIDE DEF Same, N
  <2> QED BY <1>1, <1>8, <1>9, RoundByRound
<1>11. f[0] = <<>>
  BY <1>3 DEF IsLoop
<1> HIDE DEF to
<1> QED BY <1>3, <1>4, <1>7, <1>10, <1>11 DEF Sends

(* Nothing, and one message more.                                           *)
LEMMA SentNone == \A fd : SentTo(fd, <<>>) = <<>>
<1> SUFFICES ASSUME NEW fd PROVE SentTo(fd, <<>>) = <<>>
  OBVIOUS
<1>1. <<>> \in Seq(Message) /\ Len(<<>>) = 0
  OBVIOUS
<1>2. PICK f : Sends(f, fd, <<>>)
  BY <1>1, SentRounds
<1> QED BY <1>1, <1>2 DEF Sends

(* One more message is sent to fd or to somebody else.                      *)
LEMMA SentMore ==
  ASSUME NEW fd, NEW q \in Seq(Message), NEW m \in Message
  PROVE  /\ SentTo(fd, q) \in Seq(Words)
         /\ SentTo(fd, Append(q, m)) =
               IF m.fd = fd THEN Append(SentTo(fd, q), m.content) ELSE SentTo(fd, q)
<1> DEFINE N == Len(q)
           r == Append(q, m)
<1>1. /\ N \in Nat /\ r \in Seq(Message) /\ Len(r) = N + 1 /\ r[N + 1] = m
      /\ \A n \in 1 .. N : r[n] = q[n]
  OBVIOUS
<1>2. PICK f : Sends(f, fd, q)
  BY SentRounds
<1>3. PICK h : Sends(h, fd, r)
  <2> HIDE DEF r
  <2> QED BY <1>1, SentRounds
<1> DEFINE Same == {n \in 0 .. N : f[n] = h[n]}
<1> HIDE DEF r
<1>4. 0 \in Same
  BY <1>1, <1>2, <1>3 DEF Sends
<1>5. Kept(Same, N)
  <2> SUFFICES ASSUME NEW n \in 1 .. N, n - 1 \in Same PROVE n \in Same
    BY DEF Kept
  <2>1. n \in 1 .. N + 1 /\ r[n] = q[n]
    BY <1>1
  <2>2. f[n] = IF q[n].fd = fd THEN Append(f[n - 1], q[n].content) ELSE f[n - 1]
    BY <1>2 DEF Sends
  <2>3. h[n] = IF r[n].fd = fd THEN Append(h[n - 1], r[n].content) ELSE h[n - 1]
    BY <1>1, <1>3, <2>1 DEF Sends
  <2> QED BY <2>1, <2>2, <2>3
<1>6. f[N] = h[N]
  <2>1. N \in Same
    <3> HIDE DEF Same, N
    <3> QED BY <1>1, <1>4, <1>5, RoundByRound
  <2> QED BY <2>1
<1>7. SentTo(fd, q) = f[N] /\ f[N] \in Seq(Words)
  BY <1>1, <1>2 DEF Sends
<1>8. SentTo(fd, r) = IF m.fd = fd THEN Append(h[N], m.content) ELSE h[N]
  <2>1. N + 1 \in 1 .. Len(r) /\ N + 1 - 1 = N /\ Len(r) = N + 1
    BY <1>1
  <2>2. h[N + 1] = IF r[N + 1].fd = fd THEN Append(h[N + 1 - 1], r[N + 1].content)
                                      ELSE h[N + 1 - 1]
    BY <1>3, <2>1 DEF Sends
  <2> HIDE DEF N
  <2> QED BY <1>1, <1>3, <2>1, <2>2 DEF Sends
<1> HIDE DEF N
<1> QED BY <1>6, <1>7, <1>8 DEF r

(* What is sent to fd of two lists, one after the other.                    *)
LEMMA SentConcat ==
  ASSUME NEW fd, NEW p \in Seq(Message), NEW q \in Seq(Message)
  PROVE  SentTo(fd, p \o q) = SentTo(fd, p) \o SentTo(fd, q)
<1> DEFINE w == SentTo(fd, p)
           Good == {r \in Seq(Message) : SentTo(fd, p \o r) = w \o SentTo(fd, r)}
<1>1. ASSUME NEW r \in Seq(Message) PROVE SentTo(fd, r) \in Seq(Words)
  <2>1. CASE r = <<>>
    <3>1. SentTo(fd, <<>>) = <<>> /\ <<>> \in Seq(Words)
      BY SentNone
    <3> QED BY <2>1, <3>1
  <2>2. CASE r # <<>>
    <3>1. r[1] \in Message
      BY <2>2
    <3> QED BY <3>1, SentMore
  <2> QED BY <2>1, <2>2
<1>2. w \in Seq(Words)
  BY <1>1
<1> HIDE DEF w
<1>3. <<>> \in Good
  BY <1>2, SentNone DEF w
<1>4. Lengthens(Good, Message)
  <2> SUFFICES ASSUME NEW r \in Seq(Message), NEW m \in Message, r \in Good
               PROVE  Append(r, m) \in Good
    BY DEF Lengthens
  <2>1. p \o Append(r, m) = Append(p \o r, m) /\ p \o r \in Seq(Message)
        /\ Append(r, m) \in Seq(Message)
    OBVIOUS
  <2>2. SentTo(fd, Append(p \o r, m)) =
            IF m.fd = fd THEN Append(SentTo(fd, p \o r), m.content) ELSE SentTo(fd, p \o r)
    BY <2>1, SentMore
  <2>3. SentTo(fd, Append(r, m)) =
            IF m.fd = fd THEN Append(SentTo(fd, r), m.content) ELSE SentTo(fd, r)
    BY SentMore
  <2>4. SentTo(fd, p \o r) = w \o SentTo(fd, r)
    OBVIOUS
  <2>5. SentTo(fd, r) \in Seq(Words) /\ m.content \in Words
    BY <1>1 DEF Message, Words
  <2>6. w \o Append(SentTo(fd, r), m.content) = Append(w \o SentTo(fd, r), m.content)
    BY <1>2, <2>5
  <2>7. SentTo(fd, p \o Append(r, m)) = w \o SentTo(fd, Append(r, m))
    BY <2>1, <2>2, <2>3, <2>4, <2>6
  <2> QED BY <2>1, <2>7
<1>5. q \in Good
  <2> HIDE DEF Good
  <2> QED BY <1>3, <1>4, ListByList
<1> QED BY <1>5 DEF w

(* A single message.                                                        *)
LEMMA SentOne ==
  ASSUME NEW fd, NEW m \in Message
  PROVE  SentTo(fd, <<m>>) = IF m.fd = fd THEN <<m.content>> ELSE <<>>
<1>1. <<>> \in Seq(Message) /\ <<m>> = Append(<<>>, m)
      /\ <<m.content>> = Append(<<>>, m.content)
  OBVIOUS
<1>2. SentTo(fd, <<>>) = <<>>
  BY SentNone
<1>3. SentTo(fd, Append(<<>>, m)) =
         IF m.fd = fd THEN Append(SentTo(fd, <<>>), m.content) ELSE SentTo(fd, <<>>)
  BY <1>1, SentMore
<1> QED BY <1>1, <1>2, <1>3

(* What arrives at a connection is what was addressed to it.                *)
LEMMA SentOnly ==
  ASSUME NEW fd, NEW q \in Seq(Message), NEW T,
         \A i \in DOMAIN q : q[i].fd = fd => q[i].content \in T
  PROVE  SentTo(fd, q) \in Seq(T)
<1> DEFINE Fit == {m \in Message : m.fd = fd => m.content \in T}
           Good == {r \in Seq(Fit) : SentTo(fd, r) \in Seq(T)}
<1>1. Fit \subseteq Message
  OBVIOUS
<1>2. q \in Seq(Fit)
  <2>1. \A i \in DOMAIN q : q[i] \in Fit
    OBVIOUS
  <2> HIDE DEF Fit
  <2> QED BY <2>1
<1>3. <<>> \in Good
  <2>1. SentTo(fd, <<>>) = <<>> /\ <<>> \in Seq(T) /\ <<>> \in Seq(Fit)
    BY SentNone
  <2> HIDE DEF Fit
  <2> QED BY <2>1
<1>4. Lengthens(Good, Fit)
  <2> SUFFICES ASSUME NEW r \in Seq(Fit), NEW m \in Fit, r \in Good
               PROVE  Append(r, m) \in Good
    BY DEF Lengthens
  <2>1. r \in Seq(Message) /\ m \in Message /\ Append(r, m) \in Seq(Fit)
    <3> HIDE DEF Fit
    <3> QED BY <1>1
  <2>2. SentTo(fd, Append(r, m)) =
            IF m.fd = fd THEN Append(SentTo(fd, r), m.content) ELSE SentTo(fd, r)
    BY <2>1, SentMore
  <2>3. SentTo(fd, r) \in Seq(T) /\ (m.fd = fd => m.content \in T)
    OBVIOUS
  <2>4. SentTo(fd, Append(r, m)) \in Seq(T)
    BY <2>2, <2>3
  <2> HIDE DEF Fit
  <2> QED BY <2>1, <2>4
<1>5. q \in Good
  <2> HIDE DEF Good, Fit
  <2> QED BY <1>2, <1>3, <1>4, ListByList
<1> QED BY <1>5

(* What is sent are messages of the server.                                 *)
LEMMA SentTyped ==
  ASSUME NEW fd, NEW q \in Seq(Message)
  PROVE  SentTo(fd, q) \in Seq(Words)
<1>1. \A i \in DOMAIN q : q[i].content \in Words
  <2>1. \A i \in DOMAIN q : q[i] \in Message
    OBVIOUS
  <2> QED BY <2>1 DEF Message, Words
<1> QED BY <1>1, SentOnly

(* Nothing arrives where nothing is addressed to.                           *)
LEMMA SentToOthers ==
  ASSUME NEW fd, NEW q \in Seq(Message), \A i \in DOMAIN q : q[i].fd # fd
  PROVE  SentTo(fd, q) = <<>>
<1>1. SentTo(fd, q) \in Seq({})
  BY SentOnly
<1> QED BY <1>1

(* One message of a list is for a connection.                               *)
LEMMA SentAt ==
  ASSUME NEW fd, NEW q \in Seq(Message), NEW a \in 1 .. Len(q),
         \A n \in 1 .. Len(q) : q[n].fd = fd <=> n = a
  PROVE  SentTo(fd, q) = <<q[a].content>>
<1> DEFINE N == Len(q)
           x == q[a].content
<1>1. N \in Nat /\ a \in 1 .. N
  OBVIOUS
<1>2. PICK f : Sends(f, fd, q)
  BY SentRounds
<1>3. \A n \in 1 .. N : f[n] = IF n = a THEN Append(f[n - 1], x) ELSE f[n - 1]
  BY <1>2 DEF Sends
<1> DEFINE Good == {n \in 0 .. N : f[n] = IF n < a THEN <<>> ELSE <<x>>}
<1> HIDE DEF N, x
<1>4. 0 \in Good
  BY <1>1, <1>2 DEF Sends
<1>5. Kept(Good, N)
  <2> SUFFICES ASSUME NEW n \in 1 .. N, n - 1 \in Good PROVE n \in Good
    BY DEF Kept
  <2>1. CASE n = a
    <3>1. n - 1 < a /\ ~(n < a) /\ n \in 0 .. N
      BY <1>1, <2>1
    <3>2. f[n - 1] = <<>>
      BY <3>1
    <3>3. f[n] = Append(f[n - 1], x)
      BY <1>3, <2>1
    <3> QED BY <3>1, <3>2, <3>3
  <2>2. CASE n # a
    <3>1. n - 1 < a <=> n < a
      BY <1>1, <2>2
    <3> QED BY <1>1, <1>3, <2>2, <3>1
  <2> QED BY <2>1, <2>2
<1>6. N \in Good
  <2> HIDE DEF Good
  <2> QED BY <1>1, <1>4, <1>5, RoundByRound
<1>7. f[N] = <<x>>
  BY <1>1, <1>6
<1> QED BY <1>2, <1>7 DEF Sends, N, x

(* Two neighbours of a list are.                                            *)
LEMMA SentPair ==
  ASSUME NEW fd, NEW q \in Seq(Message), NEW a \in 1 .. Len(q), a + 1 \in 1 .. Len(q),
         \A n \in 1 .. Len(q) : q[n].fd = fd <=> n = a \/ n = a + 1
  PROVE  SentTo(fd, q) = <<q[a].content, q[a + 1].content>>
<1> DEFINE N == Len(q)
           x == q[a].content
           y == q[a + 1].content
<1>1. N \in Nat /\ a \in 1 .. N /\ a + 1 \in 1 .. N
  OBVIOUS
<1>2. PICK f : Sends(f, fd, q)
  BY SentRounds
<1>3. \A n \in 1 .. N : f[n] = IF n = a THEN Append(f[n - 1], x)
                              ELSE IF n = a + 1 THEN Append(f[n - 1], y) ELSE f[n - 1]
  BY <1>2 DEF Sends
<1>4. x \in Words /\ y \in Words
  <2>1. q[a] \in Message /\ q[a + 1] \in Message
    OBVIOUS
  <2> QED BY <2>1 DEF Message, Words
<1> DEFINE Good == {n \in 0 .. N : f[n] = IF n < a THEN <<>>
                                         ELSE IF n = a THEN <<x>> ELSE <<x, y>>}
<1> HIDE DEF N, x, y
<1>5. 0 \in Good
  BY <1>1, <1>2 DEF Sends
<1>6. Kept(Good, N)
  <2> SUFFICES ASSUME NEW n \in 1 .. N, n - 1 \in Good PROVE n \in Good
    BY DEF Kept
  <2>1. CASE n = a
    <3>1. n - 1 < a /\ ~(n < a) /\ n \in 0 .. N
      BY <1>1, <2>1
    <3>2. f[n - 1] = <<>>
      BY <3>1
    <3>3. f[n] = Append(f[n - 1], x)
      BY <1>3, <2>1
    <3> QED BY <2>1, <3>1, <3>2, <3>3
  <2>2. CASE n = a + 1
    <3>1. f[n] = Append(<<x>>, y)
      <4>1. n # a /\ ~(n - 1 < a) /\ n - 1 = a
        BY <1>1, <2>2
      <4> QED BY <1>3, <2>2, <4>1
    <3>2. Append(<<x>>, y) = <<x, y>>
      BY <1>4, TwoInOrder
    <3>3. ~(n < a) /\ n # a /\ n \in 0 .. N
      BY <1>1, <2>2
    <3> QED BY <3>1, <3>2, <3>3
  <2>3. CASE n # a /\ n # a + 1
    <3>1. (n - 1 < a <=> n < a) /\ n - 1 # a /\ n \in 0 .. N
      BY <1>1, <2>3
    <3>2. f[n] = f[n - 1]
      BY <1>3, <2>3
    <3> QED BY <2>3, <3>1, <3>2
  <2> QED BY <2>1, <2>2, <2>3
<1>7. N \in Good
  <2> HIDE DEF Good
  <2> QED BY <1>1, <1>5, <1>6, RoundByRound
<1>8. f[N] = <<x, y>>
  BY <1>1, <1>7
<1> QED BY <1>2, <1>8 DEF Sends, N, x, y

(* A list made for one connection.                                          *)
LEMMA SentAll ==
  ASSUME NEW fd \in Fds, NEW out \in Seq(Words)
  PROVE  SentTo(fd, AllTo(fd, out)) = out
<1> DEFINE Good == {r \in Seq(Words) : SentTo(fd, AllTo(fd, r)) = r}
<1>1. <<>> \in Good
  <2>1. AllTo(fd, <<>>) = <<>>
    BY DEF AllTo
  <2> QED BY <2>1, SentNone
<1>2. Lengthens(Good, Words)
  <2> SUFFICES ASSUME NEW r \in Seq(Words), NEW m \in Words, r \in Good
               PROVE  Append(r, m) \in Good
    BY DEF Lengthens
  <2>1. \A w \in Words : To(fd, w) \in Message /\ To(fd, w).fd = fd /\ To(fd, w).content = w
    BY DEF To, Message, Words
  <2>2. AllTo(fd, r) \in Seq(Message)
    BY <2>1 DEF AllTo
  <2>3. AllTo(fd, Append(r, m)) = Append(AllTo(fd, r), To(fd, m))
    <3>1. PICK p \in Seq(Message) : p = AllTo(fd, r)
      BY <2>2
    <3>2. Len(p) = Len(r) /\ \A i \in 1 .. Len(r) : p[i] = To(fd, r[i])
      BY <3>1 DEF AllTo
    <3>3. PICK x \in Message : x = To(fd, m)
      BY <2>1
    <3>4. AllTo(fd, Append(r, m)) = [i \in 1 .. Len(r) + 1 |-> To(fd, Append(r, m)[i])]
      BY DEF AllTo
    <3>5. Append(p, x) = [i \in 1 .. Len(r) + 1 |-> Append(p, x)[i]]
      <4>1. Append(p, x) \in Seq(Message) /\ Len(Append(p, x)) = Len(r) + 1
        BY <3>2
      <4>2. PICK t \in Seq(Message) : t = Append(p, x)
        BY <4>1
      <4>3. t = [i \in 1 .. Len(t) |-> t[i]]
        OBVIOUS
      <4> QED BY <4>1, <4>2, <4>3
    <3>6. \A i \in 1 .. Len(r) + 1 : Append(p, x)[i] = To(fd, Append(r, m)[i])
      BY <3>2, <3>3
    <3> QED BY <3>1, <3>3, <3>4, <3>5, <3>6
  <2>4. SentTo(fd, AllTo(fd, Append(r, m))) = Append(r, m)
    BY <2>1, <2>2, <2>3, SentMore, SMTT(30)
  <2> QED BY <2>4
<1>3. out \in Good
  <2> HIDE DEF Good
  <2> QED BY <1>1, <1>2, ListByList
<1> QED BY <1>3

(* What everybody is told reaches each player once.                         *)
LEMMA SentToSeats ==
  ASSUME Seated, FullTable, NEW s \in Seats, NEW out \in [1 .. NSeats -> Message],
         \A k \in 1 .. NSeats : out[k].fd = seatFd[SeatOrder(k)]
  PROVE  SentTo(seatFd[s], out) = <<out[s + 1].content>>
<1> DEFINE fd == seatFd[s]
           a  == s + 1
<1>1. NSeats \in Nat /\ a \in 1 .. NSeats /\ SeatOrder(a) = s
  BY NSeatsAssumption DEF Seats, SeatOrder
<1>2. out \in Seq(Message) /\ Len(out) = NSeats /\ DOMAIN out = 1 .. NSeats
  BY <1>1
<1>3. \A k \in 1 .. NSeats : SeatOrder(k) \in Seats
  BY NSeatsAssumption DEF Seats, SeatOrder
<1>4. \A u \in Seats : seatFd[u] = fd => u = s
  BY FullTableSeats DEF Seated, SeatsConsistent
<1>5. \A k \in 1 .. NSeats : out[k].fd = fd => k = a
  <2> SUFFICES ASSUME NEW k \in 1 .. NSeats, out[k].fd = fd PROVE k = a
    OBVIOUS
  <2>1. SeatOrder(k) = s
    BY <1>3, <1>4
  <2> QED BY <1>1, <2>1 DEF SeatOrder
<1>6. a \in 1 .. Len(out) /\ \A n \in 1 .. Len(out) : out[n].fd = fd <=> n = a
  BY <1>1, <1>2, <1>5
<1> HIDE DEF fd, a
<1>7. SentTo(fd, out) = <<out[a].content>>
  BY <1>2, <1>6, SentAt
<1> QED BY <1>7 DEF fd, a

(* A message to all players reaches each of them once.                      *)
LEMMA ToSeatsReach ==
  ASSUME Seated, FullTable, NEW s \in Seats, NEW m \in ServerMessages
  PROVE  SentTo(seatFd[s], ToSeats(m)) = <<m>>
<1>1. \A k \in 1 .. NSeats : SeatOrder(k) \in Seats
  BY NSeatsAssumption DEF Seats, SeatOrder
<1>2. \A k \in 1 .. NSeats : To(seatFd[SeatOrder(k)], m) \in Message
  BY <1>1, FullTableSeats DEF To, Message, Seated
<1>3. s + 1 \in 1 .. NSeats
  BY NSeatsAssumption DEF Seats
<1>4. ToSeats(m) \in [1 .. NSeats -> Message]
  BY <1>2 DEF ToSeats
<1>5. /\ \A k \in 1 .. NSeats : ToSeats(m)[k].fd = seatFd[SeatOrder(k)]
      /\ ToSeats(m)[s + 1].content = m
  BY <1>3 DEF ToSeats, To
<1> QED BY <1>4, <1>5, SentToSeats

(* NewDeal sends each player its own hand and nothing else.                 *)
LEMMA DealMsgsReach ==
  ASSUME Seated, FullTable, NEW s \in Seats, NEW d \in DealConfig
  PROVE  SentTo(seatFd[s], DealMsgs(d)) = <<MsgDeal(d, s)>>
<1>1. \A k \in 1 .. NSeats : SeatOrder(k) \in Seats
  BY NSeatsAssumption DEF Seats, SeatOrder
<1>2. \A k \in 1 .. NSeats : To(seatFd[SeatOrder(k)], MsgDeal(d, SeatOrder(k))) \in Message
  BY <1>1, FullTableSeats, DealIsMessage DEF To, Message, Seated
<1>3. s + 1 \in 1 .. NSeats /\ SeatOrder(s + 1) = s
  BY NSeatsAssumption DEF Seats, SeatOrder
<1>4. DealMsgs(d) \in [1 .. NSeats -> Message]
  BY <1>2 DEF DealMsgs
<1>5. /\ \A k \in 1 .. NSeats : DealMsgs(d)[k].fd = seatFd[SeatOrder(k)]
      /\ DealMsgs(d)[s + 1].content = MsgDeal(d, s)
  BY <1>3 DEF DealMsgs, To
<1> QED BY <1>4, <1>5, SentToSeats

(* The two lists of points stand side by side for each seat.                *)
LEMMA PointsMsgsReach ==
  ASSUME Seated, FullTable, NEW s \in Seats, NEW p \in [Seats -> Nat], NEW t \in [Seats -> Nat]
  PROVE  SentTo(seatFd[s], PointsMsgs(p, t)) =
            <<MsgPoints("SCORE", p), MsgPoints("TOTAL", t)>>
<1> DEFINE fd == seatFd[s]
           q  == PointsMsgs(p, t)
           m1 == MsgPoints("SCORE", p)
           m2 == MsgPoints("TOTAL", t)
<1>1. PICK a \in Nat : a = 2 * s + 1
  BY DEF Seats
<1>2. /\ NSeats \in Nat /\ s \in Nat /\ 2 * NSeats \in Nat
      /\ a \in 1 .. 2 * NSeats /\ a + 1 \in 1 .. 2 * NSeats
      /\ (a - 1) \div 2 = s /\ (a + 1 - 1) \div 2 = s /\ a % 2 = 1 /\ (a + 1) % 2 # 1
  BY <1>1, NSeatsAssumption DEF Seats
<1>3. q \in Seq(Message)
  BY PointsMsgsAddressed, AddressedTo
<1>4. Len(q) = 2 * NSeats /\ DOMAIN q = 1 .. 2 * NSeats
      /\ \A k \in 1 .. 2 * NSeats : q[k].fd = seatFd[(k - 1) \div 2]
  BY <1>2 DEF PointsMsgs, To
<1>5. /\ q[a].content = m1 /\ q[a + 1].content = m2
      /\ q[a].fd = fd /\ q[a + 1].fd = fd
  <2>1. q[a] = To(fd, m1)
    BY <1>2 DEF PointsMsgs
  <2>2. q[a + 1] = To(fd, m2)
    BY <1>2 DEF PointsMsgs
  <2> QED BY <2>1, <2>2 DEF To
<1>6. \A u \in Seats : seatFd[u] = fd => u = s
  BY FullTableSeats DEF Seated, SeatsConsistent
<1>7. ASSUME NEW k \in 1 .. 2 * NSeats, q[k].fd = fd PROVE k = a \/ k = a + 1
  <2>1. (k - 1) \div 2 \in Seats
    BY NSeatsAssumption DEF Seats
  <2>2. (k - 1) \div 2 = s
    BY <1>4, <1>6, <1>7, <2>1
  <2>3. k \in Nat /\ k >= 1 /\ s \in Nat
    BY <1>2
  <2>4. k = 2 * s + 1 \/ k = 2 * s + 2
    BY ONLY <2>2, <2>3
  <2> QED BY <1>1, <1>2, <2>4
<1>8. a \in 1 .. Len(q) /\ a + 1 \in 1 .. Len(q)
      /\ \A k \in 1 .. Len(q) : q[k].fd = fd <=> k = a \/ k = a + 1
  <2> HIDE DEF q, fd, m1, m2
  <2> QED BY <1>2, <1>4, <1>5, <1>7
<1>9. SentTo(fd, q) = <<q[a].content, q[a + 1].content>>
  <2> HIDE DEF q, fd, m1, m2
  <2> QED BY <1>3, <1>8, SentPair
<1>10. q[a].content = m1 /\ q[a + 1].content = m2
  BY <1>5
<1> HIDE DEF q, m1, m2
<1> QED BY <1>9, <1>10 DEF q, m1, m2

-----------------------------------------------------------------------------
(* What a process at seat s must have been told: HandsAgree, and the points *)
(* lists of the last deal, if any, only once the game is over, but then if  *)
(* it has been dealt any cards.                                             *)
Right(s, v) ==
    /\ v.cards = hands[s] \cup InPlay(s)
    /\ v.next = trick.number
    /\ v.points = 0 \/ (deals = <<>> /\ v.points = 2)
    /\ v.points = 0 /\ v.next = 0 => v.dealt = 0

(* The deal begins.                                                         *)
LEMMA RightAfterDeal ==
  ASSUME TableInv, StartGame, NEW s \in Seats, NEW v \in View, Right(s, v),
         NEW w, w = Handled(v, MsgDeal(Head(deals), s))
  PROVE  Right(s, w)'
<1>1. ~TrickOngoing /\ hands[s] = {}
  BY DEF StartGame, Deal, TableInv, HandSizes
<1>2. /\ trick' = FirstTrick(Head(deals)) /\ hands' = HandsDealt(hands, Head(deals))
      /\ deals' = deals
  BY DEF StartGame, Deal
<1>3. v.cards = {}
  BY <1>1 DEF Right, InPlay
<1>4. w.cards = Head(deals).hands[s] /\ w.next = 1 /\ w.points = 0
  BY <1>3 DEF Handled, CardsAfter, NumberAfter, PointMessagesAfter, MsgDeal
<1>5. hands'[s] = Head(deals).hands[s]
  BY <1>1, <1>2 DEF HandsDealt
<1>6. trick'.cards = <<>> /\ trick'.number = 1
  BY <1>2 DEF FirstTrick
<1> QED BY <1>4, <1>5, <1>6 DEF Right, InPlay, TrickOngoing, CardsOf

(* A process that takes a seat is told all at once.                         *)
Blank == [cards |-> {}, next |-> 0, points |-> 0, dealt |-> 0]

(* What it is told is what the seat stands at: this is RejoinHand and more. *)
LEMMA RightFromRecap ==
  ASSUME TableInv, Apart, NEW s \in Seats, NEW w, w = AllHandled(Blank, Recap(s))
  PROVE  Right(s, w)
<1>0. Blank \in View
  BY TricksAssumption DEF Blank, View
<1>1. CASE ~TrickOngoing
  <2>1. w = Blank
    BY <1>0, <1>1, HandledNone DEF Recap
  <2>2. hands[s] = {} /\ trick.number = 0
    BY <1>1 DEF TableInv, HandSizes, TrickOngoing
  <2> QED BY <1>1, <2>1, <2>2 DEF Right, InPlay, Blank
<1>2. CASE TrickOngoing
  <2> DEFINE N == Len(tricks)
             d == Head(deals)
             q == [k \in 1 .. N |-> MsgTaken(tricks, k)]
             dealt == MsgDeal(d, s)
             u == Handled(Blank, dealt)
             Taken(n) == UNION {CardsOf(tricks[k].cards) : k \in 1 .. n}
             At(n) == [cards |-> d.hands[s] \ Taken(n), next |-> n + 1, points |-> 0,
                       dealt |-> 1]
             Good == {n \in 0 .. N : AllHandled(u, SubSeq(q, 1, n)) = At(n)}
  <2>1. /\ tricks \in Seq(TrickRecord) /\ N \in Nat /\ DOMAIN tricks = 1 .. N
        /\ trick.number = N + 1 /\ N < LastTrick /\ LastTrick \in Nat
    BY <1>2, TricksAssumption DEF TableInv, TableTypeOK, TurnFollowsLeader, Trick
  <2>2. d \in DealConfig /\ dealt \in Words /\ d.hands[s] \subseteq Card
    <3>1. d \in DealConfig
      BY <1>2, CurrentDeal
    <3> QED BY <3>1, DealIsMessage DEF Words, DealConfig
  <2>3. q \in Seq(Words)
    <3>1. \A k \in 1 .. N : MsgTaken(tricks, k) \in Words
      <4>1. \A k \in 1 .. N : k \in 1 .. LastTrick
        BY <2>1
      <4> HIDE DEF N
      <4> QED BY <2>1, <4>1, TakenIsMessage DEF Words
    <3> HIDE DEF N
    <3> QED BY <2>1, <3>1
  <2>4. u \in View
    BY <1>0, <2>2, HandledType
  <2>5. Recap(s) = <<dealt>> \o q
    BY <1>2, <2>1 DEF Recap
  <2>6. w = AllHandled(u, q)
    <3> HIDE DEF q, u, dealt
    <3>1. <<dealt>> \in Seq(Words)
      BY <2>2
    <3> DEFINE p == <<dealt>>
    <3> HIDE DEF p
    <3>2. AllHandled(Blank, p \o q) = AllHandled(AllHandled(Blank, p), q)
      BY <1>0, <2>3, <3>1, HandledConcat DEF p
    <3>3. AllHandled(Blank, p) = u
      BY <1>0, <2>2, HandledOne DEF u, p
    <3> QED BY <2>5, <3>2, <3>3 DEF p
  <2>7. 0 \in Good
    <3>1. Taken(0) = {}
      OBVIOUS
    <3>2. u = At(0)
      <4>1. u = [cards |-> d.hands[s], next |-> 1, points |-> 0, dealt |-> 1]
        BY DEF Handled, CardsAfter, NumberAfter, PointMessagesAfter, DealsAfter, MsgDeal,
               Blank
      <4> HIDE DEF u, Taken
      <4> QED BY <3>1, <4>1
    <3>3. SubSeq(q, 1, 0) = <<>>
      BY <2>3
    <3>4. AllHandled(u, SubSeq(q, 1, 0)) = At(0)
      <4> HIDE DEF u, At, q
      <4> QED BY <2>4, <3>2, <3>3, HandledNone
    <3> HIDE DEF u, At, q
    <3> QED BY <2>1, <3>4
  <2>8. Kept(Good, N)
    <3> SUFFICES ASSUME NEW n \in 1 .. N, n - 1 \in Good PROVE n \in Good
      BY DEF Kept
    <3> DEFINE m == MsgTaken(tricks, n)
    <3>1. /\ SubSeq(q, 1, n - 1) \in Seq(Words) /\ q[n] \in Words /\ q[n] = m
          /\ SubSeq(q, 1, n) = Append(SubSeq(q, 1, n - 1), q[n])
      <4>1. Len(q) = N /\ n \in 1 .. Len(q) /\ q[n] = m
        BY <2>1
      <4> HIDE DEF q, m
      <4> QED BY <2>3, <4>1, PrefixMore
    <3>2. AllHandled(u, SubSeq(q, 1, n)) = Handled(At(n - 1), m)
      <4>1. AllHandled(u, SubSeq(q, 1, n - 1)) = At(n - 1)
        OBVIOUS
      <4> HIDE DEF q, m, At, u
      <4> QED BY <2>4, <3>1, <4>1, HandledMore, ZenonT(60)
    <3>3. Taken(n) = Taken(n - 1) \cup CardsOf(tricks[n].cards)
      <4>1. 1 .. n = 1 .. n - 1 \cup {n}
        BY <2>1
      <4> QED BY <4>1
    <3>4. ToSet(m.cards) = CardsOf(tricks[n].cards)
      BY DEF MsgTaken, ToSet, CardsOf
    <3>5. /\ CardsAfter(At(n - 1).cards, m) = (d.hands[s] \ Taken(n - 1)) \ ToSet(m.cards)
          /\ NumberAfter(At(n - 1).next, m) = n + 1
          /\ PointMessagesAfter(At(n - 1).points, m) = 0
          /\ DealsAfter(At(n - 1).dealt, m) = 1
      <4>1. m.type = "TAKEN" /\ m.number = n /\ n # LastTrick
        BY <2>1 DEF MsgTaken
      <4> HIDE DEF Taken, m, d
      <4> QED BY <4>1 DEF CardsAfter, NumberAfter, PointMessagesAfter, DealsAfter
    <3>6. Handled(At(n - 1), m) = At(n)
      <4>1. (d.hands[s] \ Taken(n - 1)) \ ToSet(m.cards) = d.hands[s] \ Taken(n)
        <5> HIDE DEF Taken, m, d
        <5> QED BY <3>3, <3>4
      <4>2. Handled(At(n - 1), m) = [cards |-> d.hands[s] \ Taken(n), next |-> n + 1,
                                      points |-> 0, dealt |-> 1]
        <5> HIDE DEF Taken, m, d, At
        <5> QED BY <3>5, <4>1 DEF Handled
      <4> QED BY <4>2
    <3> HIDE DEF At, u, q, m
    <3> QED BY <2>1, <3>2, <3>6
  <2>9. AllHandled(u, q) = At(N)
    <3>1. N \in Good
      <4> HIDE DEF Good, N
      <4> QED BY <2>1, <2>7, <2>8, RoundByRound
    <3>2. SubSeq(q, 1, N) = q
      <4>1. Len(q) = N
        BY <2>1
      <4> HIDE DEF q
      <4> QED BY <2>3, <4>1
    <3> HIDE DEF At, u, q
    <3> QED BY <3>1, <3>2
  <2>10. Taken(N) = TakenCards
    BY <2>1 DEF TakenCards
  <2>11. d.hands[s] \ TakenCards = hands[s] \cup (d.hands[s] \cap CardsOf(trick.cards))
    <3>1. hands[s] = d.hands[s] \ PlayedCards
      BY <1>2 DEF TableInv, CardsAccounted
    <3> HIDE DEF d
    <3> QED BY <3>1 DEF PlayedCards, Apart
  <2>12. w = [cards |-> d.hands[s] \ TakenCards, next |-> N + 1, points |-> 0,
              dealt |-> 1]
    <3> HIDE DEF u, q, Taken
    <3> QED BY <2>6, <2>9, <2>10
  <2> HIDE DEF d, N
  <2> QED BY <1>2, <2>1, <2>11, <2>12 DEF Right, InPlay, d
<1> QED BY <1>1, <1>2

(* A card is played: what each player is told makes up for what changes.    *)
LEMMA RightAfterCard ==
  ASSUME TableInv, Apart, Seated, FullTable, NEW card \in Card,
         IsMoveLegal(trick.turn, card), PlayCard(card),
         NEW s \in Seats, NEW v \in View, Right(s, v),
         NEW w, w = AllHandled(v, SentTo(seatFd[s], NewsOf(card)))
  PROVE  Right(s, w)'
<1> DEFINE fd == seatFd[s]
           done == WithCard(card)
           taken == MsgTaken(Append(tricks, RecordOf(done)), done.number)
           out == PointsMsgs(AddPoints(score, done), AddPoints(total, done)) \o
                  (IF Tail(deals) = <<>> THEN <<>> ELSE DealMsgs(Head(Tail(deals))))
<1>1. /\ TrickOngoing /\ deals # <<>> /\ deals \in Seq(DealConfig)
      /\ trick.number \in 1 .. LastTrick
  <2>1. TrickOngoing
    BY DEF IsMoveLegal
  <2> QED BY <2>1, TricksAssumption DEF TableInv, TableTypeOK, DealInProgress, Trick, TrickOngoing
<1>2. TableInv' /\ Apart'
  <2>1. [TableNext]_tableVars
    BY DEF TableNext, PlayLegalCard
  <2> QED BY <2>1, NextInv, ApartKept
<1>3. HeldBack(s)'
  <2>1. AllHeldBack'
    BY <1>2, HeldBackAll, PTL
  <2> QED BY <2>1 DEF AllHeldBack
<1>4. /\ v.cards = hands[s] \cup InPlay(s) /\ v.cards = Head(deals).hands[s] \ TakenCards
      /\ v.next = trick.number /\ v.points = 0
  <2>1. HeldBack(s)
    BY HeldBackAll DEF AllHeldBack
  <2> QED BY <1>1, <2>1 DEF HeldBack, Right
<1>5. CASE ContinueTrick(card)
  <2>1. /\ trick' = done /\ done.number = trick.number /\ tricks' = tricks /\ deals' = deals
    <3>1. done.number = trick.number
      BY WithCardType DEF TableInv
    <3> QED BY <1>5, <3>1 DEF ContinueTrick, Play, TrickAfter
  <2>2. w = v
    <3>1. NewsOf(card) = <<>>
      BY <1>5 DEF NewsOf, ContinueTrick
    <3>2. SentTo(fd, <<>>) = <<>>
      BY SentNone
    <3> QED BY <3>1, <3>2, HandledNone
  <2>3. TrickOngoing' /\ TakenCards' = TakenCards
    BY <1>1, <2>1 DEF TrickOngoing, TakenCards, CardsOf
  <2>4. w.cards = (hands[s] \cup InPlay(s))'
    BY <1>3, <1>4, <2>1, <2>2, <2>3 DEF HeldBack
  <2> QED BY <1>4, <2>1, <2>2, <2>4 DEF Right
<1>6. CASE CompletesTrick(card)
  <2>1. /\ taken \in ServerMessages /\ taken.type = "TAKEN" /\ taken.number = trick.number
        /\ ToSet(taken.cards) = CardsOf(trick.cards) \cup {card}
    <3> HIDE DEF done
    <3>1. PICK m : m = taken
      OBVIOUS
    <3> HIDE DEF taken
    <3> QED BY <1>1, <3>1, TakenSays DEF taken, done
  <2>2. SentTo(fd, ToSeats(taken)) = <<taken>> /\ ToSeats(taken) \in Seq(Message)
    <3> HIDE DEF taken
    <3> QED BY <2>1, ToSeatsReach, ToSeatsAddressed, AddressedTo
  <2>3. taken \in Words
    BY <2>1 DEF Words
  <2> DEFINE u == Handled(v, taken)
  <2>4. /\ u \in View /\ u.cards = v.cards \ (CardsOf(trick.cards) \cup {card})
        /\ u.next = (IF trick.number = LastTrick THEN 0 ELSE trick.number + 1)
        /\ u.points = 0
    <3>1. u \in View
      BY <2>3, HandledType
    <3> HIDE DEF taken
    <3>2. u.cards = v.cards \ ToSet(taken.cards)
      BY <2>1 DEF Handled, CardsAfter
    <3>3. u.next = (IF trick.number = LastTrick THEN 0 ELSE trick.number + 1)
      BY <2>1 DEF Handled, NumberAfter
    <3>4. u.points = 0
      BY <1>4, <2>1 DEF Handled, PointMessagesAfter
    <3> HIDE DEF u
    <3> QED BY <2>1, <3>1, <3>2, <3>3, <3>4
  <2>5. AllHandled(v, <<taken>>) = u
    <3> HIDE DEF taken
    <3> QED BY <2>3, HandledOne
  <2>6. CASE FinishTrick(card)
    <3>1. w = u
      <4>1. NewsOf(card) = ToSeats(taken) \o <<>>
        BY <1>6, <2>6 DEF NewsOf, FinishTrick
      <4>2. NewsOf(card) = ToSeats(taken)
        <5> HIDE DEF taken
        <5> QED BY <2>2, <4>1
      <4> HIDE DEF u, taken
      <4> QED BY <2>2, <2>5, <4>2
    <3> HIDE DEF u, taken
    <3>2. /\ trick'.number = trick.number + 1 /\ deals' = deals
          /\ tricks' = Append(tricks, RecordOf(done))
          /\ trick.number # LastTrick
      <4>1. ~CompletesDeal(card) /\ trick' = TrickAfter(card) /\ deals' = deals
            /\ tricks' = Append(tricks, RecordOf(done))
        BY <2>6 DEF FinishTrick, Play
      <4>2. done.number = trick.number
        BY WithCardType DEF TableInv
      <4> HIDE DEF done
      <4> QED BY <1>6, <4>1, <4>2 DEF TrickAfter, CompletesDeal, done
    <3>3. TrickOngoing'
      BY <1>1, <3>2 DEF TrickOngoing
    <3>4. TakenCards' = TakenCards \cup CardsOf(trick.cards) \cup {card}
      <4>1. tricks \in Seq(TrickRecord) /\ trick.cards \in Seq(Card)
        BY DEF TableInv, TableTypeOK, Trick
      <4>2. RecordOf(done).cards = Append(trick.cards, card)
        BY WithCardType DEF RecordOf, TableInv
      <4>3. CardsOf(RecordOf(done).cards) = CardsOf(trick.cards) \cup {card}
        BY <4>1, <4>2, CardsOfAppend
      <4> DEFINE r == RecordOf(done)
      <4> HIDE DEF r
      <4>4. /\ DOMAIN tricks' = DOMAIN tricks \cup {Len(tricks) + 1}
            /\ \A k \in DOMAIN tricks : tricks'[k] = tricks[k]
            /\ tricks'[Len(tricks) + 1] = r
        BY <3>2, <4>1 DEF r
      <4>5. TakenCards' = UNION {CardsOf(tricks'[k].cards) : k \in DOMAIN tricks'}
        BY DEF TakenCards, CardsOf
      <4>6. TakenCards' = TakenCards \cup CardsOf(r.cards)
        BY <4>4, <4>5 DEF TakenCards
      <4> QED BY <4>3, <4>6 DEF r
    <3>5. w.cards = (hands[s] \cup InPlay(s))'
      <4>1. (hands[s] \cup InPlay(s))' = Head(deals).hands[s] \ TakenCards'
        BY <1>3, <3>2, <3>3 DEF HeldBack
      <4> QED BY <1>4, <2>4, <3>1, <3>4, <4>1
    <3>6. PICK n \in Nat : n = trick.number
      BY <1>1, TricksAssumption
    <3>7. w.next = n + 1 /\ trick'.number = n + 1 /\ n + 1 # 0
      BY <2>4, <3>1, <3>2, <3>6
    <3> QED BY <2>4, <3>1, <3>2, <3>5, <3>7 DEF Right
  <2>7. CASE FinishDeal(card)
    <3>1. /\ CompletesDeal(card) /\ CanPlay(card) /\ deals' = Tail(deals)
          /\ trick.number = LastTrick
      BY <2>7 DEF FinishDeal, CompletesDeal
    <3>2. \A t \in Seats : HandsWithout(card)[t] = {}
      BY <1>1, <3>1, LastCardPlayed
    <3>3. u.cards = {}
      <4>1. hands[s] \subseteq {card}
        BY <3>2, HandsWithoutType, ZenonT(60) DEF TableInv
      <4>2. InPlay(s) \subseteq CardsOf(trick.cards)
        BY DEF InPlay
      <4> HIDE DEF u
      <4> QED BY <1>4, <2>4, <4>1, <4>2
    <3> DEFINE m1 == MsgPoints("SCORE", AddPoints(score, done))
               m2 == MsgPoints("TOTAL", AddPoints(total, done))
               y == AllHandled(u, <<m1, m2>>)
    <3>4. AddPoints(score, done) \in [Seats -> Nat] /\ AddPoints(total, done) \in [Seats -> Nat]
      BY <1>1, AddPointsType DEF TableInv, TableTypeOK
    <3>5. /\ m1 \in Words /\ m2 \in Words
          /\ m1.type = "SCORE" /\ m2.type = "TOTAL"
      <4>1. m1 \in ServerMessages /\ m2 \in ServerMessages
        BY <3>4, PointsAreMessage
      <4> QED BY <4>1 DEF Words, MsgPoints
    <3>6. y \in View /\ y.cards = {} /\ y.next = 0 /\ y.points = 2
      <4> HIDE DEF u, m1, m2
      <4>1. <<m1>> \in Seq(Words) /\ Append(<<m1>>, m2) = <<m1, m2>>
        BY <3>5, TwoInOrder
      <4> DEFINE x == AllHandled(u, <<m1>>)
      <4>2. x = Handled(u, m1) /\ x \in View
        BY <2>4, <3>5, <4>1, HandledOne, HandledMore
      <4>3. y = Handled(x, m2)
        BY <2>4, <3>5, <4>1, HandledMore, ZenonT(60)
      <4> HIDE DEF x, y
      <4>4. x.cards = {} /\ x.next = 0 /\ x.points = 1
        BY <2>4, <3>1, <3>3, <3>5, <4>2 DEF Handled, CardsAfter, NumberAfter, PointMessagesAfter
      <4>5. y.cards = {} /\ y.next = 0 /\ y.points = 2
        BY <3>5, <4>3, <4>4 DEF Handled, CardsAfter, NumberAfter, PointMessagesAfter
      <4> QED BY <3>5, <4>2, <4>3, <4>5, HandledType
    <3> DEFINE pm == PointsMsgs(AddPoints(score, done), AddPoints(total, done))
               dm == IF Tail(deals) = <<>> THEN <<>> ELSE DealMsgs(Head(Tail(deals)))
    <3>7. SentTo(fd, pm) = <<m1, m2>> /\ pm \in Seq(Message)
      <4> HIDE DEF done
      <4> QED BY <3>4, PointsMsgsReach, PointsMsgsAddressed, AddressedTo
    <3>8. Tail(deals) # <<>> => Head(Tail(deals)) \in DealConfig
      BY <1>1
    <3>9. dm \in Seq(Message)
      BY <3>8, DealMsgsAddressed, AddressedTo
    <3>10. NewsOf(card) = ToSeats(taken) \o (pm \o dm)
      BY <1>6, <3>1 DEF NewsOf
    <3> HIDE DEF pm, dm, m1, m2, taken, u, fd
    <3>11. SentTo(fd, NewsOf(card)) = <<taken>> \o (<<m1, m2>> \o SentTo(fd, dm))
      <4>1. pm \o dm \in Seq(Message)
        BY <3>7, <3>9
      <4>2. SentTo(fd, pm \o dm) = <<m1, m2>> \o SentTo(fd, dm)
        BY <3>7, <3>9, SentConcat, ZenonT(60)
      <4> QED BY <2>2, <3>10, <4>1, <4>2, SentConcat DEF fd
    <3>12. SentTo(fd, dm) \in Seq(Words)
      BY <3>9, SentTyped
    <3>13. w = AllHandled(y, SentTo(fd, dm))
      <4>1. PICK q \in Seq(Words) : q = SentTo(fd, dm)
        BY <3>12
      <4>2. PICK p \in Seq(Words) : p = <<m1, m2>>
        <5>1. <<m1, m2>> \in Seq(Words)
          BY <3>5
        <5> QED BY <5>1
      <4>3. PICK o \in Seq(Words) : o = <<taken>>
        <5>1. <<taken>> \in Seq(Words)
          BY <2>3
        <5> QED BY <5>1
      <4>4. p \o q \in Seq(Words)
        OBVIOUS
      <4>5. AllHandled(v, o \o (p \o q)) = AllHandled(u, p \o q)
        BY <2>5, <4>3, <4>4, HandledConcat
      <4>6. AllHandled(u, p \o q) = AllHandled(y, q)
        BY <2>4, <4>2, HandledConcat
      <4> HIDE DEF y
      <4> QED BY <3>11, <4>1, <4>2, <4>3, <4>5, <4>6 DEF fd
    <3> HIDE DEF y
    <3>14. CASE Tail(deals) = <<>>
      <4>1. w = y
        <5>1. dm = <<>> /\ SentTo(fd, <<>>) = <<>>
          BY <3>14, SentNone DEF dm
        <5> QED BY <3>6, <3>13, <5>1, HandledNone
      <4>2. trick' = NoTrick /\ hands' = HandsWithout(card) /\ deals' = <<>>
        BY <2>7, <3>1, <3>14 DEF FinishDeal
      <4>3. hands'[s] = {} /\ InPlay(s)' = {} /\ trick'.number = 0
        BY <3>2, <4>2 DEF InPlay, TrickOngoing, NoTrick
      <4> QED BY <3>6, <4>1, <4>2, <4>3 DEF Right
    <3>15. CASE Tail(deals) # <<>>
      <4> DEFINE d == Head(Tail(deals))
                 m3 == MsgDeal(d, s)
      <4>1. w = Handled(y, m3)
        <5>1. SentTo(fd, dm) = <<m3>> /\ m3 \in Words
          BY <3>8, <3>15, DealMsgsReach, DealIsMessage DEF dm, Words, fd
        <5> HIDE DEF m3
        <5> QED BY <3>6, <3>13, <5>1, HandledOne
      <4>2. w.cards = d.hands[s] /\ w.next = 1 /\ w.points = 0
        <5> HIDE DEF d
        <5> QED BY <3>6, <4>1 DEF Handled, CardsAfter, NumberAfter, PointMessagesAfter, MsgDeal
      <4>3. /\ trick' = FirstTrick(d) /\ hands' = HandsDealt(HandsWithout(card), d)
        BY <2>7, <3>1, <3>15 DEF FinishDeal
      <4>4. hands'[s] = d.hands[s]
        BY <3>2, <4>3 DEF HandsDealt
      <4>5. trick'.number = 1 /\ trick'.cards = <<>>
        BY <4>3 DEF FirstTrick
      <4>6. InPlay(s)' = {}
        BY <4>5 DEF InPlay, CardsOf
      <4> HIDE DEF d, m3
      <4> QED BY <4>2, <4>4, <4>5, <4>6 DEF Right
    <3> QED BY <3>14, <3>15
  <2> QED BY <1>6, <2>6, <2>7 DEF PlayCard, ContinueTrick
<1> QED BY <1>5, <1>6 DEF PlayCard, FinishTrick, FinishDeal, CompletesDeal

-----------------------------------------------------------------------------
(* The inductive invariant of the program.  A process has its seat from the *)
(* moment the server has taken it in and given it one, and waits for one    *)
(* from the moment it connects; poll reports a connection before the server *)
(* knows of it.                                                             *)
AtTable(c) == fdOf[c] \in Players /\ ~ (pc = "apply" /\ fdOf[c] = updateData.opened)
Waiting(c) == \/ fdOf[c] \in Candidates
              \/ pc = "apply" /\ fdOf[c] = updateData.opened /\ fdOf[c] # NoFd
              \/ fdOf[c] = NoFd /\ link[c] = "open"

(* The ends of a connection: a descriptor has one process, the store holds   *)
(* what has one, and after poll nothing is left to be written.               *)
Wired ==
    /\ fdOf \in [Clients -> Fds \cup {NoFd}]
    /\ \A c, d \in Clients : fdOf[c] = fdOf[d] /\ fdOf[c] # NoFd => c = d
    /\ \A c \in Clients : fdOf[c] # NoFd => fdOf[c] \in InStore
    /\ sending = IF pc = "poll" THEN Addressed(updateData) ELSE {}
    /\ pc = "close" \/ Stopped => receiving = {}

ClientTypes ==
    /\ seat \in [Clients -> Seats \cup {NoSeat}]
    /\ status \in [Clients -> {"off", "up"} \cup Endings]
    /\ link \in [Clients -> {"none", "open", "closed"}]
    /\ cards \in [Clients -> SUBSET Card]
    /\ nextTrickNumber \in [Clients -> 0 .. LastTrick]
    /\ nPointMessagesReceived \in [Clients -> Nat]
    /\ nDeals \in [Clients -> Nat]
    /\ down \in [Clients -> Seq(Words)]
    /\ up \in [Clients -> Seq(ClientMessages)]
    /\ incoming \in [Clients -> Seq(ClientMessages)]

(* A process and its ends of the connection.                                *)
LivingAt(c) ==
    /\ status[c] # "up" => cards[c] = {} /\ down[c] = <<>>
    /\ status[c] = "off" => fdOf[c] = NoFd
    /\ link[c] = "open" => status[c] = "up" /\ ~Stopped
    /\ status[c] = "up" /\ fdOf[c] # NoFd => link[c] = "open"
    /\ fdOf[c] = NoFd => incoming[c] = <<>>
Living == ClientTypes /\ \A c \in Clients : LivingAt(c)

(* Players say nothing but TRICK, the others one IAM at most: so nobody is   *)
(* closed for what it says.  Batch is what poll has reported and Update has  *)
(* not gone through.                                                         *)
Batch    == IF pc = "apply" THEN updateData.msgs
            ELSE IF pc = "dispatch" THEN inbox ELSE <<>>
Speakers == {Batch[i].fd : i \in DOMAIN Batch}
CardsOnly(q) == \A i \in DOMAIN q : q[i].content.type = "TRICK"
SaidBy(c) ==
    /\ AtTable(c) => \A i \in DOMAIN Unread(c) : Unread(c)[i].type = "TRICK"
    /\ Waiting(c) => /\ Len(Unread(c)) <= 1
                     /\ fdOf[c] \in Speakers => Unread(c) = <<>>
Heard ==
    /\ \A i, j \in DOMAIN Batch : Batch[i].fd = Batch[j].fd => i = j
    /\ \A i \in DOMAIN Batch :
          Batch[i].fd \in Players => Batch[i].content.type = "TRICK"
    /\ CardsOnly(playerMessages)
    /\ pc = "handle" => CardsOnly(inbox)
Said == Heard /\ \A c \in Clients : SaidBy(c)

(* Who has a seat is told what is right for it, who waits for one nothing;   *)
(* who has neither was told all of the game or no deal.  After an error or   *)
(* a crash this is void.                                                     *)
Finished(v) == v.points = 2 \/ (v.points = 0 /\ v.dealt = 0)
InTouch(c) ==
    /\ status[c] = "up" =>
          /\ AtTable(c) => Right(playerMap[fdOf[c]], Told(c))
          /\ Waiting(c) => Members(c) = Blank /\ OnTheWay(c) = <<>>
          /\ ~AtTable(c) => Finished(Told(c))
    /\ status[c] = "premature" => Members(c).dealt = 0
AllInTouch == pc \notin {"error", "crash"} => \A c \in Clients : InTouch(c)

(* When the game is over the server has nothing to say but BUSY.            *)
IdleMessage == {m \in Message : m.content \in Idle}
Hushed == pc = "dispatch" /\ ~TrickOngoing => Out \in Seq(IdleMessage)

ProtocolInv == ServerInv /\ Apart /\ Wired /\ Living /\ Said /\ AllInTouch /\ Hushed

(* What a process has read and what is on its way are well formed.          *)
LEMMA ToldTyped ==
  ASSUME ClientTypes, updateData \in Updates, NEW c \in Clients
  PROVE  /\ Members(c) \in View /\ down[c] \in Seq(Words)
         /\ Written(c) \in Seq(Words) /\ HandedOver(c) \in Seq(Words)
         /\ OnTheWay(c) \in Seq(Words) /\ Told(c) \in View
<1>1. Members(c) \in View
  BY DEF ClientTypes, Members, View
<1>2. down[c] \in Seq(Words)
  BY DEF ClientTypes
<1>3. updateData.msgs \in Seq(Message)
  BY DEF Updates
<1>4. Written(c) \in Seq(Words)
  BY <1>3, SentTyped DEF Written
<1>5. HandedOver(c) \in Seq(Words)
  BY <1>4 DEF HandedOver
<1>6. OnTheWay(c) \in Seq(Words)
  BY <1>2, <1>5 DEF OnTheWay
<1>7. Told(c) \in View
  BY <1>1, <1>6, HandledConcat DEF Told
<1> QED BY <1>1, <1>2, <1>4, <1>5, <1>6, <1>7

(* Nothing is written where nothing is addressed to; NoFd is no address.    *)
LEMMA NotWritten ==
  ASSUME updateData \in Updates, NEW c \in Clients
  PROVE  /\ Addressed(updateData) \subseteq Fds
         /\ fdOf[c] \notin Addressed(updateData) => Written(c) = <<>>
<1>1. updateData.msgs \in Seq(Message)
  BY DEF Updates
<1>2. PICK msgs \in Seq(Message) : msgs = updateData.msgs
  BY <1>1
<1>3. \A i \in DOMAIN msgs : msgs[i].fd \in Fds
  <2>1. \A i \in DOMAIN msgs : msgs[i] \in Message
    OBVIOUS
  <2> QED BY <2>1 DEF Message
<1>4. Addressed(updateData) = {msgs[i].fd : i \in DOMAIN msgs}
  BY <1>2 DEF Addressed
<1>5. fdOf[c] \notin Addressed(updateData) => SentTo(fdOf[c], msgs) = <<>>
  BY <1>4, SentToOthers
<1> QED BY <1>2, <1>3, <1>4, <1>5 DEF Written

(* A step of the server that leaves the store alone closes no connection.   *)
LEMMA NobodyCut ==
  ASSUME Wired, Living, ServerGoesOn, ~Stopped', UNCHANGED store
  PROVE  UNCHANGED <<clientVars, network>>
<1>1. HeldBy(Fds \ InStore') = {}
  <2>1. InStore' = InStore
    BY DEF store, InStore
  <2>2. \A c \in Clients : fdOf[c] \notin Fds \ InStore'
    BY <2>1, FdsAssumption DEF Wired
  <2> QED BY <2>2 DEF HeldBy
<1>2. Cut({}) /\ UNCHANGED <<seat, status, members, down>>
  BY <1>1 DEF ServerGoesOn
<1>3. fdOf' = fdOf /\ incoming' = incoming /\ up' = up /\ link' = link
  BY <1>2 DEF Cut, Wired, Living, ClientTypes
<1> QED BY <1>2, <1>3 DEF clientVars, network

(* Between two calls of the store connections and processes stay as they    *)
(* are.                                                                     *)
LEMMA WiresStay ==
  ASSUME Wired, Living, UNCHANGED <<clientVars, network, store>>,
         pc # "poll", pc' \notin {"poll", "close"}, ~Stopped'
  PROVE  Wired' /\ Living'
<1>1. /\ UNCHANGED <<seat, status, link, cards, nextTrickNumber, nPointMessagesReceived, nDeals>>
      /\ UNCHANGED <<down, up, fdOf, incoming, receiving, sending>>
  BY DEF clientVars, members, network, store
<1>2. InStore' = InStore
  BY <1>1 DEF InStore
<1>3. Wired'
  BY <1>1, <1>2 DEF Wired
<1>4. ASSUME NEW c \in Clients PROVE LivingAt(c)'
  <2>1. LivingAt(c)
    BY DEF Living
  <2> QED BY <1>1, <2>1 DEF LivingAt
<1>5. ClientTypes'
  BY <1>1 DEF Living, ClientTypes
<1> QED BY <1>3, <1>4, <1>5 DEF Living

(* What is added to the messages of the server is added to what its         *)
(* processes are told.                                                      *)
LEMMA ToldMore ==
  ASSUME ClientTypes, UNCHANGED <<clientVars, network>>, updateData \in Updates,
         Between, Between', NEW out \in Seq(Message), Out' = Out \o out, NEW c \in Clients
  PROVE  /\ Members(c)' = Members(c)
         /\ OnTheWay(c)' = OnTheWay(c) \o SentTo(fdOf[c], out)
         /\ Told(c)' = AllHandled(Told(c), SentTo(fdOf[c], out))
<1>1. Members(c)' = Members(c) /\ down' = down /\ fdOf' = fdOf
  BY DEF clientVars, members, network, Members
<1>2. PICK msgs \in Seq(Message) : msgs = updateData.msgs
  BY DEF Updates
<1>3. updateData'.msgs = msgs \o out
  BY <1>2 DEF Out
<1>4. Written(c)' = Written(c) \o SentTo(fdOf[c], out)
  <2>1. Written(c)' = SentTo(fdOf[c], msgs \o out)
    BY <1>1, <1>3 DEF Written
  <2> QED BY <1>2, <2>1, SentConcat DEF Written
<1>5. HandedOver(c) = Written(c) /\ HandedOver(c)' = Written(c)'
  BY DEF HandedOver
<1>6. PICK p \in Seq(Words) : p = SentTo(fdOf[c], out)
  BY SentTyped
<1>7. OnTheWay(c)' = OnTheWay(c) \o p
  <2>1. down[c] \in Seq(Words) /\ Written(c) \in Seq(Words)
    BY ToldTyped
  <2>2. OnTheWay(c)' = down[c] \o (Written(c) \o p)
    BY <1>1, <1>4, <1>5, <1>6 DEF OnTheWay
  <2>3. down[c] \o (Written(c) \o p) = (down[c] \o Written(c)) \o p
    <3>1. PICK a \in Seq(Words), b \in Seq(Words) : a = down[c] /\ b = Written(c)
      BY <2>1
    <3>2. a \o (b \o p) = (a \o b) \o p
      BY SMTT(30)
    <3> QED BY <3>1, <3>2
  <2> QED BY <1>5, <2>2, <2>3 DEF OnTheWay
<1>8. Told(c)' = AllHandled(Told(c), p)
  <2>1. Told(c)' = AllHandled(Members(c), OnTheWay(c) \o p)
    BY <1>1, <1>7 DEF Told
  <2>2. Members(c) \in View /\ OnTheWay(c) \in Seq(Words)
    BY ToldTyped
  <2> QED BY <1>6, <2>1, <2>2, HandledConcat DEF Told
<1> QED BY <1>1, <1>6, <1>7, <1>8

(* The server closes connections.                                           *)
LEMMA WiresCut ==
  ASSUME Wired, Living, NEW gone \in SUBSET Clients, Cut(gone),
         UNCHANGED <<seat, status, members, down>>,
         \A c \in Clients \ gone : fdOf[c] # NoFd => fdOf[c] \in InStore',
         sending' = IF pc' = "poll" THEN Addressed(updateData') ELSE {},
         pc' = "close" \/ Stopped' => receiving' = {},
         Stopped' => \A c \in Clients : link[c] = "open" => c \in gone
  PROVE  /\ Wired' /\ Living'
         /\ \A c \in gone : fdOf'[c] = NoFd /\ link'[c] # "open" /\ up'[c] = <<>>
                              /\ incoming'[c] = <<>>
         /\ \A c \in Clients \ gone :
               /\ fdOf'[c] = fdOf[c] /\ link'[c] = link[c]
               /\ up'[c] = up[c] /\ incoming'[c] = incoming[c]
<1>1. /\ \A c \in gone : fdOf'[c] = NoFd /\ incoming'[c] = <<>> /\ up'[c] = <<>>
      /\ \A c \in gone : link'[c] = IF link[c] = "open" THEN "closed" ELSE link[c]
      /\ \A c \in Clients \ gone :
            /\ fdOf'[c] = fdOf[c] /\ link'[c] = link[c]
            /\ up'[c] = up[c] /\ incoming'[c] = incoming[c]
  BY DEF Cut
<1>2. /\ UNCHANGED <<seat, status, cards, nextTrickNumber, nPointMessagesReceived, nDeals, down>>
      /\ ClientTypes
  BY DEF members, Living
<1>3. ClientTypes'
  <2>1. /\ link' \in [Clients -> {"none", "open", "closed"}]
        /\ up' \in [Clients -> Seq(ClientMessages)]
        /\ incoming' \in [Clients -> Seq(ClientMessages)]
    BY <1>2 DEF Cut, ClientTypes
  <2> QED BY <1>2, <2>1 DEF ClientTypes
<1>4. ASSUME NEW c \in Clients PROVE LivingAt(c)'
  <2>1. LivingAt(c)
    BY DEF Living
  <2>2. CASE c \in gone
    BY <1>1, <1>2, <2>1, <2>2 DEF LivingAt
  <2>3. CASE c \notin gone
    <3>1. fdOf'[c] = fdOf[c] /\ link'[c] = link[c] /\ incoming'[c] = incoming[c]
      BY <1>1, <2>3
    <3>2. link[c] = "open" => ~Stopped'
      BY <2>3
    <3> QED BY <1>2, <2>1, <3>1, <3>2 DEF LivingAt
  <2> QED BY <2>2, <2>3
<1>5. Wired'
  <2>1. fdOf' \in [Clients -> Fds \cup {NoFd}]
    BY DEF Cut, Wired
  <2>2. \A c, d \in Clients : fdOf'[c] = fdOf'[d] /\ fdOf'[c] # NoFd => c = d
    BY <1>1 DEF Wired
  <2>3. \A c \in Clients : fdOf'[c] # NoFd => fdOf'[c] \in InStore'
    BY <1>1
  <2> QED BY <2>1, <2>2, <2>3 DEF Wired
<1>6. \A c \in gone : link'[c] # "open"
  BY <1>1
<1> QED BY <1>1, <1>3, <1>4, <1>5, <1>6 DEF Living

(* With the process of the server all connections end.                      *)
LEMMA WiresStop ==
  ASSUME Wired, Living, ServerGoesOn, NEW how \in {"done", "error", "crash"}, Stop(how)
  PROVE  /\ Wired' /\ Living'
         /\ \A c \in Clients : fdOf'[c] = NoFd /\ link'[c] # "open"
<1> DEFINE gone == {c \in Clients : link[c] = "open"} \cup HeldBy(Fds)
<1>1. Stopped' /\ pc' # "poll" /\ receiving' = {} /\ sending' = {}
  BY DEF Stop, Stopped
<1>2. gone \in SUBSET Clients /\ Cut(gone) /\ UNCHANGED <<seat, status, members, down>>
  BY <1>1 DEF ServerGoesOn, HeldBy
<1>3. \A c \in Clients : fdOf[c] # NoFd => c \in gone
  BY DEF HeldBy, Wired
<1>4. \A c \in Clients : link[c] = "open" => c \in gone
  OBVIOUS
<1> HIDE DEF gone
<1>5. /\ Wired' /\ Living'
      /\ \A c \in gone : fdOf'[c] = NoFd /\ link'[c] # "open"
      /\ \A c \in Clients \ gone : fdOf'[c] = fdOf[c] /\ link'[c] = link[c]
  BY <1>1, <1>2, <1>3, <1>4, WiresCut
<1> QED BY <1>3, <1>4, <1>5

(* After the game the store closes everything that is connected; the        *)
(* connections not yet accepted wait on.                                    *)
LEMMA WiresClose ==
  ASSUME Wired, Living, ServerGoesOn, CloseStore
  PROVE  /\ Wired' /\ Living'
         /\ \A c \in Clients : /\ fdOf'[c] = NoFd
                               /\ link'[c] = "open" => fdOf[c] = NoFd /\ link[c] = "open"
                               /\ fdOf[c] = NoFd => up'[c] = up[c] /\ incoming'[c] = incoming[c]
<1>1. /\ pc' = "close" /\ ~Stopped' /\ pc = "dispatch"
      /\ receiving' = {} /\ sending' = sending /\ sending = {}
  BY DEF CloseStore, StopAll, Stopped, Wired
<1> DEFINE gone == HeldBy(Fds \ InStore')
<1>2. gone = HeldBy(Fds)
  BY <1>1 DEF InStore
<1>3. gone \in SUBSET Clients /\ Cut(gone) /\ UNCHANGED <<seat, status, members, down>>
  BY <1>1 DEF ServerGoesOn, HeldBy
<1>4. \A c \in Clients : fdOf[c] # NoFd <=> c \in gone
  BY <1>2, FdsAssumption DEF HeldBy, Wired
<1> HIDE DEF gone
<1>5. /\ Wired' /\ Living'
      /\ \A c \in gone : fdOf'[c] = NoFd /\ link'[c] # "open"
      /\ \A c \in Clients \ gone : /\ fdOf'[c] = fdOf[c] /\ link'[c] = link[c]
                                   /\ up'[c] = up[c] /\ incoming'[c] = incoming[c]
  BY <1>1, <1>3, <1>4, WiresCut
<1> QED BY <1>4, <1>5

(* Before poll: the connections the server closes are gone unless something  *)
(* is still to be written to them.                                          *)
LEMMA WiresPrePoll ==
  ASSUME Wired, Living, Seated, Queued, Exchanged, ServerGoesOn, PrePoll
  PROVE  /\ Wired' /\ Living' /\ pc' = "poll" /\ Out' = Out /\ Players' = Players
         /\ updateData' \in Updates
         /\ UNCHANGED <<tableVars, playerMap>> /\ Candidates' \subseteq Candidates
         /\ \A c \in Clients :
               \/ fdOf'[c] = NoFd /\ link'[c] # "open"
                    /\ fdOf[c] \notin Addressed(updateData) /\ fdOf[c] \notin Players
               \/ fdOf'[c] = fdOf[c] /\ link'[c] = link[c]
                    /\ up'[c] = up[c] /\ incoming'[c] = incoming[c]
<1> DEFINE od   == OverdueCandidates
           data == [updateData EXCEPT !.closed = @ \o od]
           gone == HeldBy(Fds \ InStore')
<1>1. RightStep /\ pc = "update"
  BY PrePollKeeps DEF PrePoll
<1>2. pc' # "error"
  BY <1>1 DEF RightStep, RightError
<1>3. /\ PopConnections(od) /\ HandOver(data) /\ pc' = "poll"
      /\ UNCHANGED tableVars
  BY <1>2 DEF PrePoll, Stop
<1>4. od \in Seq(Fds) /\ ToSet(od) \subseteq Candidates
  BY OverdueAmong DEF Seated
<1>5. Candidates \cap Players = {}
  BY DEF Seated, SeatsConsistent
<1>6. playerMap' = playerMap
  <2>1. playerMap' = [fd \in Players |-> playerMap[fd]]
    BY <1>3, <1>4, <1>5 DEF PopConnections, PlayersWithout
  <2> QED BY <2>1 DEF Seated
<1>7. Candidates' \subseteq Candidates
  BY <1>3, <1>4, PopConnectionsSeated
<1>8. /\ updateData' \in Updates /\ updateData'.msgs = updateData.msgs
      /\ Addressed(updateData') = Addressed(updateData)
      /\ updateData'.closed = updateData.closed \o od
  <2>1. updateData' \in Updates /\ updateData \in Updates
    BY <1>1 DEF RightStep, Exchanged
  <2>2. updateData' = data
    BY <1>3 DEF HandOver
  <2> QED BY <2>1, <2>2 DEF Addressed, Updates
<1>9. /\ sending = {} /\ sending' = Addressed(updateData)
      /\ receiving' = receiving \ ToSet(updateData'.closed)
  <2>1. sending = {}
    BY <1>1 DEF Wired
  <2>2. updateData' = data
    BY <1>3 DEF HandOver
  <2>3. Addressed(data) = Addressed(updateData)
    BY <1>8, <2>2
  <2> QED BY <1>3, <2>1, <2>2, <2>3 DEF HandOver
<1>10. Players \subseteq receiving'
  <2>1. StoreAgrees' /\ Players' = Players
    BY <1>1, <1>6 DEF RightStep, Exchanged, Players
  <2> QED BY <1>3, <2>1 DEF StoreAgrees
<1>11. ~Stopped'
  BY <1>3 DEF Stopped
<1>12. gone \in SUBSET Clients /\ Cut(gone) /\ UNCHANGED <<seat, status, members, down>>
  BY <1>11 DEF ServerGoesOn, HeldBy
<1>13. \A c \in Clients \ gone : fdOf[c] # NoFd => fdOf[c] \in InStore'
  BY DEF HeldBy, Wired
<1>14. \A c \in gone : fdOf[c] \notin InStore'
  BY DEF HeldBy
<1> HIDE DEF gone, od, data
<1>15. /\ Wired' /\ Living'
       /\ \A c \in gone : fdOf'[c] = NoFd /\ link'[c] # "open"
       /\ \A c \in Clients \ gone : /\ fdOf'[c] = fdOf[c] /\ link'[c] = link[c]
                                    /\ up'[c] = up[c] /\ incoming'[c] = incoming[c]
  BY <1>3, <1>8, <1>9, <1>11, <1>12, <1>13, WiresCut
<1>16. \A c \in gone : fdOf[c] \notin Addressed(updateData) /\ fdOf[c] \notin Players
  BY <1>9, <1>10, <1>14 DEF InStore
<1> QED BY <1>3, <1>6, <1>7, <1>8, <1>15, <1>16 DEF Out, Players

-----------------------------------------------------------------------------
(* What poll reports makes of the connection of a process: it is accepted,  *)
(* or it has none and is not, or it is lost, or it stays and a message of   *)
(* it may have been taken.                                                  *)
Stay == receiving \ ToSet(updateData'.closed)
SameEnds(c) == link'[c] = link[c] /\ incoming'[c] = incoming[c] /\ up'[c] = up[c]
Accepted(c) ==
    /\ fdOf[c] = NoFd /\ link[c] = "open"
    /\ fdOf'[c] = updateData'.opened /\ fdOf'[c] # NoFd
    /\ SameEnds(c)
Unnoticed(c) == fdOf[c] = NoFd /\ fdOf'[c] = NoFd /\ SameEnds(c)
Dropped(c) ==
    /\ fdOf[c] # NoFd /\ fdOf[c] \notin Stay
    /\ fdOf[c] \in receiving => status[c] # "up"
    /\ fdOf'[c] = NoFd /\ link'[c] # "open"
    /\ incoming'[c] = <<>> /\ up'[c] = <<>>
Polled(c) ==
    /\ fdOf[c] \in Stay /\ fdOf'[c] = fdOf[c] /\ link'[c] = link[c]
    /\ \/ SameEnds(c) /\ fdOf[c] \notin Addressed(updateData')
       \/ up[c] # <<>> /\ incoming'[c] = Tail(Unread(c)) /\ up'[c] = <<>>

(* The messages reported: of connections that stay, one each.               *)
OneEach ==
    /\ \A i \in DOMAIN Out' : \E c \in Clients :
          fdOf[c] \in Stay /\ up[c] # <<>> /\ Out'[i] = Popped(c)
    /\ \A i, j \in DOMAIN Out' : Out'[i].fd = Out'[j].fd => i = j

(* The processes poll reads from, in any order.                             *)
LEMMA SendersInOrder ==
  ASSUME Wired, Living, receiving \subseteq Fds, NEW order, order \in SetToSeqs(Senders),
         NEW msgs, msgs = [i \in DOMAIN order |-> Popped(order[i])]
  PROVE  /\ msgs \in Seq(Message)
         /\ \A i \in DOMAIN msgs : \E c \in Senders : msgs[i] = Popped(c)
         /\ \A c \in Senders : \E i \in DOMAIN msgs : msgs[i] = Popped(c)
         /\ \A i, j \in DOMAIN msgs : msgs[i].fd = msgs[j].fd => i = j
<1>1. \A c \in Senders : c \in Clients /\ fdOf[c] \in Fds /\ up[c] # <<>>
  BY DEF Senders, HeldBy
<1>2. \A c, d \in Senders : fdOf[c] = fdOf[d] => c = d
  BY <1>1, FdsAssumption DEF Wired
<1>3. IsFiniteSet(Senders)
  <2> DEFINE f == [c \in Senders |-> fdOf[c]]
  <2>1. f \in Injection(Senders, Fds)
    BY <1>1, <1>2 DEF Injection, IsInjective
  <2> HIDE DEF f
  <2> QED BY <2>1, FdsAssumption, FS_Injection
<1>4. PICK n \in Nat : n = Cardinality(Senders)
  BY <1>3, FS_CardinalityType
<1>5. /\ order \in [1 .. n -> Senders]
      /\ \A i, j \in 1 .. n : i # j => order[i] # order[j]
  BY <1>4 DEF SetToSeqs
<1>6. ASSUME NEW c \in Senders PROVE Popped(c) \in Message /\ Popped(c).fd = fdOf[c]
  <2>1. PICK a \in Seq(ClientMessages), b \in Seq(ClientMessages) :
           a = incoming[c] /\ b = up[c] /\ b # <<>>
    BY <1>1 DEF Living, ClientTypes
  <2>2. a \o b \in Seq(ClientMessages) /\ a \o b # <<>>
    BY <2>1
  <2>3. Head(a \o b) \in ClientMessages
    BY <2>2
  <2> QED BY <1>1, <2>1, <2>3 DEF Popped, Unread, To, Message
<1>7. DOMAIN msgs = 1 .. n /\ \A i \in 1 .. n : msgs[i] = Popped(order[i]) /\ order[i] \in Senders
  BY <1>5
<1>8. msgs \in Seq(Message)
  <2>1. msgs \in [1 .. n -> Message]
    BY <1>6, <1>7
  <2> QED BY <2>1
<1>9. \A i, j \in 1 .. n : msgs[i].fd = msgs[j].fd => i = j
  <2> SUFFICES ASSUME NEW i \in 1 .. n, NEW j \in 1 .. n, msgs[i].fd = msgs[j].fd
               PROVE  i = j
    OBVIOUS
  <2>1. fdOf[order[i]] = fdOf[order[j]]
    BY <1>6, <1>7
  <2>2. order[i] = order[j]
    BY <1>2, <1>7, <2>1
  <2> QED BY <1>5, <2>2
<1>10. ASSUME NEW c \in Senders PROVE \E i \in 1 .. n : order[i] = c
  <2>1. PICK b : b \in Bijection(1 .. n, Senders)
    BY <1>3, <1>4, FS_CardinalityType DEF ExistsBijection
  <2>2. order \in Injection(1 .. n, Senders)
    BY <1>5 DEF Injection, IsInjective
  <2>3. IsFiniteSet(1 .. n) /\ Cardinality(1 .. n) = n
    BY FS_Interval
  <2>4. order \in Surjection(1 .. n, Senders)
    BY <1>3, <1>4, <2>2, <2>3, FS_Injection
  <2> QED BY <2>4 DEF Surjection
<1> QED BY <1>7, <1>8, <1>9, <1>10

(* poll returns: each process was accepted, goes unnoticed, is lost or      *)
(* was read from, and is told what it was about to be.                      *)
LEMMA ReportTells ==
  ASSUME Wired, Living, Seated, Queued, Exchanged, PollReports
  PROVE  /\ RightStep
         /\ pc = "poll" /\ pc' = "apply" /\ sending' = {}
         /\ UNCHANGED <<tableVars, seating, playerMessages>>
         /\ receiving' = Stay \cup ({updateData'.opened} \ {NoFd})
         /\ updateData'.opened \notin Stay
         /\ OneEach /\ ClientTypes'
         /\ \A c \in Clients : Accepted(c) \/ Unnoticed(c) \/ Dropped(c) \/ Polled(c)
<1>1. /\ PollReturns /\ pc = "poll" /\ pc' = "apply"
      /\ UNCHANGED <<tableVars, seating, playerMessages>>
  BY DEF PollReports, PollReturns
<1> DEFINE gone   == {fdOf[c] : c \in Leavers}
           cut    == HeldBy(Fds \ (InStore' \ {updateData'.opened}))
           Changes(new) ==
               /\ fdOf' = [c \in Clients |-> IF c \in new THEN updateData'.opened
                                             ELSE IF c \in cut THEN NoFd ELSE fdOf[c]]
               /\ incoming' = [c \in Clients |->
                                  IF c \in cut THEN <<>>
                                  ELSE IF c \in Senders THEN Tail(Unread(c))
                                  ELSE incoming[c]]
               /\ up' = [c \in Clients |-> IF c \in Senders \cup cut THEN <<>> ELSE up[c]]
               /\ link' = [c \in Clients |-> IF c \in cut /\ link[c] = "open"
                                             THEN "closed" ELSE link[c]]
<1>2. PICK order \in SetToSeqs(Senders),
           new \in IF Backlog = {} THEN {{}} ELSE {{c} : c \in Backlog} :
         /\ ReportOf([i \in DOMAIN order |-> Popped(order[i])], gone,
                     sending \ gone, new # {})
         /\ Changes(new)
  BY DEF PollReports
<1>3. new \subseteq Backlog
  BY <1>2
<1>4. PICK msgs : msgs = [i \in DOMAIN order |-> Popped(order[i])]
  OBVIOUS
<1>5. receiving \subseteq Fds /\ sending \subseteq Fds
  BY DEF Exchanged
<1>6. /\ msgs \in Seq(Message)
      /\ \A i \in DOMAIN msgs : \E c \in Senders : msgs[i] = Popped(c)
      /\ \A c \in Senders : \E i \in DOMAIN msgs : msgs[i] = Popped(c)
      /\ \A i, j \in DOMAIN msgs : msgs[i].fd = msgs[j].fd => i = j
  BY <1>2, <1>4, <1>5, SendersInOrder
<1>7. gone \in SUBSET Fds
  BY <1>5 DEF Leavers, HeldBy
<1>8. PICK connects \in BOOLEAN : connects <=> new # {}
  OBVIOUS
<1> HIDE DEF gone, Changes
<1>9. ReportOf(msgs, gone, sending \ gone, connects)
  BY <1>2, <1>4, <1>8
<1>10. /\ RightStep
       /\ updateData'.msgs = msgs /\ ToSet(updateData'.closed) = gone
       /\ sending' = sending \ ((sending \ gone) \cup gone)
       /\ receiving' = (receiving \ gone) \cup ({updateData'.opened} \ {NoFd})
       /\ updateData'.opened \in Fds \cup {NoFd}
       /\ updateData'.opened # NoFd <=> connects
       /\ updateData'.opened \notin (receiving \ gone) \cup sending'
  BY <1>1, <1>6, <1>7, <1>9, ReportKeeps
<1>11. /\ sending' = {} /\ Stay = receiving \ gone
       /\ receiving' = Stay \cup ({updateData'.opened} \ {NoFd})
       /\ updateData'.opened \notin Stay
  <2>1. PICK G, N : G = gone /\ N = {updateData'.opened} \ {NoFd}
    OBVIOUS
  <2>2. sending' = sending \ ((sending \ G) \cup G) /\ receiving' = (receiving \ G) \cup N
    BY <1>10, <2>1
  <2>3. sending' = {}
    BY ONLY <2>2
  <2>4. updateData'.opened \notin receiving \ G
    BY <1>10, <2>1
  <2>5. Stay = receiving \ G
    <3>1. Stay = receiving \ gone
      BY <1>10 DEF Stay
    <3> QED BY ONLY <3>1, <2>1
  <2> QED BY <2>1, <2>2, <2>3, <2>4, <2>5
<1>12. InStore' \ {updateData'.opened} = Stay
  <2>1. NoFd \notin Stay
    BY <1>5, FdsAssumption DEF Stay
  <2> QED BY <1>11, <2>1 DEF InStore
<1>13. PICK out : out = cut
  OBVIOUS
<1>14. /\ \A c \in Clients : c \in out <=> fdOf[c] # NoFd /\ fdOf[c] \notin Stay
       /\ Changes(new) <=> 
               /\ fdOf' = [c \in Clients |-> IF c \in new THEN updateData'.opened
                                             ELSE IF c \in out THEN NoFd ELSE fdOf[c]]
               /\ incoming' = [c \in Clients |->
                                  IF c \in out THEN <<>>
                                  ELSE IF c \in Senders THEN Tail(Unread(c))
                                  ELSE incoming[c]]
               /\ up' = [c \in Clients |-> IF c \in Senders \cup out THEN <<>> ELSE up[c]]
               /\ link' = [c \in Clients |-> IF c \in out /\ link[c] = "open"
                                             THEN "closed" ELSE link[c]]
  <2>1. \A c \in Clients : c \in out <=> fdOf[c] # NoFd /\ fdOf[c] \notin Stay
    BY <1>12, <1>13, FdsAssumption DEF HeldBy, Wired
  <2> QED BY <1>13, <2>1 DEF Changes
<1> HIDE DEF cut
<1>15. /\ fdOf' = [c \in Clients |-> IF c \in new THEN updateData'.opened
                                     ELSE IF c \in out THEN NoFd ELSE fdOf[c]]
       /\ incoming' = [c \in Clients |->
                          IF c \in out THEN <<>>
                          ELSE IF c \in Senders THEN Tail(Unread(c))
                          ELSE incoming[c]]
       /\ up' = [c \in Clients |-> IF c \in Senders \cup out THEN <<>> ELSE up[c]]
       /\ link' = [c \in Clients |-> IF c \in out /\ link[c] = "open"
                                     THEN "closed" ELSE link[c]]
  BY <1>2, <1>14
<1>16. \A c \in Senders : c \in Clients /\ fdOf[c] \in Stay /\ up[c] # <<>>
  <2>1. \A c \in Senders : c \in Clients /\ fdOf[c] \in receiving /\ up[c] # <<>>
    BY DEF Senders, HeldBy
  <2>2. ASSUME NEW c \in Senders, fdOf[c] \in gone PROVE FALSE
    <3>1. PICK d \in Leavers : fdOf[d] = fdOf[c]
      BY <2>2 DEF gone
    <3>2. d \in Clients /\ up[d] = <<>> /\ fdOf[c] # NoFd
      BY <1>5, <2>1, FdsAssumption DEF Leavers, HeldBy
    <3>3. d = c
      BY <2>1, <3>1, <3>2 DEF Wired
    <3> QED BY <2>1, <3>2, <3>3
  <2> QED BY <1>11, <2>1, <2>2
<1>17. OneEach
  <2>1. Out' = msgs
    BY <1>10 DEF Out
  <2>2. \A i \in DOMAIN msgs : \E c \in Clients :
           fdOf[c] \in Stay /\ up[c] # <<>> /\ msgs[i] = Popped(c)
    BY <1>6, <1>16
  <2> QED BY <1>6, <2>1, <2>2 DEF OneEach
<1>18. ASSUME NEW c \in Clients
       PROVE  Accepted(c) \/ Unnoticed(c) \/ Dropped(c) \/ Polled(c)
  <2>1. c \in Senders => fdOf[c] \in Stay /\ up[c] # <<>>
    BY <1>16
  <2>2. c \in out <=> fdOf[c] # NoFd /\ fdOf[c] \notin Stay
    BY <1>14
  <2>3. c \in new => fdOf[c] = NoFd /\ link[c] = "open" /\ updateData'.opened # NoFd
    BY <1>3, <1>8, <1>10 DEF Backlog
  <2>4. NoFd \notin Stay
    BY <1>5, FdsAssumption DEF Stay
  <2>5. CASE c \in new
    BY <1>15, <2>1, <2>2, <2>3, <2>4, <2>5 DEF Accepted, SameEnds
  <2>6. CASE fdOf[c] = NoFd /\ c \notin new
    BY <1>15, <2>1, <2>2, <2>4, <2>6 DEF Unnoticed, SameEnds
  <2>7. CASE c \in out
    <3>1. fdOf[c] \in receiving => status[c] # "up"
      <4>1. fdOf[c] \in receiving => fdOf[c] \in gone
        BY <1>11, <2>2, <2>7
      <4>2. fdOf[c] \in gone => c \in Leavers
        <5>1. \A d \in Leavers : d \in Clients
          BY DEF Leavers, HeldBy
        <5> QED BY <2>2, <2>7, <5>1 DEF gone, Wired
      <4>3. c \in Leavers => status[c] # "up"
        BY DEF Leavers, HasEnded, Endings
      <4> QED BY <4>1, <4>2, <4>3
    <3>2. c \notin new /\ fdOf[c] # NoFd /\ fdOf[c] \notin Stay
      BY <2>2, <2>3, <2>7
    <3>3. fdOf'[c] = NoFd /\ incoming'[c] = <<>> /\ up'[c] = <<>>
      BY <1>15, <2>7, <3>2
    <3>4. link'[c] # "open"
      BY <1>15, <2>7
    <3> QED BY <3>1, <3>2, <3>3, <3>4 DEF Dropped
  <2>8. CASE fdOf[c] # NoFd /\ c \notin out
    <3>1. c \notin new /\ fdOf[c] \in Stay
      BY <2>2, <2>3, <2>8
    <3>2. fdOf'[c] = fdOf[c] /\ link'[c] = link[c]
      BY <1>15, <2>8, <3>1
    <3>3. CASE c \in Senders
      BY <1>15, <2>1, <2>8, <3>1, <3>2, <3>3 DEF Polled
    <3>4. CASE c \notin Senders
      <4>1. fdOf[c] \notin Addressed(updateData')
        <5>1. ASSUME NEW i \in DOMAIN msgs, msgs[i].fd = fdOf[c] PROVE FALSE
          <6>1. PICK d \in Senders : msgs[i] = Popped(d)
            BY <1>6
          <6>2. msgs[i].fd = fdOf[d] /\ d \in Clients
            BY <1>16, <6>1 DEF Popped, To
          <6>3. d = c
            BY <2>8, <5>1, <6>2 DEF Wired
          <6> QED BY <3>4, <6>3
        <5> QED BY <1>10, <5>1 DEF Addressed
      <4>2. SameEnds(c)
        BY <1>15, <2>8, <3>2, <3>4 DEF SameEnds
      <4> QED BY <3>1, <3>2, <4>1, <4>2 DEF Polled
    <3> QED BY <3>3, <3>4
  <2> QED BY <2>5, <2>6, <2>7, <2>8
<1>19. ClientTypes'
  <2>1. \A c \in Senders : Tail(Unread(c)) \in Seq(ClientMessages)
    <3> SUFFICES ASSUME NEW c \in Senders PROVE Tail(Unread(c)) \in Seq(ClientMessages)
      OBVIOUS
    <3>1. PICK a \in Seq(ClientMessages), b \in Seq(ClientMessages) :
             a = incoming[c] /\ b = up[c] /\ b # <<>>
      BY <1>16 DEF Living, ClientTypes
    <3>2. Tail(a \o b) \in Seq(ClientMessages)
      BY <3>1
    <3> QED BY <3>1, <3>2 DEF Unread
  <2>2. \A c \in Clients : /\ incoming[c] \in Seq(ClientMessages)
                           /\ up[c] \in Seq(ClientMessages)
                           /\ link[c] \in {"none", "open", "closed"}
    BY DEF Living, ClientTypes
  <2>3. <<>> \in Seq(ClientMessages)
    OBVIOUS
  <2>4. incoming' \in [Clients -> Seq(ClientMessages)]
    BY <1>15, <2>1, <2>2, <2>3
  <2>5. up' \in [Clients -> Seq(ClientMessages)]
    BY <1>15, <2>2, <2>3
  <2>6. link' \in [Clients -> {"none", "open", "closed"}]
    BY <1>15, <2>2
  <2>7. UNCHANGED <<seat, status, cards, nextTrickNumber, nPointMessagesReceived, nDeals>>
    BY DEF PollReports, members
  <2>8. down' \in [Clients -> Seq(Words)]
    <3>1. \A c \in Clients : down[c] \in Seq(Words) /\ Written(c) \in Seq(Words)
      BY ToldTyped DEF Living, Exchanged
    <3>2. \A c \in Clients : down[c] \o Written(c) \in Seq(Words)
      <4> SUFFICES ASSUME NEW c \in Clients PROVE down[c] \o Written(c) \in Seq(Words)
        OBVIOUS
      <4>1. PICK a \in Seq(Words), b \in Seq(Words) : a = down[c] /\ b = Written(c)
        BY <3>1
      <4>2. a \o b \in Seq(Words)
        OBVIOUS
      <4> QED BY <4>1, <4>2
    <3> QED BY <3>1, <3>2 DEF PollReports
  <2> QED BY <2>4, <2>5, <2>6, <2>7, <2>8 DEF ClientTypes, Living
<1> QED BY <1>1, <1>10, <1>11, <1>17, <1>18, <1>19

-----------------------------------------------------------------------------
(* What a step of a process does to it: it ends, it reads a TRICK or says   *)
(* something, it reads all up to the next TRICK, it starts.                 *)
Own(c) == <<Members(c), status[c], link[c], down[c], up[c]>>
Quits(c) ==
    /\ status[c] = "up" /\ status'[c] \in Endings
    /\ link'[c] = "none" /\ cards'[c] = {} /\ down'[c] = <<>> /\ up'[c] = up[c]
    /\ UNCHANGED <<nextTrickNumber, nPointMessagesReceived, nDeals>>
    /\ status'[c] = "premature" =>
          link[c] = "closed" /\ down[c] = <<>> /\ nPointMessagesReceived[c] # 2
Says(c) ==
    /\ status[c] = "up" /\ status'[c] = "up" /\ link'[c] = link[c]
    /\ UNCHANGED <<cards, nextTrickNumber, nPointMessagesReceived, nDeals>>
    /\ \/ down'[c] = down[c]
       \/ down[c] # <<>> /\ Head(down[c]).type = "TRICK" /\ down'[c] = Tail(down[c])
    /\ \/ up'[c] = up[c]
       \/ nextTrickNumber[c] # 0 /\ \E m \in ClientMessages :
             m.type = "TRICK" /\ up'[c] = Append(up[c], m)
Learns(c) ==
    /\ status[c] = "up" /\ status'[c] = "up" /\ link'[c] = link[c] /\ up'[c] = up[c]
    /\ \E p, q \in Seq(Words) :
          /\ down[c] = p \o q /\ down'[c] = q /\ p # <<>>
          /\ Members(c)' = AllHandled(Members(c), p)
Starts(c) ==
    /\ status[c] # "up" /\ fdOf[c] = NoFd /\ UNCHANGED <<cards, down>>
    /\ \/ /\ ~Stopped /\ status'[c] = "up" /\ link'[c] = "open"
          /\ nextTrickNumber'[c] = 0 /\ nPointMessagesReceived'[c] = 0 /\ nDeals'[c] = 0
          /\ Len(up'[c]) = 1
       \/ /\ status'[c] = "refused" /\ link'[c] = link[c] /\ up'[c] = up[c]
          /\ UNCHANGED <<nextTrickNumber, nPointMessagesReceived, nDeals>>
Moves(c) == Quits(c) \/ Says(c) \/ Learns(c) \/ Starts(c)
OthersStay(c) == \A d \in Clients \ {c} : Own(d)' = Own(d)

(* A process that ends keeps no cards and has no connection.                *)
LEMMA EndsQuits ==
  ASSUME ClientTypes, NEW c \in Clients, status[c] = "up", NEW how \in Endings, Ends(c, how),
         UNCHANGED <<up, incoming>>,
         how = "premature" =>
            link[c] = "closed" /\ down[c] = <<>> /\ nPointMessagesReceived[c] # 2
  PROVE  Quits(c) /\ OthersStay(c) /\ ClientTypes'
<1>1. /\ status' = [status EXCEPT ![c] = how] /\ link' = [link EXCEPT ![c] = "none"]
      /\ cards' = [cards EXCEPT ![c] = {}] /\ down' = [down EXCEPT ![c] = <<>>]
      /\ UNCHANGED <<seat, nextTrickNumber, nPointMessagesReceived, nDeals>>
  BY DEF Ends
<1>2. Quits(c)
  BY <1>1 DEF Quits, ClientTypes
<1>3. OthersStay(c)
  BY <1>1 DEF OthersStay, Own, Members
<1>4. ClientTypes'
  <2>1. \A d \in Clients : down'[d] \in Seq(Words) /\ cards'[d] \in SUBSET Card
    BY <1>1 DEF ClientTypes
  <2>2. DOMAIN down' = Clients /\ DOMAIN cards' = Clients
    BY <1>1 DEF ClientTypes
  <2> QED BY <1>1, <2>1, <2>2 DEF ClientTypes
<1> QED BY <1>2, <1>3, <1>4

(* A process that takes a TRICK, or answers one, keeps the types.           *)
LEMMA SaysTypes ==
  ASSUME ClientTypes, NEW c \in Clients, status[c] = "up",
         UNCHANGED <<seat, status, link, cards, nextTrickNumber, nPointMessagesReceived, nDeals>>,
         UNCHANGED incoming,
         \/ UNCHANGED down
         \/ /\ down[c] # <<>> /\ Head(down[c]).type = "TRICK"
            /\ down' = [down EXCEPT ![c] = Tail(@)],
         \/ UNCHANGED up
         \/ \E m \in ClientMessages : /\ m.type = "TRICK" /\ nextTrickNumber[c] # 0
                                      /\ Writes(c, m)
  PROVE  Says(c) /\ OthersStay(c) /\ ClientTypes'
<1>1. /\ down[c] \in Seq(Words) /\ DOMAIN down = Clients
      /\ up[c] \in Seq(ClientMessages) /\ up \in [Clients -> Seq(ClientMessages)]
  BY DEF ClientTypes
<1>2. /\ \A d \in Clients \ {c} : down'[d] = down[d]
      /\ \/ down'[c] = down[c]
         \/ down[c] # <<>> /\ Head(down[c]).type = "TRICK" /\ down'[c] = Tail(down[c])
      /\ down' \in [Clients -> Seq(Words)]
  <2>1. CASE UNCHANGED down
    BY <2>1 DEF ClientTypes
  <2>2. CASE /\ down[c] # <<>> /\ Head(down[c]).type = "TRICK"
             /\ down' = [down EXCEPT ![c] = Tail(@)]
    <3>1. Tail(down[c]) \in Seq(Words)
      BY <1>1, <2>2
    <3> QED BY <1>1, <2>2, <3>1 DEF ClientTypes
  <2> QED BY <2>1, <2>2
<1>3. /\ \A d \in Clients \ {c} : up'[d] = up[d]
      /\ \/ up'[c] = up[c]
         \/ nextTrickNumber[c] # 0 /\ \E m \in ClientMessages :
               m.type = "TRICK" /\ up'[c] = Append(up[c], m)
      /\ up' \in [Clients -> Seq(ClientMessages)]
  <2>1. CASE UNCHANGED up
    BY <2>1 DEF ClientTypes
  <2>2. CASE \E m \in ClientMessages : /\ m.type = "TRICK" /\ nextTrickNumber[c] # 0
                                       /\ Writes(c, m)
    <3>1. PICK m \in ClientMessages : m.type = "TRICK" /\ nextTrickNumber[c] # 0 /\ Writes(c, m)
      BY <2>2
    <3>2. Append(up[c], m) \in Seq(ClientMessages)
      BY <1>1
    <3>3. up' = up \/ up' = [up EXCEPT ![c] = Append(up[c], m)]
      BY <3>1 DEF Writes
    <3> QED BY <1>1, <3>1, <3>2, <3>3
  <2> QED BY <2>1, <2>2
<1>4. OthersStay(c)
  BY <1>2, <1>3 DEF OthersStay, Own, Members
<1>5. Says(c)
  BY <1>2, <1>3 DEF Says
<1> QED BY <1>2, <1>3, <1>4, <1>5 DEF ClientTypes

(* Reading up to the next TRICK.                                            *)
LEMMA NewsLearns ==
  ASSUME ClientTypes, NEW c \in Clients, TakesNews(c), UNCHANGED incoming
  PROVE  Learns(c) /\ OthersStay(c) /\ ClientTypes'
<1> DEFINE stop == {i \in DOMAIN down[c] : ~IsNews(down[c][i])}
           k == IF stop = {} THEN Len(down[c]) ELSE Min(stop) - 1
<1>1. PICK q \in Seq(Words) : q = down[c]
  BY DEF ClientTypes
<1>2. k \in 0 .. Len(q)
  <2>1. CASE stop = {}
    BY <1>1, <2>1
  <2>2. CASE stop # {}
    <3>1. stop \subseteq Nat /\ stop \subseteq 1 .. Len(q)
      BY <1>1
    <3>2. Min(stop) \in stop
      BY <2>2, <3>1, MinIsMember
    <3>3. Min(stop) \in 1 .. Len(q)
      BY <3>1, <3>2
    <3> HIDE DEF stop
    <3> QED BY <2>2, <3>3
  <2> QED BY <2>1, <2>2
<1>3. News(c) = SubSeq(q, 1, k)
  BY <1>1 DEF News
<1> HIDE DEF k
<1>4. PICK p \in Seq(Words), r \in Seq(Words) :
         /\ p = SubSeq(q, 1, k) /\ Len(p) = k
         /\ r = SubSeq(q, k + 1, Len(q)) /\ q = p \o r
  <2>1. /\ SubSeq(q, 1, k) \in Seq(Words) /\ Len(SubSeq(q, 1, k)) = k
        /\ SubSeq(q, k + 1, Len(q)) \in Seq(Words)
        /\ q = SubSeq(q, 1, k) \o SubSeq(q, k + 1, Len(q))
    BY <1>2, CutInTwo
  <2> QED BY <2>1
<1>5. PICK v \in View : v = AllHandled(Members(c), p)
  BY <1>4, HandledConcat DEF ClientTypes, Members, View
<1>6. /\ p # <<>> /\ status[c] = "up"
      /\ down' = [down EXCEPT ![c] = r]
      /\ cards' = [cards EXCEPT ![c] = v.cards]
      /\ nextTrickNumber' = [nextTrickNumber EXCEPT ![c] = v.next]
      /\ nPointMessagesReceived' = [nPointMessagesReceived EXCEPT ![c] = v.points]
      /\ nDeals' = [nDeals EXCEPT ![c] = v.dealt]
      /\ UNCHANGED <<seat, status, link, up>>
  <2>1. News(c) = p
    BY <1>3, <1>4
  <2>2. SubSeq(down[c], Len(News(c)) + 1, Len(down[c])) = r
    BY <1>1, <1>4, <2>1
  <2> QED BY <1>5, <2>1, <2>2 DEF TakesNews
<1>7. /\ v.cards \in SUBSET Card /\ v.next \in 0 .. LastTrick
      /\ v.points \in Nat /\ v.dealt \in Nat
      /\ v = [cards |-> v.cards, next |-> v.next, points |-> v.points, dealt |-> v.dealt]
  BY DEF View
<1>8. Members(c)' = v /\ down'[c] = r
  BY <1>6, <1>7 DEF ClientTypes, Members
<1>9. Learns(c)
  BY <1>1, <1>4, <1>5, <1>6, <1>8 DEF Learns
<1>10. OthersStay(c)
  BY <1>6 DEF OthersStay, Own, Members
<1>11. ClientTypes'
  BY <1>6, <1>7 DEF ClientTypes
<1> QED BY <1>9, <1>10, <1>11

(* A process that starts has said IAM, or was refused.                      *)
LEMMA StartStarts ==
  ASSUME ClientTypes, NEW c \in Clients, LivingAt(c), Start(c)
  PROVE  Starts(c) /\ OthersStay(c) /\ ClientTypes'
<1>1. status[c] # "up" /\ fdOf[c] = NoFd
  BY DEF Start, CanStart, LivingAt
<1>2. PICK s \in Seats : seat' = [seat EXCEPT ![c] = s]
  BY DEF Start
<1>3. seat' \in [Clients -> Seats \cup {NoSeat}] /\ seat'[c] = s
  BY <1>2 DEF ClientTypes
<1>4. UNCHANGED incoming
  BY DEF Start, network
<1>5. CASE Stopped
  <2>1. status' = [status EXCEPT ![c] = "refused"] /\ UNCHANGED <<link, members, down, up>>
    BY <1>5 DEF Start, ConnectFails
  <2>2. Starts(c) /\ OthersStay(c)
    BY <1>1, <2>1 DEF Starts, OthersStay, Own, Members, members, ClientTypes
  <2> QED BY <1>3, <1>4, <2>1, <2>2 DEF ClientTypes, Endings, members
<1>6. CASE ~Stopped
  <2>1. /\ link' = [link EXCEPT ![c] = "open"]
        /\ status' = [status EXCEPT ![c] = "up"]
        /\ up' = [up EXCEPT ![c] = <<MsgIam(s)>>]
        /\ nextTrickNumber' = [nextTrickNumber EXCEPT ![c] = 0]
        /\ nPointMessagesReceived' = [nPointMessagesReceived EXCEPT ![c] = 0]
        /\ nDeals' = [nDeals EXCEPT ![c] = 0]
        /\ UNCHANGED <<cards, prompt, down>>
    BY <1>3, <1>6 DEF Start, Connect
  <2>2. <<MsgIam(s)>> \in Seq(ClientMessages) /\ Len(<<MsgIam(s)>>) = 1
    BY SayAssumption
  <2>3. Starts(c)
    BY <1>1, <1>6, <2>1, <2>2 DEF Starts, ClientTypes
  <2>4. OthersStay(c)
    BY <2>1 DEF OthersStay, Own, Members
  <2>5. ClientTypes'
    BY <1>3, <1>4, <2>1, <2>2, TricksAssumption DEF ClientTypes
  <2> QED BY <2>3, <2>4, <2>5
<1> QED BY <1>5, <1>6

(* Every step of a process is one of these.                                 *)
ProcessStep(c) == \/ Process(c) \/ Start(c) \/ Kill(c)
                  \/ UserPlays(c) \/ UserErrs(c) \/ UserLate(c)

(* So has each kind of step; the others do not notice.                      *)
LEMMA ProcessMoves ==
  ASSUME Living, NEW c \in Clients, ProcessStep(c)
  PROVE  /\ Moves(c) /\ OthersStay(c) /\ ClientTypes'
         /\ UNCHANGED <<vars, network>> /\ (pc = "poll" \/ Stopped)
<1>1. UNCHANGED <<vars, network>> /\ (pc = "poll" \/ Stopped)
  BY DEF ProcessStep, Process, Start, Kill, UserPlays, UserErrs, UserLate, Watched
<1>2. UNCHANGED incoming /\ ClientTypes /\ LivingAt(c)
  BY <1>1 DEF network, Living
<1>3. CASE Start(c)
  BY <1>1, <1>2, <1>3, StartStarts DEF Moves
<1>4. CASE TakesNews(c)
  BY <1>1, <1>2, <1>4, NewsLearns DEF Moves
<1>5. ASSUME NEW card \in Card, PlaysCard(c, card)
      PROVE  Moves(c) /\ OthersStay(c) /\ ClientTypes'
  <2> DEFINE m == MsgPlay(c, nextTrickNumber[c], card)
  <2>1. /\ status[c] = "up" /\ nextTrickNumber[c] # 0 /\ Writes(c, m)
        /\ UNCHANGED <<seat, status, link, cards, nextTrickNumber,
                       nPointMessagesReceived, nDeals, down>>
    BY <1>5 DEF PlaysCard, IsAsked
  <2>2. nextTrickNumber[c] \in 1 .. LastTrick
    BY <1>2, <2>1 DEF ClientTypes
  <2>3. m \in ClientMessages
    BY <2>2, SayAssumption
  <2>4. m.type = "TRICK"
    BY DEF MsgPlay
  <2> HIDE DEF m
  <2>5. Says(c) /\ OthersStay(c) /\ ClientTypes'
    BY <1>2, <2>1, <2>3, <2>4, SaysTypes
  <2> QED BY <2>5 DEF Moves
<1>6. CASE UserPlays(c)
  <2>1. PICK card \in Playable(cards[c], prompt[c]) : PlaysCard(c, card)
    BY <1>6 DEF UserPlays
  <2>2. card \in Card
    BY <1>2, <2>1 DEF Playable, OfColor, ClientTypes
  <2> QED BY <1>1, <1>5, <2>1, <2>2
<1>7. CASE UserErrs(c)
  <2>1. PICK card \in Card : PlaysCard(c, card)
    BY <1>7 DEF UserErrs
  <2> QED BY <1>1, <1>5, <2>1
<1>8. ASSUME NEW how \in Endings, status[c] = "up", Ends(c, how), UNCHANGED up,
             how = "premature" =>
                link[c] = "closed" /\ down[c] = <<>> /\ nPointMessagesReceived[c] # 2
      PROVE  Moves(c) /\ OthersStay(c) /\ ClientTypes'
  BY <1>2, <1>8, EndsQuits DEF Moves
<1>9. CASE Kill(c)
  BY <1>1, <1>8, <1>9 DEF Kill, Endings
<1>10. CASE UserLate(c)
  BY <1>1, <1>8, <1>10 DEF UserLate, PlayTrickFails, IsAsked, Endings
<1>11. CASE LeavesBusy(c)
  BY <1>1, <1>8, <1>11 DEF LeavesBusy, Endings
<1>12. CASE ReadsEnd(c)
  BY <1>1, <1>8, <1>12 DEF ReadsEnd, Endings
<1>13. ASSUME NEW m, Reads(c, m), m.type = "TRICK",
              UNCHANGED <<seat, status, link, cards, nextTrickNumber, nPointMessagesReceived, nDeals>>,
              \/ UNCHANGED up
              \/ \E n \in ClientMessages : /\ n.type = "TRICK" /\ nextTrickNumber[c] # 0
                                           /\ Writes(c, n)
       PROVE  Moves(c) /\ OthersStay(c) /\ ClientTypes'
  <2>1. /\ status[c] = "up" /\ down[c] # <<>> /\ Head(down[c]).type = "TRICK"
        /\ down' = [down EXCEPT ![c] = Tail(@)]
    BY <1>13 DEF Reads
  <2>2. Says(c) /\ OthersStay(c) /\ ClientTypes'
    BY <1>2, <1>13, <2>1, SaysTypes
  <2> QED BY <2>2 DEF Moves
<1>14. CASE AsksUser(c)
  <2>1. PICK m : /\ Reads(c, m) /\ m.type = "TRICK" /\ UNCHANGED up
                 /\ UNCHANGED <<seat, status, link, cards, nextTrickNumber, nPointMessagesReceived, nDeals>>
    BY <1>14 DEF AsksUser
  <2> QED BY <1>1, <1>13, <2>1
<1>15. CASE IgnoresTrick(c)
  <2>1. PICK m : /\ Reads(c, m) /\ m.type = "TRICK" /\ UNCHANGED up
                 /\ UNCHANGED <<seat, status, link, cards, nextTrickNumber, nPointMessagesReceived, nDeals>>
    BY <1>15 DEF IgnoresTrick, members
  <2> QED BY <1>1, <1>13, <2>1
<1>16. CASE AnswersTrick(c)
  <2>1. PICK m : /\ Reads(c, m) /\ m.type = "TRICK" /\ m.number = nextTrickNumber[c]
                 /\ IF cards[c] = {} THEN UNCHANGED up
                    ELSE \E card \in Playable(cards[c], m) :
                            Writes(c, MsgPlay(c, m.number, card))
                 /\ UNCHANGED <<seat, status, link, cards, nextTrickNumber, nPointMessagesReceived, nDeals>>
    BY <1>16 DEF AnswersTrick, members
  <2>2. CASE UNCHANGED up
    BY <1>1, <1>13, <2>1, <2>2
  <2>3. ASSUME NEW card \in Playable(cards[c], m), Writes(c, MsgPlay(c, m.number, card))
        PROVE  \E n \in ClientMessages : /\ n.type = "TRICK" /\ nextTrickNumber[c] # 0
                                         /\ Writes(c, n)
    <3>1. card \in Card
      BY <1>2 DEF Playable, OfColor, ClientTypes
    <3>2. m \in Words
      <4>1. PICK q \in Seq(Words) : q = down[c] /\ q # <<>>
        BY <1>2, <2>1 DEF Reads, ClientTypes
      <4>2. m = Head(q) /\ Head(q) \in Words
        BY <2>1, <4>1 DEF Reads
      <4> QED BY <4>2
    <3>3. m.number \in 1 .. LastTrick
      BY <2>1, <3>2, WordsAre
    <3>4. MsgPlay(c, m.number, card) \in ClientMessages
      BY <3>1, <3>3, SayAssumption
    <3>5. MsgPlay(c, m.number, card).type = "TRICK" /\ nextTrickNumber[c] # 0
      BY <2>1, <3>3 DEF MsgPlay
    <3> QED BY <2>3, <3>4, <3>5
  <2> QED BY <1>1, <1>13, <2>1, <2>2, <2>3
<1>17. Process(c) => \/ TakesNews(c) \/ AnswersTrick(c) \/ AsksUser(c) \/ IgnoresTrick(c)
                     \/ LeavesBusy(c) \/ ReadsEnd(c)
  BY DEF Process, ClientStep
<1> QED BY <1>3, <1>4, <1>6, <1>7, <1>9, <1>10, <1>11, <1>12, <1>14, <1>15, <1>16, <1>17
        DEF ProcessStep

(* A process that does not move stays as it is.                             *)
LEMMA StaysAsItIs ==
  ASSUME UNCHANGED <<tableVars, seating, updateData, inbox, pc, network>>, NEW d \in Clients, Own(d)' = Own(d)
  PROVE  /\ LivingAt(d) => LivingAt(d)'
         /\ SaidBy(d) => SaidBy(d)'
         /\ InTouch(d) => InTouch(d)'
<1>1. /\ UNCHANGED <<tableVars, playerMap, candidateMap, updateData, inbox, pc, fdOf, incoming>>
      /\ Members(d)' = Members(d) /\ status'[d] = status[d] /\ link'[d] = link[d]
      /\ down'[d] = down[d] /\ up'[d] = up[d]
  BY DEF Own, seating, candidacy, network
<1>2. cards'[d] = cards[d]
  BY <1>1 DEF Members
<1>3. LivingAt(d) => LivingAt(d)'
  BY <1>1, <1>2 DEF LivingAt, Stopped
<1>4. AtTable(d)' = AtTable(d) /\ Waiting(d)' = Waiting(d) /\ Unread(d)' = Unread(d)
  BY <1>1 DEF AtTable, Waiting, Unread, Players, Candidates
<1>5. SaidBy(d) => SaidBy(d)'
  <2>1. Speakers' = Speakers
    BY <1>1 DEF Speakers, Batch
  <2> QED BY <1>1, <1>4, <2>1 DEF SaidBy
<1>6. OnTheWay(d)' = OnTheWay(d) /\ Told(d)' = Told(d)
  BY <1>1 DEF OnTheWay, Told, HandedOver, Written, Between
<1>7. InTouch(d) => InTouch(d)'
  <2>1. PICK v : v = Told(d) /\ v = Told(d)'
    BY <1>6
  <2>2. PICK s : s = playerMap[fdOf[d]] /\ s = playerMap'[fdOf'[d]]
    BY <1>1
  <2>3. Right(s, v)' = Right(s, v)
    BY <1>1 DEF tableVars, gameVars, Right, InPlay, TrickOngoing, CardsOf
  <2>4. Right(playerMap[fdOf[d]], Told(d)) => Right(playerMap[fdOf[d]], Told(d))'
    BY <2>1, <2>2, <2>3 DEF Right, InPlay
  <2> QED BY <1>1, <1>4, <1>6, <2>4 DEF InTouch
<1> QED BY <1>3, <1>5, <1>7

(* What a process reads it has been told before.                            *)
LEMMA ToldWhatItReads ==
  ASSUME ClientTypes, ClientTypes', updateData \in Updates, UNCHANGED <<vars, network>>,
         NEW c \in Clients, NEW p \in Seq(Words), NEW q \in Seq(Words),
         down[c] = p \o q, down'[c] = q, Members(c)' = AllHandled(Members(c), p)
  PROVE  Told(c)' = Told(c)
<1>1. UNCHANGED <<updateData, pc, fdOf>>
  BY DEF vars, network
<1>2. PICK h \in Seq(Words) : h = HandedOver(c)
  BY ToldTyped
<1>3. HandedOver(c)' = h
  BY <1>1, <1>2 DEF HandedOver, Written, Between
<1>4. PICK v \in View : v = Members(c)
  BY ToldTyped
<1>5. OnTheWay(c) = p \o (q \o h)
  <2>1. (p \o q) \o h = p \o (q \o h)
    OBVIOUS
  <2> QED BY <1>2, <2>1 DEF OnTheWay
<1>6. q \o h \in Seq(Words)
  OBVIOUS
<1>7. AllHandled(v, p \o (q \o h)) = AllHandled(AllHandled(v, p), q \o h)
  BY <1>6, HandledConcat
<1>8. Told(c)' = AllHandled(AllHandled(v, p), q \o h)
  BY <1>3, <1>4 DEF Told, OnTheWay
<1> QED BY <1>4, <1>5, <1>7, <1>8 DEF Told

(* Before it has a seat and after it has lost it, nothing is handed over to *)
(* a process.                                                               *)
LEMMA Unconnected ==
  ASSUME ClientTypes, updateData \in Updates, NEW c \in Clients, fdOf[c] = NoFd
  PROVE  HandedOver(c) = <<>> /\ OnTheWay(c) = down[c]
<1>1. HandedOver(c) = <<>>
  BY NotWritten, FdsAssumption DEF HandedOver
<1>2. PICK q \in Seq(Words) : q = down[c]
  BY DEF ClientTypes
<1> QED BY <1>1, <1>2 DEF OnTheWay

(* A process that moves is still in touch.                                  *)
LEMMA QuitKeeps ==
  ASSUME Wired, Seated, updateData \in Updates, ClientTypes, UNCHANGED <<vars, network>>,
         NEW c \in Clients, LivingAt(c), Quits(c)
  PROVE  LivingAt(c)' /\ (SaidBy(c) => SaidBy(c)') /\ (InTouch(c) => InTouch(c)')
<1>1. /\ UNCHANGED <<playerMap, candidateMap, updateData, inbox, pc, fdOf, incoming>>
      /\ Players' = Players /\ Candidates' = Candidates
  BY DEF vars, seating, candidacy, network, Players, Candidates
<1>2. status'[c] # "up" /\ status'[c] # "off"
  BY DEF Quits, Endings
<1>3. LivingAt(c)'
  BY <1>1, <1>2 DEF LivingAt, Quits
<1>4. SaidBy(c) => SaidBy(c)'
  <2>1. AtTable(c)' = AtTable(c) /\ (Waiting(c)' => Waiting(c))
    BY <1>1 DEF Quits, AtTable, Waiting
  <2>2. Unread(c)' = Unread(c) /\ Speakers' = Speakers
    BY <1>1 DEF Quits, Unread, Speakers, Batch
  <2> QED BY <1>1, <2>1, <2>2 DEF SaidBy
<1>5. ASSUME InTouch(c), status'[c] = "premature"
      PROVE  Members(c)'.dealt = 0
  <2>1. /\ link[c] = "closed" /\ down[c] = <<>> /\ Members(c).points # 2
        /\ status[c] = "up"
    BY <1>5 DEF Quits, Members
  <2>2. fdOf[c] = NoFd
    BY <2>1 DEF LivingAt
  <2>3. ~AtTable(c)
    BY <2>2, FdsAssumption DEF AtTable, Seated
  <2>4. Told(c) = Members(c)
    <3>1. OnTheWay(c) = <<>>
      BY <2>1, <2>2, Unconnected
    <3> QED BY <3>1, ToldTyped, HandledNone DEF Told
  <2>5. Members(c).dealt = 0
    BY <1>5, <2>1, <2>3, <2>4 DEF InTouch, Finished
  <2> QED BY <2>5 DEF Members, Quits
<1> QED BY <1>2, <1>3, <1>4, <1>5 DEF InTouch

(* Who answers knows no more than before, and says only what a player may   *)
(* say.                                                                     *)
LEMMA SayKeeps ==
  ASSUME Seated, updateData \in Updates, ClientTypes, ClientTypes', UNCHANGED <<vars, network>>,
         NEW c \in Clients, LivingAt(c), Says(c), InTouch(c) \/ pc \in {"error", "crash"},
         ~Stopped \/ ~Waiting(c), SaidBy(c)
  PROVE  LivingAt(c)' /\ SaidBy(c)' /\ (InTouch(c) => InTouch(c)')
<1>1. /\ UNCHANGED <<tableVars, playerMap, candidateMap, updateData, inbox, pc, fdOf, incoming>>
      /\ Players' = Players /\ Candidates' = Candidates
  BY DEF vars, seating, candidacy, network, Players, Candidates
<1>2. /\ status[c] = "up" /\ status'[c] = "up" /\ link'[c] = link[c]
      /\ Members(c)' = Members(c)
  BY DEF Says, Members
<1>3. LivingAt(c)'
  BY <1>1, <1>2 DEF LivingAt, Stopped
<1>4. AtTable(c)' = AtTable(c) /\ Waiting(c)' = Waiting(c) /\ Speakers' = Speakers
  BY <1>1, <1>2 DEF AtTable, Waiting, Speakers, Batch
<1>5. ASSUME Waiting(c) PROVE up'[c] = up[c] /\ down'[c] = down[c] /\ InTouch(c)
  <2>1. InTouch(c)
    BY <1>5 DEF Stopped
  <2>2. Members(c) = Blank /\ OnTheWay(c) = <<>>
    BY <1>2, <1>5, <2>1 DEF InTouch
  <2>3. nextTrickNumber[c] = 0
    BY <2>2 DEF Members, Blank
  <2>4. down[c] = <<>>
    <3>1. PICK p \in Seq(Words), h \in Seq(Words) : p = down[c] /\ h = HandedOver(c)
      BY ToldTyped
    <3>2. p \o h = <<>>
      BY <2>2, <3>1 DEF OnTheWay
    <3>3. p = <<>>
      BY <3>2
    <3> QED BY <3>1, <3>3
  <2> QED BY <2>1, <2>3, <2>4 DEF Says
<1>6. ASSUME AtTable(c) PROVE \A i \in DOMAIN Unread(c)' : Unread(c)'[i].type = "TRICK"
  <2>1. PICK a \in Seq(ClientMessages), b \in Seq(ClientMessages) : a = incoming[c] /\ b = up[c]
    BY DEF ClientTypes
  <2>2. \A i \in DOMAIN (a \o b) : (a \o b)[i].type = "TRICK"
    BY <1>6, <2>1 DEF SaidBy, Unread
  <2>3. CASE up'[c] = up[c]
    BY <1>1, <2>1, <2>2, <2>3 DEF Unread
  <2>4. CASE up'[c] # up[c]
    <3>1. PICK m \in ClientMessages : m.type = "TRICK" /\ up'[c] = Append(b, m)
      BY <2>1, <2>4 DEF Says
    <3>2. PICK q \in Seq(ClientMessages) : q = a \o b
      <4>1. a \o b \in Seq(ClientMessages)
        OBVIOUS
      <4> QED BY <4>1
    <3>3. a \o Append(b, m) = Append(a \o b, m)
      OBVIOUS
    <3>4. \A i \in DOMAIN Append(q, m) : Append(q, m)[i].type = "TRICK"
      BY <2>2, <3>1, <3>2
    <3>5. Unread(c)' = Append(q, m)
      BY <1>1, <2>1, <3>1, <3>2, <3>3 DEF Unread
    <3> QED BY <3>4, <3>5
  <2> QED BY <2>3, <2>4
<1>7. SaidBy(c)'
  <2>1. Waiting(c) => Unread(c)' = Unread(c)
    BY <1>1, <1>5 DEF Unread
  <2> QED BY <1>1, <1>4, <1>6, <2>1 DEF SaidBy
<1>8. Told(c)' = Told(c)
  <2>1. CASE down'[c] = down[c]
    BY <1>1, <1>2, <2>1 DEF Told, OnTheWay, HandedOver, Written, Between
  <2>2. CASE down[c] # <<>> /\ Head(down[c]).type = "TRICK" /\ down'[c] = Tail(down[c])
    <3>1. PICK d \in Seq(Words) : d = down[c] /\ d # <<>>
      BY <2>2 DEF ClientTypes
    <3>2. PICK m \in Words, q \in Seq(Words) : m = Head(d) /\ q = Tail(d)
      <4>1. Head(d) \in Words /\ Tail(d) \in Seq(Words)
        BY <3>1
      <4> QED BY <4>1
    <3>3. <<m>> \in Seq(Words) /\ d = <<m>> \o q
      BY <3>1, <3>2
    <3>4. PICK p \in Seq(Words) : p = <<m>>
      BY <3>3
    <3>5. AllHandled(Members(c), p) = Members(c)
      <4>1. m \in Idle
        BY <2>2, <3>1, <3>2 DEF Idle
      <4>2. <<m>> \in Seq(Idle)
        BY <4>1
      <4> QED BY <3>4, <4>2, ToldTyped, HandledIdle
    <3> QED BY <1>2, <2>2, <3>1, <3>2, <3>3, <3>4, <3>5, ToldWhatItReads
  <2> QED BY <2>1, <2>2 DEF Says
<1>9. ASSUME InTouch(c) PROVE InTouch(c)'
  <2>1. AtTable(c) => Right(playerMap[fdOf[c]], Told(c))'
    <3>1. AtTable(c) => Right(playerMap[fdOf[c]], Told(c))
      BY <1>2, <1>9 DEF InTouch
    <3> QED BY <1>1, <1>8, <3>1 DEF tableVars, gameVars, Right, InPlay, TrickOngoing, CardsOf
  <2>2. Waiting(c) => Members(c)' = Blank /\ OnTheWay(c)' = <<>>
    <3>1. Waiting(c) => OnTheWay(c)' = OnTheWay(c)
      BY <1>1, <1>5 DEF OnTheWay, HandedOver, Written, Between
    <3> QED BY <1>2, <1>9, <3>1 DEF InTouch
  <2>3. ~AtTable(c) => Finished(Told(c)')
    BY <1>2, <1>8, <1>9 DEF InTouch
  <2> QED BY <1>2, <1>4, <2>1, <2>2, <2>3 DEF InTouch
<1> QED BY <1>3, <1>7, <1>9

(* Who reads news knows what it was about to know.                          *)
LEMMA LearnKeeps ==
  ASSUME Seated, updateData \in Updates, ClientTypes, ClientTypes', UNCHANGED <<vars, network>>,
         NEW c \in Clients, LivingAt(c), Learns(c), SaidBy(c)
  PROVE  LivingAt(c)' /\ SaidBy(c)' /\ (InTouch(c) => InTouch(c)')
<1>1. /\ UNCHANGED <<tableVars, playerMap, candidateMap, updateData, inbox, pc, fdOf, incoming>>
      /\ Players' = Players /\ Candidates' = Candidates
  BY DEF vars, seating, candidacy, network, Players, Candidates
<1>2. status[c] = "up" /\ status'[c] = "up" /\ link'[c] = link[c] /\ up'[c] = up[c]
  BY DEF Learns
<1>3. LivingAt(c)'
  BY <1>1, <1>2 DEF LivingAt, Stopped
<1>4. /\ AtTable(c)' = AtTable(c) /\ Waiting(c)' = Waiting(c) /\ Speakers' = Speakers
      /\ Unread(c)' = Unread(c)
  BY <1>1, <1>2 DEF AtTable, Waiting, Speakers, Batch, Unread
<1>5. SaidBy(c)'
  BY <1>1, <1>4 DEF SaidBy
<1>6. PICK p \in Seq(Words), q \in Seq(Words) :
         /\ down[c] = p \o q /\ down'[c] = q /\ p # <<>>
         /\ Members(c)' = AllHandled(Members(c), p)
  BY DEF Learns
<1>7. Told(c)' = Told(c)
  BY <1>6, ToldWhatItReads
<1>8. OnTheWay(c) # <<>>
  <2>1. PICK h \in Seq(Words) : h = HandedOver(c)
    BY ToldTyped
  <2>2. (p \o q) \o h # <<>>
    BY <1>6
  <2> QED BY <1>6, <2>1, <2>2 DEF OnTheWay
<1>9. ASSUME InTouch(c) PROVE InTouch(c)'
  <2>1. AtTable(c) => Right(playerMap[fdOf[c]], Told(c))'
    <3>1. AtTable(c) => Right(playerMap[fdOf[c]], Told(c))
      BY <1>2, <1>9 DEF InTouch
    <3> QED BY <1>1, <1>7, <3>1 DEF tableVars, gameVars, Right, InPlay, TrickOngoing, CardsOf
  <2>2. ~Waiting(c) /\ (~AtTable(c) => Finished(Told(c)'))
    BY <1>2, <1>7, <1>8, <1>9 DEF InTouch
  <2> QED BY <1>2, <1>4, <2>1, <2>2 DEF InTouch
<1> QED BY <1>3, <1>5, <1>9

(* Who starts knows nothing and has said one thing.                         *)
LEMMA StartKeeps ==
  ASSUME Seated, updateData \in Updates, ClientTypes, ClientTypes', UNCHANGED <<vars, network>>,
         NEW c \in Clients, LivingAt(c), Starts(c), SaidBy(c), pc = "poll" \/ Stopped
  PROVE  LivingAt(c)' /\ SaidBy(c)' /\ InTouch(c)'
<1>1. /\ UNCHANGED <<tableVars, playerMap, candidateMap, updateData, inbox, pc, fdOf, incoming>>
      /\ Players' = Players /\ Candidates' = Candidates
  BY DEF vars, seating, candidacy, network, Players, Candidates
<1>2. /\ status[c] # "up" /\ fdOf[c] = NoFd /\ fdOf'[c] = NoFd /\ link[c] # "open"
      /\ cards'[c] = {} /\ down'[c] = <<>> /\ incoming'[c] = <<>>
  BY <1>1 DEF Starts, LivingAt
<1>3. LivingAt(c)'
  BY <1>1, <1>2 DEF LivingAt, Starts, Stopped
<1>4. ~AtTable(c)'
  BY <1>1, <1>2, FdsAssumption DEF AtTable, Seated
<1>5. Speakers' = {}
  BY <1>1 DEF Speakers, Batch, Stopped
<1>6. SaidBy(c)'
  <2>1. CASE status'[c] = "up"
    <3>1. up'[c] \in Seq(ClientMessages) /\ Len(up'[c]) = 1
      BY <2>1 DEF Starts, ClientTypes
    <3>2. PICK b \in Seq(ClientMessages) : b = up'[c] /\ Len(b) = 1
      BY <3>1
    <3>3. <<>> \o b = b
      OBVIOUS
    <3>4. Unread(c)' = b
      BY <1>2, <3>2, <3>3 DEF Unread
    <3>5. (Len(Unread(c)) <= 1)'
      <4>1. Len(b) <= 1
        BY <3>2
      <4> QED BY <3>4, <4>1
    <3>6. fdOf'[c] \notin Speakers'
      BY <1>5
    <3> QED BY <1>4, <3>5, <3>6 DEF SaidBy
  <2>2. CASE status'[c] # "up"
    <3>1. link'[c] # "open"
      BY <1>2, <2>2 DEF Starts
    <3>2. ~Waiting(c)'
      BY <1>1, <1>2, <3>1, FdsAssumption DEF Waiting, Seated, Tables, Maps, Candidacy, Candidates
    <3> QED BY <1>4, <3>2 DEF SaidBy
  <2> QED BY <2>1, <2>2
<1>7. InTouch(c)'
  <2>1. CASE status'[c] = "up"
    <3>1. Members(c)' = Blank
      BY <1>2, <2>1 DEF Members, Blank, Starts
    <3>2. OnTheWay(c)' = <<>>
      <4>1. HandedOver(c)' = <<>>
        <5>1. HandedOver(c) = <<>>
          BY <1>2, Unconnected
        <5> QED BY <1>1, <5>1 DEF HandedOver, Written, Between
      <4> QED BY <1>2, <4>1 DEF OnTheWay
    <3>3. Told(c)' = Blank
      <4>1. Blank \in View
        BY TricksAssumption DEF Blank, View
      <4> QED BY <3>1, <3>2, <4>1, HandledNone DEF Told
    <3>4. Finished(Told(c))'
      BY <3>3 DEF Finished, Blank
    <3> QED BY <1>4, <2>1, <3>1, <3>2, <3>4 DEF InTouch
  <2>2. CASE status'[c] = "refused"
    BY <2>2 DEF InTouch
  <2> QED BY <2>1, <2>2 DEF Starts
<1> QED BY <1>3, <1>6, <1>7

(* A step of a process.                                                     *)
LEMMA ProcessKeeps ==
  ASSUME ProtocolInv, NEW c \in Clients, ProcessStep(c)
  PROVE  ProtocolInv'
<1>1. /\ Moves(c) /\ OthersStay(c) /\ ClientTypes'
      /\ UNCHANGED <<vars, network>> /\ (pc = "poll" \/ Stopped)
  BY ProcessMoves DEF ProtocolInv
<1>2. /\ TableInv /\ Seated /\ Queued /\ Exchanged /\ updateData \in Updates /\ ClientTypes
  BY DEF ProtocolInv, ServerInv, Living, Exchanged
<1>3. UNCHANGED vars
  BY <1>1
<1>4. ServerInv'
  BY <1>2, <1>3, NextServerInv DEF ServerInv
<1>5. /\ UNCHANGED <<tableVars, store, playerMap, playerMessages, updateData, inbox, pc>>
      /\ UNCHANGED <<fdOf, incoming>>
  BY <1>1 DEF vars, seating, network
<1>6. Apart'
  BY <1>5 DEF ProtocolInv, Apart, tableVars, gameVars, TakenCards, CardsOf
<1>7. Wired'
  BY <1>5 DEF ProtocolInv, Wired, store, InStore, Addressed, Stopped
<1>8. Heard'
  BY <1>5 DEF ProtocolInv, Said, Heard, Batch, Players, CardsOnly
<1>9. Hushed'
  BY <1>5 DEF ProtocolInv, Hushed, TrickOngoing, tableVars, gameVars, Out, IdleMessage, Message, Idle, Words
<1>10. ASSUME NEW d \in Clients \ {c}
       PROVE  LivingAt(d)' /\ SaidBy(d)' /\ (InTouch(d) => InTouch(d)')
  <2>1. Own(d)' = Own(d) /\ LivingAt(d) /\ SaidBy(d)
    BY <1>1 DEF OthersStay, ProtocolInv, Living, Said
  <2>2. UNCHANGED <<tableVars, seating, updateData, inbox, pc, network>>
    BY <1>1 DEF vars
  <2> QED BY <2>1, <2>2, StaysAsItIs
<1>11. LivingAt(c) /\ SaidBy(c) /\ (InTouch(c) \/ pc \in {"error", "crash"}) /\ Wired
  BY DEF ProtocolInv, Living, Said, AllInTouch
<1>12. ~Stopped \/ ~Waiting(c)
  <2>1. SUFFICES ASSUME Stopped, Waiting(c) PROVE FALSE
    OBVIOUS
  <2>2. InStore = {}
    BY <1>11, <2>1 DEF Wired, Stopped, InStore
  <2>3. fdOf[c] = NoFd
    BY <1>11, <2>2 DEF Wired
  <2>4. fdOf[c] \notin Candidates
    BY <1>2, <2>3, FdsAssumption DEF Seated, Tables, Maps, Candidacy, Candidates
  <2>5. link[c] = "open"
    BY <2>1, <2>3, <2>4 DEF Waiting
  <2> QED BY <1>11, <2>1, <2>5 DEF LivingAt
<1>13. LivingAt(c)' /\ SaidBy(c)' /\ (InTouch(c) => InTouch(c)')
  <2>1. CASE Quits(c)
    BY <1>1, <1>2, <1>11, <2>1, QuitKeeps
  <2>2. CASE Says(c)
    BY <1>1, <1>2, <1>11, <1>12, <2>2, SayKeeps
  <2>3. CASE Learns(c)
    BY <1>1, <1>2, <1>11, <2>3, LearnKeeps
  <2>4. CASE Starts(c)
    BY <1>1, <1>2, <1>11, <2>4, StartKeeps
  <2> QED BY <1>1, <2>1, <2>2, <2>3, <2>4 DEF Moves
<1>14. Living' /\ Said'
  BY <1>1, <1>8, <1>10, <1>13 DEF Living, Said
<1>15. AllInTouch'
  BY <1>5, <1>10, <1>13 DEF ProtocolInv, AllInTouch
<1> QED BY <1>4, <1>6, <1>7, <1>9, <1>14, <1>15 DEF ProtocolInv

(* A deadline passes, or nothing happens.                                   *)
LEMMA QuietKeeps ==
  ASSUME ProtocolInv, [TrickTimePasses]_vars, UNCHANGED <<clientVars, network>>
  PROVE  ProtocolInv'
<1>1. ServerInv'
  <2>1. [Next]_vars
    BY DEF Next
  <2> QED BY <2>1, NextServerInv DEF ProtocolInv
<1>2. UNCHANGED <<tableVars, seating, updateData, inbox, pc, network, playerMessages, store>>
  BY DEF vars, TrickTimePasses
<1>3. UNCHANGED <<playerMap, fdOf, incoming>>
  BY <1>2 DEF seating, network
<1>4. Apart' /\ Wired' /\ Heard' /\ Hushed'
  <2>1. Apart'
    BY <1>2 DEF ProtocolInv, Apart, tableVars, gameVars, TakenCards, CardsOf
  <2>2. Wired'
    BY <1>2, <1>3 DEF ProtocolInv, Wired, store, InStore, Addressed, Stopped
  <2>3. Heard'
    BY <1>2, <1>3 DEF ProtocolInv, Said, Heard, Batch, Players, CardsOnly
  <2>4. Hushed'
    BY <1>2 DEF ProtocolInv, Hushed, TrickOngoing, tableVars, gameVars, Out, IdleMessage, Message, Idle, Words
  <2> QED BY <2>1, <2>2, <2>3, <2>4
<1>5. ASSUME NEW c \in Clients
      PROVE  LivingAt(c)' /\ SaidBy(c)' /\ (InTouch(c) => InTouch(c)')
  <2>1. Own(c)' = Own(c)
    BY DEF Own, Members, clientVars, members
  <2>2. LivingAt(c) /\ SaidBy(c)
    BY DEF ProtocolInv, Living, Said
  <2> QED BY <1>2, <2>1, <2>2, StaysAsItIs
<1>6. ClientTypes'
  BY <1>3 DEF ProtocolInv, Living, ClientTypes, clientVars, members
<1>7. Living' /\ Said'
  BY <1>4, <1>5, <1>6 DEF Living, Said
<1>8. AllInTouch'
  BY <1>2, <1>5 DEF ProtocolInv, AllInTouch
<1> QED BY <1>1, <1>4, <1>7, <1>8 DEF ProtocolInv

(* poll returns: what was handed over before is written, and some of what   *)
(* processes have said is taken.                                            *)
LEMMA ReportsKeep ==
  ASSUME ProtocolInv, PollReports
  PROVE  ProtocolInv'
<1>1. /\ TableInv /\ Seated /\ Queued /\ Exchanged /\ Wired /\ Living /\ ClientTypes
      /\ updateData \in Updates
  BY DEF ProtocolInv, ServerInv, Living, Exchanged
<1>2. /\ RightStep
      /\ pc = "poll" /\ pc' = "apply" /\ sending' = {}
      /\ UNCHANGED <<tableVars, seating, playerMessages>>
      /\ receiving' = Stay \cup ({updateData'.opened} \ {NoFd})
      /\ updateData'.opened \notin Stay
      /\ OneEach /\ ClientTypes'
      /\ \A c \in Clients : Accepted(c) \/ Unnoticed(c) \/ Dropped(c) \/ Polled(c)
  BY <1>1, ReportTells
<1>3. /\ UNCHANGED <<playerMap, candidateMap, seat, status, cards, nextTrickNumber,
                     nPointMessagesReceived, nDeals>>
      /\ down' = [c \in Clients |->
                     IF fdOf[c] \in sending /\ status[c] = "up"
                     THEN down[c] \o Written(c) ELSE down[c]]
      /\ Players' = Players /\ Candidates' = Candidates /\ ~Stopped'
  BY <1>2 DEF PollReports, seating, candidacy, members, Players, Candidates, Stopped
<1>4. /\ Players \subseteq Fds /\ Candidates \subseteq Fds /\ NoFd \notin Fds
      /\ receiving = Candidates \cup Players /\ sending = Addressed(updateData)
      /\ updateData.opened = NoFd /\ Stay \subseteq receiving /\ receiving \subseteq Fds
  BY <1>1, <1>2, FdsAssumption
     DEF Exchanged, Seated, Tables, Maps, Candidacy, Candidates, StoreAgrees, Pending, Wired, Stay
<1>5. ServerInv'
  <2>1. TableInv'
    BY <1>1, <1>2, StutterInv
  <2> QED BY <1>2, <2>1 DEF ServerInv, RightStep
<1>6. Apart'
  BY <1>2 DEF ProtocolInv, Apart, tableVars, gameVars, TakenCards, CardsOf
<1>7. Wired'
  <2>1. fdOf' \in [Clients -> Fds \cup {NoFd}]
    <3>1. DOMAIN fdOf' = Clients /\ fdOf' = [c \in Clients |-> fdOf'[c]]
      BY DEF PollReports
    <3>2. updateData'.opened \in Fds \cup {NoFd}
      BY <1>2 DEF RightStep, Exchanged, Updates
    <3>3. \A c \in Clients : fdOf'[c] \in Fds \cup {NoFd}
      BY <1>2, <1>4, <3>2 DEF Accepted, Unnoticed, Dropped, Polled
    <3> QED BY <3>1, <3>3
  <2>2. \A c \in Clients : fdOf'[c] # NoFd =>
              \/ Accepted(c) /\ fdOf'[c] = updateData'.opened
              \/ fdOf'[c] \in Stay /\ fdOf'[c] = fdOf[c]
    BY <1>2 DEF Accepted, Unnoticed, Dropped, Polled
  <2>3. \A c, d \in Clients : fdOf'[c] = fdOf'[d] /\ fdOf'[c] # NoFd => c = d
    <3> SUFFICES ASSUME NEW c \in Clients, NEW d \in Clients, fdOf'[c] = fdOf'[d],
                        fdOf'[c] # NoFd
                 PROVE  c = d
      OBVIOUS
    <3>1. CASE fdOf'[c] \in Stay
      BY <1>1, <1>2, <2>2, <3>1 DEF Wired
    <3>2. CASE fdOf'[c] \notin Stay
      <4>1. Accepted(c) /\ Accepted(d)
        BY <2>2, <3>2
      <4> QED BY <4>1 DEF PollReports, Accepted
    <3> QED BY <3>1, <3>2
  <2>4. \A c \in Clients : fdOf'[c] # NoFd => fdOf'[c] \in InStore'
    BY <1>2, <2>2 DEF InStore
  <2> QED BY <1>2, <1>3, <2>1, <2>3, <2>4 DEF Wired, Stopped
<1>8. ASSUME NEW c \in Clients PROVE LivingAt(c)'
  <2>1. LivingAt(c)
    BY <1>1 DEF Living
  <2>2. status[c] # "up" => down'[c] = <<>>
    BY <1>3, <2>1 DEF LivingAt
  <2>3. CASE Accepted(c)
    BY <1>3, <2>1, <2>2, <2>3 DEF LivingAt, Accepted, SameEnds
  <2>4. CASE Unnoticed(c)
    BY <1>3, <2>1, <2>2, <2>4 DEF LivingAt, Unnoticed, SameEnds
  <2>5. CASE Dropped(c)
    BY <1>3, <2>1, <2>2, <2>5 DEF LivingAt, Dropped
  <2>6. CASE Polled(c)
    <3>1. fdOf[c] # NoFd
      BY <1>4, <2>6 DEF Polled
    <3> QED BY <1>3, <2>1, <2>2, <2>6, <3>1 DEF LivingAt, Polled
  <2> QED BY <1>2, <2>3, <2>4, <2>5, <2>6
<1>9. Living'
  BY <1>2, <1>8 DEF Living
<1>10. ASSUME NEW c \in Clients
       PROVE  /\ AtTable(c)' => AtTable(c) /\ Polled(c)
              /\ Waiting(c)' => Waiting(c) /\ (Accepted(c) \/ Unnoticed(c) \/ Polled(c))
              /\ status[c] = "up" /\ AtTable(c) => AtTable(c)'
  <2>1. AtTable(c) <=> fdOf[c] \in Players
    BY <1>2 DEF AtTable
  <2>2. AtTable(c)' <=> fdOf'[c] \in Players /\ fdOf'[c] # updateData'.opened
    BY <1>2, <1>3 DEF AtTable
  <2>3. Waiting(c) <=> fdOf[c] \in Candidates \/ (fdOf[c] = NoFd /\ link[c] = "open")
    BY <1>2 DEF Waiting
  <2>4. Waiting(c)' <=> \/ fdOf'[c] \in Candidates
                        \/ fdOf'[c] = updateData'.opened /\ fdOf'[c] # NoFd
                        \/ fdOf'[c] = NoFd /\ link'[c] = "open"
    BY <1>2, <1>3 DEF Waiting
  <2>5. CASE Accepted(c)
    BY <1>4, <2>1, <2>2, <2>3, <2>5 DEF Accepted
  <2>6. CASE Unnoticed(c)
    BY <1>4, <2>1, <2>2, <2>3, <2>4, <2>6 DEF Unnoticed, SameEnds
  <2>7. CASE Dropped(c)
    BY <1>4, <2>1, <2>2, <2>3, <2>4, <2>7 DEF Dropped
  <2>8. CASE Polled(c)
    <3>1. fdOf'[c] # updateData'.opened /\ fdOf'[c] # NoFd /\ fdOf'[c] = fdOf[c]
      BY <1>2, <1>4, <2>8 DEF Polled
    <3> QED BY <2>1, <2>2, <2>3, <2>4, <2>8, <3>1
  <2> QED BY <1>2, <2>5, <2>6, <2>7, <2>8
<1>11. \A i \in DOMAIN Out' : \E c \in Clients :
          /\ fdOf[c] \in Stay /\ up[c] # <<>> /\ Out'[i].fd = fdOf[c]
          /\ Out'[i].content = Head(Unread(c))
  BY <1>2 DEF OneEach, Popped, To
<1>12. Batch' = Out' /\ Speakers' = Addressed(updateData')
  BY <1>2 DEF Batch, Speakers, Addressed, Out
<1>13. ASSUME NEW c \in Clients, Polled(c)
       PROVE  /\ Len(Unread(c)) <= 1 => Len(Unread(c)') <= 1
              /\ fdOf[c] \in Speakers' /\ Len(Unread(c)) <= 1 => Unread(c)' = <<>>
              /\ \A i \in DOMAIN Unread(c)' : \E j \in DOMAIN Unread(c) :
                    Unread(c)'[i] = Unread(c)[j]
  <2>1. PICK a \in Seq(ClientMessages), b \in Seq(ClientMessages) : a = incoming[c] /\ b = up[c]
    BY <1>1 DEF ClientTypes
  <2>2. PICK q \in Seq(ClientMessages) : q = a \o b
    <3>1. a \o b \in Seq(ClientMessages)
      OBVIOUS
    <3> QED BY <3>1
  <2>3. Unread(c) = q
    BY <2>1, <2>2 DEF Unread
  <2>4. CASE SameEnds(c) /\ fdOf[c] \notin Addressed(updateData')
    <3>1. Unread(c)' = q
      BY <2>1, <2>2, <2>4 DEF Unread, SameEnds
    <3> QED BY <1>12, <2>3, <2>4, <3>1
  <2>5. CASE up[c] # <<>> /\ incoming'[c] = Tail(Unread(c)) /\ up'[c] = <<>>
    <3>1. q # <<>>
      BY <2>1, <2>2, <2>5
    <3>2. PICK t \in Seq(ClientMessages) :
             /\ t = Tail(q) /\ Len(t) = Len(q) - 1
             /\ \A i \in 1 .. Len(t) : t[i] = q[i + 1]
      <4>1. /\ Tail(q) \in Seq(ClientMessages) /\ Len(Tail(q)) = Len(q) - 1
            /\ \A i \in 1 .. Len(Tail(q)) : Tail(q)[i] = q[i + 1]
        BY <3>1
      <4> QED BY <4>1
    <3>3. t \o <<>> = t
      OBVIOUS
    <3>4. Unread(c)' = t
      BY <2>3, <2>5, <3>2, <3>3 DEF Unread
    <3>5. Len(q) <= 1 => t = <<>>
      BY <3>2
    <3>6. ASSUME NEW i \in DOMAIN t PROVE i + 1 \in DOMAIN q /\ t[i] = q[i + 1]
      BY <3>2
    <3>7. Len(q) <= 1 => Len(t) <= 1
      BY <3>2
    <3> QED BY <2>3, <3>4, <3>5, <3>6, <3>7
  <2> QED BY <1>13, <2>4, <2>5 DEF Polled
<1>14. ASSUME NEW c \in Clients PROVE SaidBy(c)'
  <2>1. SaidBy(c)
    BY DEF ProtocolInv, Said
  <2>2. ASSUME AtTable(c)' PROVE \A i \in DOMAIN Unread(c)' : Unread(c)'[i].type = "TRICK"
    BY <1>10, <1>13, <2>1, <2>2 DEF SaidBy
  <2>3. ASSUME Waiting(c)'
        PROVE  (Len(Unread(c)) <= 1)' /\ (fdOf'[c] \in Speakers' => Unread(c)' = <<>>)
    <3>1. Waiting(c) /\ Len(Unread(c)) <= 1
      BY <1>10, <2>1, <2>3 DEF SaidBy
    <3>2. CASE Polled(c)
      BY <1>13, <3>1, <3>2 DEF Polled
    <3>3. CASE Accepted(c) \/ Unnoticed(c)
      <4>1. Unread(c)' = Unread(c)
        BY <3>3 DEF Accepted, Unnoticed, SameEnds, Unread
      <4>2. fdOf'[c] \notin Stay
        BY <1>2, <1>4, <3>3 DEF Accepted, Unnoticed
      <4>3. fdOf'[c] \notin Speakers'
        BY <1>11, <1>12, <4>2 DEF Addressed, Out
      <4> QED BY <3>1, <4>1, <4>3
    <3> QED BY <1>10, <2>3, <3>2, <3>3
  <2> QED BY <2>2, <2>3 DEF SaidBy
<1>15. Heard'
  <2>1. \A i, j \in DOMAIN Batch' : Batch'[i].fd = Batch'[j].fd => i = j
    BY <1>2, <1>12 DEF OneEach
  <2>2. ASSUME NEW i \in DOMAIN Out', Out'[i].fd \in Players
        PROVE  Out'[i].content.type = "TRICK"
    <3>1. PICK c \in Clients : /\ up[c] # <<>> /\ Out'[i].fd = fdOf[c]
                               /\ Out'[i].content = Head(Unread(c))
      BY <1>11
    <3>2. AtTable(c)
      BY <1>2, <2>2, <3>1 DEF AtTable
    <3>3. \A k \in DOMAIN Unread(c) : Unread(c)[k].type = "TRICK"
      BY <3>2 DEF ProtocolInv, Said, SaidBy
    <3>4. PICK a \in Seq(ClientMessages), b \in Seq(ClientMessages) : a = incoming[c] /\ b = up[c]
      BY <1>1 DEF ClientTypes
    <3>5. a \o b # <<>> /\ a \o b \in Seq(ClientMessages)
      BY <3>1, <3>4
    <3>6. 1 \in DOMAIN (a \o b) /\ Head(a \o b) = (a \o b)[1]
      BY <3>5
    <3> QED BY <3>1, <3>3, <3>4, <3>6 DEF Unread
  <2>3. CardsOnly(playerMessages)'
    BY <1>2 DEF ProtocolInv, Said, Heard, CardsOnly
  <2> QED BY <1>2, <1>3, <1>12, <2>1, <2>2, <2>3 DEF Heard
<1>16. ASSUME NEW c \in Clients, status[c] = "up"
       PROVE  Members(c)' = Members(c) /\ OnTheWay(c)' = OnTheWay(c) /\ Told(c)' = Told(c)
  <2>1. Members(c)' = Members(c)
    BY <1>3 DEF Members
  <2>2. PICK d \in Seq(Words), w \in Seq(Words) : d = down[c] /\ w = Written(c)
    BY <1>1, ToldTyped
  <2>3. fdOf[c] \notin sending => w = <<>>
    BY <1>1, <1>4, <2>2, NotWritten
  <2>4. d \o <<>> = d
    OBVIOUS
  <2>5. down'[c] = d \o w
    BY <1>3, <1>16, <2>2, <2>3, <2>4
  <2>6. HandedOver(c) = w /\ HandedOver(c)' = <<>>
    BY <1>2, <2>2 DEF HandedOver, Between
  <2>7. (d \o w) \o <<>> = d \o w
    OBVIOUS
  <2>8. OnTheWay(c)' = OnTheWay(c)
    BY <2>2, <2>5, <2>6, <2>7 DEF OnTheWay
  <2> QED BY <2>1, <2>8 DEF Told
<1>17. ASSUME NEW c \in Clients, InTouch(c) PROVE InTouch(c)'
  <2>1. ASSUME status[c] = "up", AtTable(c)'
        PROVE  Right(playerMap[fdOf[c]], Told(c))'
    <3>1. Right(playerMap[fdOf[c]], Told(c)) /\ fdOf'[c] = fdOf[c]
      BY <1>10, <1>17, <2>1 DEF InTouch, Polled
    <3> QED BY <1>2, <1>3, <1>16, <2>1, <3>1
            DEF tableVars, gameVars, Right, InPlay, TrickOngoing, CardsOf
  <2>2. status[c] = "up" /\ Waiting(c)' => Members(c)' = Blank /\ OnTheWay(c)' = <<>>
    BY <1>10, <1>16, <1>17 DEF InTouch
  <2>3. status[c] = "up" /\ ~AtTable(c)' => Finished(Told(c))'
    BY <1>10, <1>16, <1>17 DEF InTouch, Finished
  <2>4. Members(c)' = Members(c)
    BY <1>3 DEF Members
  <2> QED BY <1>3, <1>17, <2>1, <2>2, <2>3, <2>4 DEF InTouch
<1>18. AllInTouch' /\ Hushed'
  BY <1>2, <1>17 DEF ProtocolInv, AllInTouch, Hushed
<1> QED BY <1>5, <1>6, <1>7, <1>9, <1>14, <1>15, <1>18 DEF ProtocolInv, Said

-----------------------------------------------------------------------------
(* The steps of the server.  What they make of its own state is proved in   *)
(* SeatingProofs.                                                           *)
LEMMA ServerPart ==
  ASSUME ServerInv, Apart, [Next]_vars
  PROVE  ServerInv' /\ Apart'
<1>1. ServerInv'
  BY NextServerInv
<1>2. TableInv /\ TableTypeOK
  BY DEF ServerInv, TableInv
<1>3. [TableNext]_tableVars
  BY <1>2, StepIsTableStep
<1> QED BY <1>1, <1>2, <1>3, ApartKept

(* A process whose place is the same and which is told nothing new.         *)
LEMMA TouchKept ==
  ASSUME NEW c \in Clients, InTouch(c), status'[c] = status[c],
         Members(c)' = Members(c), Told(c)' = Told(c),
         Waiting(c)' => Waiting(c) /\ OnTheWay(c)' = OnTheWay(c),
         AtTable(c)' <=> AtTable(c),
         AtTable(c) => UNCHANGED tableVars /\ playerMap'[fdOf'[c]] = playerMap[fdOf[c]]
  PROVE  InTouch(c)'
<1>1. ASSUME status[c] = "up", AtTable(c)
      PROVE  Right(playerMap[fdOf[c]], Told(c))'
  <2>1. Right(playerMap[fdOf[c]], Told(c))
    BY <1>1 DEF InTouch
  <2> QED BY <1>1, <2>1 DEF tableVars, gameVars, Right, InPlay, TrickOngoing, CardsOf
<1>2. status[c] = "up" /\ Waiting(c)' => Members(c)' = Blank /\ OnTheWay(c)' = <<>>
  BY DEF InTouch
<1>3. status[c] = "up" /\ ~AtTable(c) => Finished(Told(c))'
  BY DEF InTouch, Finished
<1>4. status[c] = "premature" => Members(c)'.dealt = 0
  BY DEF InTouch
<1> QED BY <1>1, <1>2, <1>3, <1>4 DEF InTouch

(* What was said before by who is at the table or waits, and by nobody else *)
(* but who had nothing left to say.                                         *)
LEMMA SaidKept ==
  ASSUME NEW c \in Clients, SaidBy(c), Unread(c)' = Unread(c),
         AtTable(c)' => AtTable(c) \/ Unread(c) = <<>>,
         Waiting(c)' => Waiting(c) /\ (fdOf'[c] \in Speakers' => fdOf[c] \in Speakers)
  PROVE  SaidBy(c)'
<1>1. ASSUME AtTable(c)' PROVE \A i \in DOMAIN Unread(c)' : Unread(c)'[i].type = "TRICK"
  <2>1. CASE AtTable(c)
    BY <2>1 DEF SaidBy
  <2>2. CASE Unread(c) = <<>>
    BY <2>2
  <2> QED BY <1>1, <2>1, <2>2
<1>2. Waiting(c)' => (Len(Unread(c)) <= 1)' /\ (fdOf'[c] \in Speakers' => Unread(c)' = <<>>)
  BY DEF SaidBy
<1> QED BY <1>1, <1>2 DEF SaidBy

(* The deadline is over before anything happens.                            *)
LEMMA TimeoutKeeps ==
  ASSUME ProtocolInv, PollTimesOut
  PROVE  ProtocolInv'
<1>1. /\ Seated /\ Exchanged /\ Wired /\ Living /\ updateData \in Updates
      /\ Players \subseteq Fds /\ Candidates \subseteq Fds /\ NoFd \notin Fds
  BY FdsAssumption DEF ProtocolInv, ServerInv, Exchanged, Seated, Tables, Maps, Candidacy, Candidates
<1>2. /\ pc = "poll" /\ pc' = "apply" /\ sending = {}
      /\ UNCHANGED <<tableVars, seating, playerMessages, inbox, receiving, sending, updateData>>
      /\ UNCHANGED <<clientVars, network>>
  BY DEF PollTimesOut, PollTimeout, PollReturns, ReportNothing, Events
<1>3. /\ UNCHANGED <<playerMap, fdOf, incoming, up, down, link, status, cards,
                     nextTrickNumber, nPointMessagesReceived, nDeals>>
      /\ Players' = Players /\ Candidates' = Candidates
  BY <1>2 DEF seating, candidacy, network, clientVars, members, Players, Candidates
<1>4. ServerInv' /\ Apart'
  <2>1. [Next]_vars
    BY DEF PollTimesOut, Next, ServerStep
  <2> QED BY <2>1, ServerPart DEF ProtocolInv
<1>5. updateData.msgs = <<>> /\ updateData.opened = NoFd
  <2>1. Addressed(updateData) = {}
    BY <1>1, <1>2 DEF Wired
  <2>2. updateData.msgs \in Seq(Message)
    BY <1>1 DEF Updates
  <2>3. PICK msgs \in Seq(Message) : msgs = updateData.msgs
    BY <2>2
  <2>4. msgs = <<>>
    <3>1. Addressed(updateData) = {msgs[i].fd : i \in DOMAIN msgs}
      BY <2>3 DEF Addressed
    <3>2. DOMAIN msgs = {}
      BY <2>1, <3>1
    <3> QED BY <3>2
  <2> QED BY <1>1, <1>2, <2>3, <2>4 DEF Exchanged, Pending
<1>6. Wired'
  BY <1>1, <1>2, <1>3 DEF Wired, InStore, Stopped
<1>7. Living'
  <2>1. ASSUME NEW c \in Clients PROVE LivingAt(c)'
    <3>1. LivingAt(c)
      BY <1>1 DEF Living
    <3> QED BY <1>2, <1>3, <3>1 DEF LivingAt, Stopped
  <2>2. ClientTypes'
    BY <1>1, <1>2, <1>3 DEF Living, ClientTypes, clientVars, members
  <2> QED BY <2>1, <2>2 DEF Living
<1>8. Batch' = <<>> /\ Batch = <<>>
  BY <1>2, <1>5 DEF Batch
<1>9. Heard' /\ Hushed'
  <2>1. CardsOnly(playerMessages)'
    BY <1>2 DEF ProtocolInv, Said, Heard, CardsOnly
  <2> QED BY <1>2, <1>8, <2>1 DEF Heard, Hushed
<1>10. ASSUME NEW c \in Clients
       PROVE  /\ AtTable(c)' <=> AtTable(c)
              /\ Waiting(c)' => Waiting(c)
  BY <1>1, <1>2, <1>3, <1>5 DEF AtTable, Waiting
<1>11. ASSUME NEW c \in Clients
       PROVE  SaidBy(c)' /\ (InTouch(c) => InTouch(c)')
  <2>1. SaidBy(c)
    BY DEF ProtocolInv, Said
  <2>2. Unread(c)' = Unread(c) /\ Members(c)' = Members(c)
    BY <1>3 DEF Unread, Members
  <2>3. HandedOver(c) = <<>> /\ HandedOver(c)' = <<>>
    <3>1. SentTo(fdOf[c], <<>>) = <<>>
      BY SentNone
    <3> QED BY <1>2, <1>5, <3>1 DEF HandedOver, Written, Between
  <2>4. OnTheWay(c)' = OnTheWay(c)
    BY <1>3, <2>3 DEF OnTheWay
  <2>5. Told(c)' = Told(c)
    BY <2>2, <2>4 DEF Told
  <2>6. Speakers' = {}
    BY <1>8 DEF Speakers
  <2>7. SaidBy(c)'
    BY <1>10, <2>1, <2>2, <2>6, SaidKept
  <2>8. InTouch(c) => InTouch(c)'
    BY <1>2, <1>3, <1>10, <2>2, <2>4, <2>5, TouchKept
  <2> QED BY <2>7, <2>8
<1>12. AllInTouch' /\ Said'
  BY <1>2, <1>9, <1>11 DEF ProtocolInv, AllInTouch, Said
<1> QED BY <1>4, <1>6, <1>7, <1>9, <1>12 DEF ProtocolInv

(* The server stops: only the processes that were told all are left to be   *)
(* in touch with, and only if it was meant to stop.                         *)
LEMMA StopKeeps ==
  ASSUME ProtocolInv, ServerGoesOn, NEW how \in {"done", "error", "crash"}, Stop(how),
         how = "done" => pc = "close"
  PROVE  ProtocolInv'
<1>1. Wired /\ Living /\ Seated /\ Exchanged /\ updateData \in Updates
  BY DEF ProtocolInv, ServerInv, Exchanged
<1>2. ServerInv' /\ Apart'
  <2>1. [Next]_vars
    BY DEF ServerGoesOn, Next, ServerStep
  <2> QED BY <2>1, ServerPart DEF ProtocolInv
<1>3. Wired' /\ Living' /\ \A c \in Clients : fdOf'[c] = NoFd /\ link'[c] # "open"
  BY <1>1, WiresStop
<1>4. /\ pc' = how /\ Players' = {} /\ Candidates' = {} /\ NoFd \notin Fds
      /\ playerMessages' = <<>> /\ inbox' = <<>> /\ pc' \notin {"apply", "dispatch", "handle"}
      /\ ~Between' /\ pc' # "poll"
  BY FdsAssumption DEF Stop, Players, Candidates, Between
<1>5. \A c \in Clients : ~AtTable(c)' /\ ~Waiting(c)'
  BY <1>3, <1>4 DEF AtTable, Waiting
<1>6. Said'
  <2>1. Batch' = <<>>
    BY <1>4 DEF Batch
  <2>2. Heard'
    BY <1>4, <2>1 DEF Heard, CardsOnly
  <2> QED BY <1>5, <2>2 DEF Said, SaidBy
<1>7. ASSUME NEW c \in Clients, how = "done" PROVE InTouch(c)'
  <2>1. pc = "close" /\ fdOf[c] = NoFd
    BY <1>1, <1>7 DEF Wired, InStore, Stopped
  <2>2. InTouch(c)
    BY <2>1 DEF ProtocolInv, AllInTouch
  <2>3. UNCHANGED <<status, cards, nextTrickNumber, nPointMessagesReceived, nDeals, down>>
    BY DEF ServerGoesOn, members
  <2>4. HandedOver(c) = <<>> /\ HandedOver(c)' = <<>>
    BY <1>4, <2>1 DEF HandedOver, Between
  <2>5. Members(c)' = Members(c) /\ Told(c)' = Told(c)
    BY <2>3, <2>4 DEF Members, Told, OnTheWay
  <2>6. ~AtTable(c)
    BY <1>1, <1>4, <2>1 DEF AtTable, Seated
  <2> QED BY <1>5, <2>2, <2>3, <2>5, <2>6, TouchKept
<1>8. AllInTouch' /\ Hushed'
  BY <1>4, <1>7 DEF AllInTouch, Hushed
<1> QED BY <1>2, <1>3, <1>6, <1>8 DEF ProtocolInv

(* The server hands over to the store what it has to say.                   *)
LEMMA PrePollKeepsAll ==
  ASSUME ProtocolInv, ServerGoesOn, PrePoll
  PROVE  ProtocolInv'
<1>1. /\ Wired /\ Living /\ Seated /\ Queued /\ Exchanged /\ updateData \in Updates
      /\ ClientTypes /\ Players \subseteq Fds /\ NoFd \notin Fds
  BY FdsAssumption DEF ProtocolInv, ServerInv, Exchanged, Seated, Living
<1>2. ServerInv' /\ Apart'
  <2>1. [Next]_vars
    BY DEF ServerGoesOn, Next, ServerStep
  <2> QED BY <2>1, ServerPart DEF ProtocolInv
<1>3. /\ Wired' /\ Living' /\ pc' = "poll" /\ Out' = Out /\ Players' = Players
      /\ updateData' \in Updates
      /\ UNCHANGED <<tableVars, playerMap>> /\ Candidates' \subseteq Candidates
      /\ \A c \in Clients :
            \/ fdOf'[c] = NoFd /\ link'[c] # "open"
                 /\ fdOf[c] \notin Addressed(updateData) /\ fdOf[c] \notin Players
            \/ fdOf'[c] = fdOf[c] /\ link'[c] = link[c]
                 /\ up'[c] = up[c] /\ incoming'[c] = incoming[c]
  BY <1>1, WiresPrePoll
<1>4. pc = "update" /\ UNCHANGED playerMessages
  BY <1>3 DEF PrePoll, Stop
<1>5. UNCHANGED <<status, cards, nextTrickNumber, nPointMessagesReceived, nDeals, down>>
  BY DEF ServerGoesOn, members
<1>6. NoFd \notin Candidates /\ NoFd \notin Players
  BY <1>1 DEF Seated, Tables, Maps, Candidacy, Candidates
<1>7. ASSUME NEW c \in Clients
      PROVE  /\ AtTable(c)' <=> AtTable(c)
             /\ AtTable(c) => fdOf'[c] = fdOf[c]
             /\ Waiting(c)' => Waiting(c)
             /\ Unread(c)' = Unread(c) \/ (~AtTable(c)' /\ ~Waiting(c)')
             /\ OnTheWay(c)' = OnTheWay(c)
  <2>1. /\ AtTable(c) <=> fdOf[c] \in Players
        /\ AtTable(c)' <=> fdOf'[c] \in Players
        /\ Waiting(c) <=> fdOf[c] \in Candidates \/ (fdOf[c] = NoFd /\ link[c] = "open")
        /\ Waiting(c)' <=> fdOf'[c] \in Candidates' \/ (fdOf'[c] = NoFd /\ link'[c] = "open")
    BY <1>3, <1>4 DEF AtTable, Waiting
  <2>2. HandedOver(c) = Written(c) /\ HandedOver(c)' = Written(c)'
    BY <1>3, <1>4 DEF HandedOver, Between
  <2>3. CASE fdOf'[c] = fdOf[c] /\ link'[c] = link[c] /\ up'[c] = up[c] /\ incoming'[c] = incoming[c]
    <3>1. Written(c)' = Written(c)
      BY <1>3, <2>3 DEF Written, Out
    <3>2. Unread(c)' = Unread(c)
      BY <2>3 DEF Unread
    <3> QED BY <1>3, <1>5, <2>1, <2>2, <2>3, <3>1, <3>2 DEF OnTheWay
  <2>4. CASE fdOf'[c] = NoFd /\ link'[c] # "open" /\ fdOf[c] \notin Addressed(updateData)
               /\ fdOf[c] \notin Players
    <3>1. Written(c) = <<>>
      BY <1>1, <2>4, NotWritten
    <3>2. Written(c)' = <<>>
      <4>1. updateData'.msgs \in Seq(Message)
        BY <1>3 DEF Updates
      <4>2. PICK msgs \in Seq(Message) : msgs = updateData'.msgs
        BY <4>1
      <4>3. \A i \in DOMAIN msgs : msgs[i].fd # NoFd
        <5>1. \A i \in DOMAIN msgs : msgs[i] \in Message
          OBVIOUS
        <5> QED BY <5>1, FdsAssumption DEF Message
      <4>4. SentTo(NoFd, msgs) = <<>>
        BY <4>3, SentToOthers
      <4> QED BY <2>4, <4>2, <4>4 DEF Written
    <3> QED BY <1>3, <1>5, <1>6, <2>1, <2>2, <2>4, <3>1, <3>2 DEF OnTheWay
  <2> QED BY <1>3, <2>3, <2>4
<1>8. Batch' = <<>>
  BY <1>3 DEF Batch
<1>9. Heard' /\ Hushed'
  <2>1. CardsOnly(playerMessages)'
    BY <1>4 DEF ProtocolInv, Said, Heard, CardsOnly
  <2> QED BY <1>3, <1>8, <2>1 DEF Heard, Hushed
<1>10. ASSUME NEW c \in Clients PROVE SaidBy(c)' /\ InTouch(c)'
  <2>1. SaidBy(c) /\ InTouch(c)
    BY <1>4 DEF ProtocolInv, Said, AllInTouch
  <2>2. Speakers' = {}
    BY <1>8 DEF Speakers
  <2>3. ASSUME Unread(c)' = Unread(c) PROVE SaidBy(c)'
    BY <1>7, <2>1, <2>2, <2>3, SaidKept
  <2>4. ASSUME ~AtTable(c)' /\ ~Waiting(c)' PROVE SaidBy(c)'
    BY <2>4 DEF SaidBy
  <2>5. Members(c)' = Members(c) /\ Told(c)' = Told(c)
    BY <1>5, <1>7 DEF Members, Told
  <2>6. InTouch(c)'
    BY <1>3, <1>5, <1>7, <2>1, <2>5, TouchKept
  <2> QED BY <1>7, <2>3, <2>4, <2>6
<1>11. AllInTouch' /\ Said'
  BY <1>9, <1>10 DEF AllInTouch, Said
<1> QED BY <1>2, <1>3, <1>9, <1>11 DEF ProtocolInv

(* Between two calls of the store: what has to be shown of a step.          *)
LEMMA CarriesOn ==
  ASSUME ProtocolInv, ServerGoesOn, ~Stopped', pc # "poll", pc' \notin {"poll", "close"},
         UNCHANGED store, Heard', Hushed', Speakers' \subseteq Speakers,
         \A c \in Clients : /\ AtTable(c)' => AtTable(c) \/ Unread(c) = <<>>
                            /\ Waiting(c)' => Waiting(c)
                            /\ InTouch(c)'
  PROVE  ProtocolInv'
<1>1. Wired /\ Living
  BY DEF ProtocolInv
<1>2. ServerInv' /\ Apart'
  <2>1. [Next]_vars
    BY DEF ServerGoesOn, Next, ServerStep
  <2> QED BY <2>1, ServerPart DEF ProtocolInv
<1>3. UNCHANGED <<clientVars, network>>
  BY <1>1, NobodyCut
<1>4. Wired' /\ Living'
  BY <1>1, <1>3, WiresStay
<1>5. ASSUME NEW c \in Clients PROVE SaidBy(c)'
  <2>1. SaidBy(c)
    BY DEF ProtocolInv, Said
  <2>2. Unread(c)' = Unread(c) /\ fdOf'[c] = fdOf[c]
    BY <1>3 DEF Unread, clientVars, network
  <2> QED BY <2>1, <2>2, SaidKept
<1>6. Said' /\ AllInTouch'
  BY <1>5 DEF Said, AllInTouch
<1> QED BY <1>2, <1>4, <1>6 DEF ProtocolInv

(* The server takes in what poll reported.                                  *)
LEMMA ApplyKeepsAll ==
  ASSUME ProtocolInv, ServerGoesOn, Apply, pc' # "error"
  PROVE  ProtocolInv'
<1> DEFINE gone == ToSet(updateData.closed)
           new  == updateData.opened
<1>1. /\ Wired /\ Living /\ Seated /\ Queued /\ Exchanged /\ updateData \in Updates
      /\ ClientTypes /\ Players \subseteq Fds /\ NoFd \notin Fds
      /\ Candidates \subseteq Fds
  BY FdsAssumption DEF ProtocolInv, ServerInv, Exchanged, Seated, Living, Tables, Maps,
                       Candidacy, Candidates
<1>2. /\ pc = "apply" /\ pc' = "dispatch"
      /\ CandidatesAre(PushCandidate(CandidatesWithout(updateData.closed), new))
      /\ playerMap' = PlayersWithout(updateData.closed)
      /\ inbox' = updateData.msgs /\ updateData' = NoUpdate
      /\ UNCHANGED <<tableVars, playerMessages, store>>
  BY DEF Apply, Stop
<1>3. /\ receiving = ((Candidates \cup Players) \ gone) \cup ({new} \ {NoFd})
      /\ new \notin (Candidates \cup Players) \ gone
      /\ sending = {} /\ updateData.closed \in Seq(Fds)
  BY <1>1, <1>2 DEF Exchanged, StoreAgrees, Pending, Connected, Wired, Updates
<1>4. /\ Players' = Players \ gone
      /\ \A fd \in Players' : playerMap'[fd] = playerMap[fd]
  BY <1>2 DEF PlayersWithout, Players
<1>5. Candidates' \subseteq (Candidates \ gone) \cup ({new} \ {NoFd})
  <2>1. PICK left \in Tables : /\ left = CandidatesWithout(updateData.closed)
                               /\ Removes(Candidacy, left, gone)
    BY <1>1, <1>3, PopMany DEF Seated
  <2>2. DOMAIN left.map = Candidates \ gone
    BY <2>1 DEF Removes, Candidacy, Candidates
  <2>3. Candidates' = DOMAIN PushCandidate(left, new).map
    BY <1>2, <2>1 DEF CandidatesAre, Candidates
  <2> QED BY <2>2, <2>3 DEF PushCandidate
<1>6. UNCHANGED <<clientVars, network>>
  BY <1>1, <1>2, NobodyCut DEF Stopped
<1>7. UNCHANGED <<fdOf, link, status, cards, nextTrickNumber, nPointMessagesReceived, nDeals, down>>
  BY <1>6 DEF clientVars, network, members
<1> HIDE DEF gone, new
<1>8. ASSUME NEW c \in Clients
      PROVE  /\ AtTable(c)' <=> AtTable(c)
             /\ Waiting(c)' => Waiting(c)
  <2>1. fdOf[c] = NoFd \/ fdOf[c] \in receiving
    BY <1>1, <1>3 DEF Wired, InStore
  <2>2. AtTable(c) <=> fdOf[c] \in Players /\ fdOf[c] # new
    BY <1>2 DEF AtTable, new
  <2>3. AtTable(c)' <=> fdOf[c] \in Players'
    BY <1>2, <1>7 DEF AtTable
  <2>4. Waiting(c) <=> \/ fdOf[c] \in Candidates \/ (fdOf[c] = new /\ fdOf[c] # NoFd)
                       \/ (fdOf[c] = NoFd /\ link[c] = "open")
    BY <1>2 DEF Waiting, new
  <2>5. Waiting(c)' <=> fdOf[c] \in Candidates' \/ (fdOf[c] = NoFd /\ link[c] = "open")
    BY <1>2, <1>7 DEF Waiting
  <2> QED BY <1>1, <1>3, <1>4, <1>5, <2>1, <2>2, <2>3, <2>4, <2>5
<1>9. ASSUME NEW c \in Clients PROVE InTouch(c)'
  <2>1. InTouch(c)
    BY <1>2 DEF ProtocolInv, AllInTouch
  <2>2. HandedOver(c) = <<>>
    BY <1>2 DEF HandedOver, Between
  <2>3. HandedOver(c)' = <<>>
    <3>1. SentTo(fdOf'[c], <<>>) = <<>>
      BY SentNone
    <3> QED BY <1>2, <3>1 DEF HandedOver, Between, Written, NoUpdate
  <2>4. OnTheWay(c)' = OnTheWay(c) /\ Members(c)' = Members(c)
    BY <1>7, <2>2, <2>3 DEF OnTheWay, Members
  <2>5. Told(c)' = Told(c)
    BY <2>4 DEF Told
  <2>6. AtTable(c) => playerMap'[fdOf'[c]] = playerMap[fdOf[c]]
    <3>1. AtTable(c)' => fdOf[c] \in Players'
      BY <1>2, <1>7 DEF AtTable
    <3> QED BY <1>4, <1>7, <1>8, <3>1
  <2> QED BY <1>2, <1>7, <1>8, <2>1, <2>4, <2>5, <2>6, TouchKept
<1>10. Batch' = Batch
  BY <1>2 DEF Batch
<1>11. Heard'
  <2>1. CardsOnly(playerMessages)'
    BY <1>2 DEF ProtocolInv, Said, Heard, CardsOnly
  <2> QED BY <1>2, <1>4, <1>10, <2>1 DEF ProtocolInv, Said, Heard
<1>12. Hushed'
  BY <1>2 DEF Hushed, Out, NoUpdate
<1>13. Speakers' = Speakers /\ ~Stopped' /\ pc # "poll" /\ pc' \notin {"poll", "close"}
  BY <1>2, <1>10 DEF Speakers, Stopped
<1> QED BY <1>2, <1>8, <1>9, <1>11, <1>12, <1>13, CarriesOn

(* The server says something between two calls of the store: who is at the  *)
(* table stays there, and reads only what does not concern it.              *)
LEMMA SmallTalk ==
  ASSUME ClientTypes, updateData \in Updates, UNCHANGED <<clientVars, network>>,
         Between, Between', NEW out \in Seq(Message), Out' = Out \o out,
         NEW c \in Clients, InTouch(c), SentTo(fdOf[c], out) \in Seq(Idle),
         Waiting(c)' => Waiting(c) /\ SentTo(fdOf[c], out) = <<>>,
         AtTable(c)' <=> AtTable(c),
         AtTable(c) => UNCHANGED tableVars /\ playerMap'[fdOf[c]] = playerMap[fdOf[c]]
  PROVE  InTouch(c)'
<1>1. UNCHANGED <<fdOf, status, down>> /\ Members(c)' = Members(c)
  BY DEF clientVars, network, members, Members
<1>2. PICK p \in Seq(Idle) : p = SentTo(fdOf[c], out)
  OBVIOUS
<1>3. OnTheWay(c)' = OnTheWay(c) \o p /\ Told(c)' = AllHandled(Told(c), p)
  BY <1>2, ToldMore
<1>4. Told(c) \in View /\ OnTheWay(c) \in Seq(Words)
  BY ToldTyped
<1>5. Told(c)' = Told(c)
  BY <1>3, <1>4, HandledIdle
<1>6. p = <<>> => OnTheWay(c) \o p = OnTheWay(c)
  BY <1>4
<1> QED BY <1>1, <1>2, <1>3, <1>5, <1>6, TouchKept

(* Nothing is said.                                                         *)
LEMMA NoTalk ==
  ASSUME ClientTypes, updateData \in Updates, UNCHANGED <<clientVars, network>>,
         Between, Between', Out' = Out, UNCHANGED tableVars,
         NEW c \in Clients, InTouch(c), Waiting(c)' => Waiting(c),
         AtTable(c)' <=> AtTable(c), AtTable(c) => playerMap'[fdOf[c]] = playerMap[fdOf[c]]
  PROVE  InTouch(c)'
<1>1. Out' = Out \o <<>>
  <2>1. PICK msgs \in Seq(Message) : msgs = Out
    BY DEF Updates, Out
  <2>2. msgs \o <<>> = msgs
    OBVIOUS
  <2> QED BY <2>1, <2>2
<1>2. SentTo(fdOf[c], <<>>) = <<>>
  BY SentNone
<1>3. <<>> \in Seq(Message) /\ <<>> \in Seq(Idle)
  OBVIOUS
<1>4. SentTo(fdOf[c], <<>>) \in Seq(Idle)
  BY <1>2, <1>3
<1> QED BY <1>1, <1>2, <1>3, <1>4, SmallTalk

(* A seat is still empty, or a turn begins.                                 *)
LEMMA WaitingKeepsAll ==
  ASSUME ProtocolInv, ServerGoesOn, UpdateAgain \/ BeginHandling, ~Stopped'
  PROVE  ProtocolInv'
<1>1. /\ Wired /\ Living /\ updateData \in Updates /\ ClientTypes
  BY DEF ProtocolInv, ServerInv, Exchanged, Living
<1>2. /\ pc = "dispatch" /\ pc' \in {"update", "handle"} /\ inbox = <<>>
      /\ UNCHANGED <<tableVars, seating, updateData, store>>
      /\ \/ pc' = "update" /\ UNCHANGED playerMessages
         \/ pc' = "handle" /\ inbox' = playerMessages /\ playerMessages' = <<>>
  BY DEF UpdateAgain, BeginHandling, TakePlayerMessages, Stop, Stopped
<1>3. UNCHANGED <<clientVars, network>>
  BY <1>1, <1>2, NobodyCut
<1>4. UNCHANGED <<playerMap, candidateMap, fdOf, link>>
  BY <1>2, <1>3 DEF seating, candidacy, clientVars, network
<1>5. Between /\ Between' /\ Out' = Out
  BY <1>2 DEF Between, Out
<1>6. ASSUME NEW c \in Clients
      PROVE  (AtTable(c)' <=> AtTable(c)) /\ (Waiting(c)' => Waiting(c)) /\ InTouch(c)'
  <2>1. (AtTable(c)' <=> AtTable(c)) /\ (Waiting(c)' => Waiting(c))
    BY <1>2, <1>4 DEF AtTable, Waiting, Players, Candidates
  <2>2. InTouch(c)
    BY <1>2 DEF ProtocolInv, AllInTouch
  <2>3. UNCHANGED tableVars /\ playerMap' = playerMap /\ fdOf' = fdOf
    BY <1>2, <1>4
  <2> QED BY <1>1, <1>3, <1>5, <2>1, <2>2, <2>3, NoTalk
<1>7. Batch' = <<>>
  BY <1>2 DEF Batch
<1>8. Heard'
  BY <1>2, <1>7 DEF ProtocolInv, Said, Heard, CardsOnly
<1>9. Hushed' /\ Speakers' = {} /\ pc # "poll" /\ pc' \notin {"poll", "close"}
  BY <1>2, <1>7 DEF Hushed, Speakers
<1> QED BY <1>2, <1>6, <1>8, <1>9, CarriesOn

(* Update has gone through one message of the batch.                        *)
LEMMA NextOfBatch ==
  ASSUME Heard, pc = "dispatch", pc' = "dispatch", inbox \in Seq(Message), inbox # <<>>,
         inbox' = Tail(inbox), NEW fd, fd = Head(inbox).fd,
         Players' \subseteq Players \cup {fd}, CardsOnly(playerMessages)'
  PROVE  /\ Heard' /\ Speakers' \subseteq Speakers \ {fd} /\ fd \in Speakers
         /\ fd \in Players => Head(inbox).content.type = "TRICK"
<1>1. PICK q \in Seq(Message) : q = inbox
  OBVIOUS
<1>2. PICK t \in Seq(Message) : /\ t = Tail(q) /\ Len(t) = Len(q) - 1
                                /\ \A i \in 1 .. Len(t) : t[i] = q[i + 1]
  <2>1. /\ Tail(q) \in Seq(Message) /\ Len(Tail(q)) = Len(q) - 1
        /\ \A i \in 1 .. Len(Tail(q)) : Tail(q)[i] = q[i + 1]
    BY <1>1
  <2> QED BY <2>1
<1>3. Batch = q /\ Batch' = t
  BY <1>1, <1>2 DEF Batch
<1>4. 1 \in DOMAIN q /\ q[1].fd = fd /\ q[1].content = Head(inbox).content
  BY <1>1
<1>5. /\ \A i, j \in DOMAIN q : q[i].fd = q[j].fd => i = j
      /\ \A i \in DOMAIN q : q[i].fd \in Players => q[i].content.type = "TRICK"
  BY <1>3 DEF Heard
<1>6. ASSUME NEW i \in DOMAIN t
      PROVE  i + 1 \in DOMAIN q /\ t[i] = q[i + 1] /\ t[i].fd # fd /\ t[i].fd \in Speakers
  <2>1. i + 1 \in DOMAIN q /\ t[i] = q[i + 1] /\ i + 1 # 1
    BY <1>2
  <2> QED BY <1>3, <1>4, <1>5, <2>1 DEF Speakers
<1>7. Speakers' \subseteq Speakers \ {fd} /\ fd \in Speakers
  BY <1>3, <1>4, <1>6 DEF Speakers
<1>8. \A i, j \in DOMAIN t : t[i].fd = t[j].fd => i = j
  <2> SUFFICES ASSUME NEW i \in DOMAIN t, NEW j \in DOMAIN t, t[i].fd = t[j].fd PROVE i = j
    OBVIOUS
  <2>1. i + 1 = j + 1
    BY <1>5, <1>6
  <2> QED BY <1>2, <2>1
<1>9. \A i \in DOMAIN t : t[i].fd \in Players' => t[i].content.type = "TRICK"
  BY <1>5, <1>6
<1>10. Heard'
  BY <1>3, <1>8, <1>9 DEF Heard
<1> QED BY <1>4, <1>5, <1>7, <1>10

(* A connection is closed, or told that its seat is busy and closed.        *)
LEMMA RefusedTouch ==
  ASSUME Seated, ClientTypes, updateData \in Updates, UNCHANGED <<clientVars, network, tableVars>>,
         pc = "dispatch", pc' = "dispatch", NEW fd \in Fds, fd \notin Players,
         PopConnections(<<fd>>),
         NEW out, out = <<>> \/ out = <<To(fd, MsgBusy)>>, Out' = Out \o out,
         NEW c \in Clients, InTouch(c)
  PROVE  /\ (AtTable(c)' <=> AtTable(c)) /\ (Waiting(c)' => Waiting(c)) /\ InTouch(c)'
<1>1. fdOf' = fdOf /\ link' = link
  BY DEF clientVars, network
<1>2. Candidates' = Candidates \ {fd} /\ Players' = Players /\ playerMap' = playerMap
  <2>1. <<fd>> \in Seq(Fds) /\ ToSet(<<fd>>) = {fd}
    BY DEF ToSet
  <2>2. Candidates' = Candidates \ {fd} /\ Players' = Players \ {fd}
    BY <2>1, PopConnectionsSeated
  <2>3. playerMap' = [f \in Players |-> playerMap[f]]
    BY <2>1 DEF PopConnections, PlayersWithout
  <2> QED BY <2>2, <2>3 DEF Seated
<1>3. (AtTable(c)' <=> AtTable(c)) /\ (Waiting(c)' => Waiting(c) /\ fdOf[c] # fd)
  BY <1>1, <1>2, FdsAssumption DEF AtTable, Waiting
<1>4. To(fd, MsgBusy) \in IdleMessage /\ MsgBusy \in Idle
  BY BusyIsMessage DEF IdleMessage, Idle, Words, To, Message, MsgBusy
<1>5. out \in Seq(Message)
  <2>1. <<To(fd, MsgBusy)>> \in Seq(Message) /\ <<>> \in Seq(Message)
    BY <1>4 DEF IdleMessage
  <2> QED BY <2>1
<1>6. SentTo(fdOf[c], out) \in Seq(Idle) /\ (fdOf[c] # fd => SentTo(fdOf[c], out) = <<>>)
  <2>1. CASE out = <<>>
    <3>1. SentTo(fdOf[c], <<>>) = <<>>
      BY SentNone
    <3>2. <<>> \in Seq(Idle)
      OBVIOUS
    <3>3. SentTo(fdOf[c], out) = <<>>
      BY <2>1, <3>1
    <3> QED BY <3>2, <3>3
  <2>2. CASE out = <<To(fd, MsgBusy)>>
    <3>1. To(fd, MsgBusy) \in Message /\ To(fd, MsgBusy).fd = fd
          /\ To(fd, MsgBusy).content = MsgBusy
      BY <1>4 DEF IdleMessage, To
    <3>2. SentTo(fdOf[c], out) = IF fd = fdOf[c] THEN <<MsgBusy>> ELSE <<>>
      BY <2>2, <3>1, SentOne
    <3> QED BY <1>4, <3>2
  <2> QED BY <2>1, <2>2
<1>7. InTouch(c)'
  <2>1. Between /\ Between'
    BY DEF Between
  <2>2. Waiting(c)' => Waiting(c) /\ SentTo(fdOf[c], out) = <<>>
    BY <1>3, <1>6
  <2> QED BY <1>2, <1>3, <1>5, <1>6, <2>1, <2>2, SmallTalk
<1> QED BY <1>2, <1>3, <1>5, <1>7

(* A process gets its seat, in the middle of the game with all it needs.    *)
LEMMA PromotedTouch ==
  ASSUME TableInv, Apart, Wired, Seated, Exchanged, ClientTypes,
         UNCHANGED <<clientVars, network, tableVars>>,
         pc = "dispatch", pc' = "dispatch", NEW msg \in Message, Known(msg.fd),
         PromoteToPlayer(msg), NEW c \in Clients, InTouch(c)
  PROVE  /\ AtTable(c)' => AtTable(c) \/ (fdOf[c] = msg.fd /\ Waiting(c))
         /\ Waiting(c)' => Waiting(c)
         /\ InTouch(c)'
<1>1. fdOf' = fdOf /\ link' = link /\ status' = status /\ Members(c)' = Members(c)
  BY DEF clientVars, network, members, Members
<1> DEFINE fd == msg.fd
           s == msg.content.seat
<1>2. /\ fd \in Candidates /\ fd \notin Players /\ fd \in Fds
      /\ s \in Seats /\ fd # NoFd
  <2>1. fd \in Fds /\ msg.content \in ClientMessages \cup ServerMessages
    BY DEF Message
  <2>2. fd \in Candidates /\ fd \notin Players /\ msg.content.type = "IAM"
    BY DEF PromoteToPlayer, Known
  <2> QED BY <2>1, <2>2, IamHasSeat, FdsAssumption
<1>3. /\ playerMap' = [f \in Players \cup {fd} |-> IF f = fd THEN s ELSE playerMap[f]]
      /\ updateData' = Send(updateData, AllTo(fd, Recap(s)))
      /\ CandidatesAre(CandidatesWithout(<<fd>>))
  BY DEF PromoteToPlayer
<1> HIDE DEF fd, s
<1>4. Candidates' = Candidates \ {fd} /\ Players' = Players \cup {fd}
  <2>1. <<fd>> \in Seq(Fds) /\ ToSet(<<fd>>) = {fd}
    BY <1>2 DEF ToSet
  <2>2. Removes(Candidacy, CandidatesWithout(<<fd>>), {fd})
    BY <2>1, PopMany DEF Seated
  <2> QED BY <1>3, <2>2 DEF Removes, Candidacy, Candidates, CandidatesAre, Players
<1>5. updateData \in Updates /\ Between /\ Between'
  BY DEF Exchanged, Between
<1> DEFINE out == AllTo(fd, Recap(s))
<1>6. /\ Recap(s) \in Seq(Words) /\ out \in Seq(Message)
      /\ \A i \in DOMAIN out : out[i].fd = fd
  <2>1. Recap(s) \in Seq(ServerMessages)
    BY <1>2, RecapIsMessages
  <2>2. PICK r \in Seq(ServerMessages) : r = Recap(s)
    BY <2>1
  <2>3. r \in Seq(Words)
    BY DEF Words
  <2>4. out = [i \in 1 .. Len(r) |-> To(fd, r[i])]
    BY <2>2 DEF AllTo
  <2>5. \A i \in 1 .. Len(r) : To(fd, r[i]) \in Message /\ To(fd, r[i]).fd = fd
    BY <1>2 DEF To, Message
  <2> HIDE DEF out
  <2> QED BY <2>2, <2>3, <2>4, <2>5
<1>7. Out' = Out \o out
  <2>1. updateData.msgs \in Seq(Message)
    BY <1>5 DEF Updates
  <2> HIDE DEF out
  <2> QED BY <1>3, <1>5, <2>1 DEF Out, Send, Updates, out
<1> HIDE DEF out
<1>8. fd = msg.fd
  BY DEF fd
<1>9. ASSUME fdOf[c] # fd
      PROVE  (AtTable(c)' => AtTable(c)) /\ (Waiting(c)' => Waiting(c)) /\ InTouch(c)'
  <2>1. SentTo(fdOf[c], out) = <<>>
    BY <1>6, <1>9, SentToOthers
  <2>2. <<>> \in Seq(Idle)
    OBVIOUS
  <2>3. (AtTable(c)' <=> AtTable(c)) /\ (Waiting(c)' => Waiting(c))
    BY <1>1, <1>4, <1>9 DEF AtTable, Waiting
  <2>4. AtTable(c) => playerMap'[fdOf[c]] = playerMap[fdOf[c]]
    BY <1>3, <1>9 DEF AtTable
  <2>5. SentTo(fdOf[c], out) \in Seq(Idle)
    BY <2>1, <2>2
  <2>6. InTouch(c)'
    BY <1>5, <1>6, <1>7, <2>1, <2>3, <2>4, <2>5, SmallTalk
  <2> QED BY <2>3, <2>6
<1>10. ASSUME fdOf[c] = fd
       PROVE  Waiting(c) /\ ~Waiting(c)' /\ InTouch(c)'
  <2>1. Waiting(c) /\ ~AtTable(c) /\ AtTable(c)' /\ ~Waiting(c)'
    BY <1>1, <1>2, <1>4, <1>10 DEF AtTable, Waiting
  <2>2. ASSUME status[c] = "up" PROVE Right(playerMap[fdOf[c]], Told(c))'
    <3>1. Members(c) = Blank /\ OnTheWay(c) = <<>>
      BY <2>1, <2>2 DEF InTouch
    <3>2. Told(c) = Blank
      <4>1. Members(c) \in View
        BY <1>5, ToldTyped
      <4> QED BY <3>1, <4>1, HandledNone DEF Told
    <3>3. SentTo(fd, out) = Recap(s)
      BY <1>2, <1>6, SentAll DEF out
    <3>4. Told(c)' = AllHandled(Blank, Recap(s))
      BY <1>5, <1>6, <1>7, <1>10, <3>2, <3>3, ToldMore
    <3>5. PICK w : w = AllHandled(Blank, Recap(s))
      OBVIOUS
    <3>6. Right(s, w)
      BY <1>2, <3>5, RightFromRecap
    <3>7. playerMap'[fdOf'[c]] = s
      BY <1>1, <1>3, <1>10
    <3> QED BY <3>4, <3>5, <3>6, <3>7
            DEF tableVars, gameVars, Right, InPlay, TrickOngoing, CardsOf
  <2>3. status[c] = "premature" => Members(c)'.dealt = 0
    BY <1>1 DEF InTouch
  <2>4. InTouch(c)'
    BY <1>1, <2>1, <2>2, <2>3 DEF InTouch
  <2> QED BY <2>1, <2>4
<1> QED BY <1>8, <1>9, <1>10

(* One message of the batch.                                                *)
LEMMA DispatchKeepsAll ==
  ASSUME ProtocolInv, ServerGoesOn, Dispatch, ~Stopped'
  PROVE  ProtocolInv'
<1> DEFINE msg == Head(inbox)
<1>1. /\ TableInv /\ Apart /\ Wired /\ Living /\ Seated /\ Exchanged /\ Said /\ Hushed
      /\ updateData \in Updates /\ ClientTypes /\ inbox \in Seq(Message)
      /\ playerMessages \in Seq(Message) /\ updateData.msgs \in Seq(Message)
  BY DEF ProtocolInv, ServerInv, Exchanged, Living, Queued, Updates
<1>2. /\ pc = "dispatch" /\ pc' = "dispatch" /\ inbox # <<>> /\ Known(msg.fd)
      /\ \/ KeepForGame(msg) \/ RefuseSeat(msg) \/ PromoteToPlayer(msg) \/ CloseCandidate(msg)
      /\ inbox' = Tail(inbox)
      /\ UNCHANGED tableVars /\ UNCHANGED store
  BY DEF Dispatch, Stop, Stopped
<1>3. msg \in Message /\ msg.fd \in Fds
  <2>1. msg \in Message
    BY <1>1, <1>2
  <2> HIDE DEF msg
  <2> QED BY <2>1 DEF Message
<1>4. UNCHANGED <<clientVars, network>> /\ fdOf' = fdOf
  BY <1>1, <1>2, NobodyCut DEF network
<1>5. Heard /\ CardsOnly(playerMessages) /\ pc # "poll" /\ pc' \notin {"poll", "close"}
      /\ Between /\ Between'
  BY <1>1, <1>2 DEF Said, Heard, Between
<1>6. ASSUME NEW c \in Clients PROVE InTouch(c) /\ SaidBy(c)
  BY <1>1, <1>2 DEF ProtocolInv, AllInTouch, Said
<1>7. PICK fd \in Fds : fd = msg.fd
  BY <1>3
<1>8. ~TrickOngoing => Out \in Seq(IdleMessage)
  BY <1>1, <1>2 DEF Hushed
<1>9. TrickOngoing' <=> TrickOngoing
  BY <1>2 DEF TrickOngoing, tableVars, gameVars
<1>10. CASE KeepForGame(msg)
  <2>1. /\ fd \in Players /\ playerMessages' = Append(playerMessages, msg)
        /\ UNCHANGED seating /\ UNCHANGED updateData
    BY <1>7, <1>10 DEF KeepForGame
  <2>2. UNCHANGED <<playerMap, candidateMap, link>> /\ Players' = Players
    BY <1>4, <2>1 DEF seating, candidacy, clientVars, Players
  <2>3. msg.content.type = "TRICK"
    <3>1. Batch = inbox /\ 1 \in DOMAIN inbox /\ inbox[1] = msg
      BY <1>1, <1>2 DEF Batch
    <3> HIDE DEF msg
    <3> QED BY <1>5, <1>7, <2>1, <3>1 DEF Heard
  <2>4. CardsOnly(playerMessages)'
    <3>1. PICK q \in Seq(Message) : q = playerMessages
      BY <1>1
    <3> HIDE DEF msg
    <3>2. CardsOnly(Append(q, msg))
      BY <1>3, <1>5, <2>3, <3>1 DEF CardsOnly
    <3> QED BY <2>1, <3>1, <3>2 DEF CardsOnly
  <2>5. Heard' /\ Speakers' \subseteq Speakers
    BY <1>1, <1>2, <1>5, <1>7, <2>2, <2>4, NextOfBatch
  <2>6. ASSUME NEW c \in Clients
        PROVE  (AtTable(c)' <=> AtTable(c)) /\ (Waiting(c)' => Waiting(c)) /\ InTouch(c)'
    <3>1. (AtTable(c)' <=> AtTable(c)) /\ (Waiting(c)' => Waiting(c))
      BY <1>2, <1>4, <2>2 DEF AtTable, Waiting, Candidates
    <3>2. Out' = Out /\ playerMap' = playerMap
      BY <2>1, <2>2 DEF Out
    <3> QED BY <1>1, <1>2, <1>4, <1>5, <1>6, <3>1, <3>2, NoTalk
  <2>7. Hushed'
    BY <1>8, <1>9, <2>1 DEF Hushed, Out, IdleMessage, Message, Idle, Words
  <2> QED BY <1>2, <1>5, <2>5, <2>6, <2>7, CarriesOn
<1>11. CASE RefuseSeat(msg) \/ CloseCandidate(msg)
  <2>1. /\ fd \notin Players /\ PopConnections(<<fd>>) /\ UNCHANGED playerMessages
        /\ \/ updateData' = Close(Send(updateData, <<To(fd, MsgBusy)>>), fd)
           \/ updateData' = Close(updateData, fd)
    BY <1>7, <1>11 DEF RefuseSeat, CloseCandidate
  <2>2. PICK out : /\ out = <<>> \/ out = <<To(fd, MsgBusy)>>
                   /\ Out' = Out \o out
    <3>1. PICK msgs \in Seq(Message) : msgs = Out
      BY <1>1 DEF Out
    <3>2. msgs \o <<>> = msgs
      OBVIOUS
    <3>3. CASE updateData' = Close(updateData, fd)
      BY <1>1, <3>1, <3>2, <3>3 DEF Close, Out, Updates
    <3>4. CASE updateData' = Close(Send(updateData, <<To(fd, MsgBusy)>>), fd)
      BY <1>1, <3>4 DEF Close, Send, Out, Updates
    <3> QED BY <2>1, <3>3, <3>4
  <2>3. ASSUME NEW c \in Clients
        PROVE  /\ (AtTable(c)' <=> AtTable(c)) /\ (Waiting(c)' => Waiting(c)) /\ InTouch(c)'
    BY <1>1, <1>2, <1>4, <1>6, <2>1, <2>2, RefusedTouch
  <2>4. Players' = Players \ {fd}
    <3>1. <<fd>> \in Seq(Fds) /\ ToSet(<<fd>>) = {fd}
      BY DEF ToSet
    <3> QED BY <1>1, <2>1, <3>1, PopConnectionsSeated
  <2>5. CardsOnly(playerMessages)'
    BY <1>5, <2>1 DEF CardsOnly
  <2>6. Heard' /\ Speakers' \subseteq Speakers
    BY <1>1, <1>2, <1>5, <1>7, <2>4, <2>5, NextOfBatch
  <2>7. out \in Seq(IdleMessage)
    <3>1. To(fd, MsgBusy) \in IdleMessage
      BY BusyIsMessage DEF IdleMessage, Idle, Words, To, Message, MsgBusy
    <3>2. <<To(fd, MsgBusy)>> \in Seq(IdleMessage) /\ <<>> \in Seq(IdleMessage)
      BY <3>1
    <3> QED BY <2>2, <3>2
  <2>8. Hushed'
    <3>1. Out \in Seq(IdleMessage) => Out \o out \in Seq(IdleMessage)
      BY <2>7
    <3> QED BY <1>8, <1>9, <2>2, <3>1 DEF Hushed, IdleMessage, Message, Idle, Words
  <2> QED BY <1>2, <1>5, <2>3, <2>6, <2>8, CarriesOn
<1>12. CASE PromoteToPlayer(msg)
  <2>1. ASSUME NEW c \in Clients
        PROVE  /\ AtTable(c)' => AtTable(c) \/ (fdOf[c] = fd /\ Waiting(c))
               /\ Waiting(c)' => Waiting(c)
               /\ InTouch(c)'
    <3> HIDE DEF msg
    <3> QED BY <1>1, <1>2, <1>3, <1>4, <1>6, <1>7, <1>12, PromotedTouch
  <2>2. Players' \subseteq Players \cup {fd} /\ UNCHANGED playerMessages
    BY <1>7, <1>12 DEF PromoteToPlayer, Players
  <2>3. CardsOnly(playerMessages)'
    BY <1>5, <2>2 DEF CardsOnly
  <2>4. Heard' /\ Speakers' \subseteq Speakers /\ fd \in Speakers
    BY <1>1, <1>2, <1>5, <1>7, <2>2, <2>3, NextOfBatch
  <2>5. ASSUME NEW c \in Clients, AtTable(c)' PROVE AtTable(c) \/ Unread(c) = <<>>
    <3>1. AtTable(c) \/ (fdOf[c] = fd /\ Waiting(c))
      BY <2>1, <2>5
    <3> QED BY <1>6, <2>4, <3>1 DEF SaidBy
  <2>6. Hushed'
    <3> SUFFICES ASSUME ~TrickOngoing PROVE Out' \in Seq(IdleMessage)
      BY <1>9 DEF Hushed, IdleMessage, Message, Idle, Words
    <3>1. updateData' = Send(updateData, AllTo(fd, Recap(msg.content.seat)))
      BY <1>7, <1>12 DEF PromoteToPlayer
    <3>2. AllTo(fd, Recap(msg.content.seat)) = <<>>
      BY DEF Recap, AllTo
    <3>3. Out' = Out \o <<>>
      BY <1>1, <3>1, <3>2 DEF Send, Out, Updates
    <3>4. Out \in Seq(IdleMessage) => Out \o <<>> \in Seq(IdleMessage)
      OBVIOUS
    <3> QED BY <1>8, <3>3, <3>4
  <2> QED BY <1>2, <1>5, <2>1, <2>4, <2>5, <2>6, CarriesOn
<1> QED BY <1>2, <1>10, <1>11, <1>12

(* The server says something to players: what is right for a seat stays     *)
(* right for the process that has it.                                       *)
LEMMA NewsTouch ==
  ASSUME Seated, ClientTypes, updateData \in Updates,
         UNCHANGED <<clientVars, network, seating>>, Between, Between',
         NEW out, out \in Seq(MessagesTo(Players)), Out' = Out \o out,
         NEW c \in Clients, InTouch(c), NEW s, s = playerMap[fdOf[c]],
         NEW w, w = AllHandled(Told(c), SentTo(fdOf[c], out)),
         fdOf[c] \in Players /\ Right(s, Told(c)) => Right(s, w)'
  PROVE  (AtTable(c)' <=> AtTable(c)) /\ (Waiting(c)' => Waiting(c)) /\ InTouch(c)'
<1>1. UNCHANGED <<fdOf, link, status, down, playerMap, candidateMap>> /\ Members(c)' = Members(c)
  BY DEF clientVars, network, members, Members, seating, candidacy
<1>2. pc # "apply" /\ pc' # "apply" /\ Players' = Players /\ Candidates' = Candidates
  BY <1>1 DEF Between, Players, Candidates
<1>3. /\ AtTable(c)' <=> AtTable(c)
      /\ AtTable(c) <=> fdOf[c] \in Players
      /\ Waiting(c)' => Waiting(c)
      /\ Waiting(c) => ~AtTable(c)
  <2>1. Players \subseteq Fds /\ Candidates \cap Players = {} /\ NoFd \notin Fds
    BY FdsAssumption DEF Seated, SeatsConsistent
  <2>2. AtTable(c) <=> fdOf[c] \in Players
    BY <1>2 DEF AtTable
  <2>3. AtTable(c)' <=> fdOf[c] \in Players
    BY <1>1, <1>2 DEF AtTable
  <2>4. Waiting(c) <=> fdOf[c] \in Candidates \/ (fdOf[c] = NoFd /\ link[c] = "open")
    BY <1>2 DEF Waiting
  <2>5. Waiting(c)' <=> fdOf[c] \in Candidates \/ (fdOf[c] = NoFd /\ link[c] = "open")
    BY <1>1, <1>2 DEF Waiting
  <2> QED BY <2>1, <2>2, <2>3, <2>4, <2>5
<1>4. out \in Seq(Message) /\ \A i \in DOMAIN out : out[i].fd \in Players
  BY AddressedTo
<1>5. CASE AtTable(c)
  <2>1. Told(c)' = w
    BY <1>4, ToldMore
  <2>2. status[c] = "up" => Right(s, w)'
    BY <1>3, <1>5 DEF InTouch
  <2>3. status[c] = "up" => Right(playerMap[fdOf[c]], Told(c))'
    BY <1>1, <2>1, <2>2 DEF tableVars, gameVars, Right, InPlay, TrickOngoing, CardsOf
  <2>4. InTouch(c)'
    BY <1>1, <1>3, <1>5, <2>3 DEF InTouch
  <2> QED BY <1>3, <2>4
<1>6. CASE ~AtTable(c)
  <2>1. SentTo(fdOf[c], out) = <<>>
    BY <1>3, <1>4, <1>6, SentToOthers
  <2>2. <<>> \in Seq(Idle)
    OBVIOUS
  <2>3. SentTo(fdOf[c], out) \in Seq(Idle)
    BY <2>1, <2>2
  <2>4. InTouch(c)'
    BY <1>3, <1>4, <1>6, <2>1, <2>3, SmallTalk
  <2> QED BY <1>3, <2>4
<1> QED BY <1>5, <1>6

(* The first deal, when all have gathered.                                  *)
LEMMA NewDealKeepsAll ==
  ASSUME ProtocolInv, ServerGoesOn, NewDealAndTrick
  PROVE  ProtocolInv'
<1>1. /\ TableInv /\ Wired /\ Living /\ Seated /\ Queued /\ Exchanged /\ Said
      /\ updateData \in Updates /\ ClientTypes /\ updateData.msgs \in Seq(Message)
  BY DEF ProtocolInv, ServerInv, Exchanged, Living, Updates
<1>2. pc = "dispatch" /\ inbox = <<>> /\ FullTable /\ RightStep
  BY <1>1, NewDealKeeps DEF NewDealAndTrick
<1>3. pc' # "error"
  BY <1>2 DEF RightStep, RightError
<1>4. /\ StartGame
      /\ updateData' = Send(updateData, DealMsgs(Head(deals)) \o
                           <<To(seatFd[Head(deals).first], MsgTrick(trick'))>>)
      /\ inbox' = playerMessages /\ playerMessages' = <<>> /\ pc' = "handle"
      /\ UNCHANGED seating /\ UNCHANGED store
  BY <1>3 DEF NewDealAndTrick, Stop, TakePlayerMessages
<1>5. UNCHANGED <<clientVars, network>>
  BY <1>1, <1>2, <1>4, NobodyCut DEF Stopped
<1>6. PICK d \in DealConfig : d = Head(deals) /\ d.first \in Seats
  <2>1. deals # <<>> /\ deals \in Seq(DealConfig)
    BY <1>1, <1>4 DEF StartGame, TableInv, TableTypeOK
  <2>2. Head(deals) \in DealConfig
    BY <2>1
  <2> QED BY <2>2 DEF DealConfig
<1>7. PICK t : t = MsgTrick(trick')
  OBVIOUS
<1>8. t \in ServerMessages /\ t.type = "TRICK"
  <2>1. trick' \in Trick /\ trick'.number # 0
    BY <1>4, <1>6, TricksAssumption DEF StartGame, Deal, FirstTrick, Trick
  <2> QED BY <1>7, <2>1, TrickIsMessage DEF MsgTrick
<1>9. /\ \A s \in Seats : seatFd[s] # NoFd /\ seatFd[s] \in Players /\ playerMap[seatFd[s]] = s
      /\ Players \subseteq Fds
  BY <1>1, <1>2, FullTableSeats DEF Seated
<1>10. PICK m : m = To(seatFd[d.first], t) /\ m \in MessagesTo(Players) /\ m \in Message
                /\ m.content = t
  <2>1. To(seatFd[d.first], t) \in MessagesTo(Players)
    BY <1>6, <1>8, <1>9, ToIsMessage
  <2>2. To(seatFd[d.first], t) \in Message /\ To(seatFd[d.first], t).content = t
    BY <1>6, <1>8, <1>9 DEF To, Message
  <2> QED BY <2>1, <2>2
<1>11. PICK out \in Seq(MessagesTo(Players)) : out = DealMsgs(d) \o <<m>>
  <2>1. DealMsgs(d) \in Seq(MessagesTo(Players))
    BY <1>1, <1>2, DealMsgsAddressed
  <2>2. DealMsgs(d) \o <<m>> \in Seq(MessagesTo(Players))
    BY <1>10, <2>1
  <2> QED BY <2>2
<1>12. Out' = Out \o out
  BY <1>1, <1>4, <1>6, <1>7, <1>10, <1>11 DEF Send, Out, Updates
<1>13. Between /\ Between'
  BY <1>2, <1>4 DEF Between
<1>14. ASSUME NEW c \in Clients
       PROVE  (AtTable(c)' <=> AtTable(c)) /\ (Waiting(c)' => Waiting(c)) /\ InTouch(c)'
  <2>1. InTouch(c)
    BY <1>2 DEF ProtocolInv, AllInTouch
  <2>2. PICK s : s = playerMap[fdOf[c]]
    OBVIOUS
  <2>3. PICK w : w = AllHandled(Told(c), SentTo(fdOf[c], out))
    OBVIOUS
  <2>4. ASSUME fdOf[c] \in Players, Right(s, Told(c)) PROVE Right(s, w)'
    <3>1. s \in Seats /\ seatFd[s] = fdOf[c]
      BY <1>1, <2>2, <2>4 DEF Seated, SeatsConsistent
    <3>2. DealMsgs(d) \in Seq(Message) /\ <<m>> \in Seq(Message)
      <4>1. DealMsgs(d) \in Seq(MessagesTo(Players))
        BY <1>1, <1>2, DealMsgsAddressed
      <4> QED BY <1>10, <4>1, AddressedTo
    <3>3. SentTo(fdOf[c], DealMsgs(d)) = <<MsgDeal(d, s)>>
      BY <1>1, <1>2, <3>1, DealMsgsReach
    <3>4. PICK q \in Seq(Idle) : q = SentTo(fdOf[c], <<m>>)
      <4>1. t \in Idle
        BY <1>8 DEF Idle, Words
      <4>2. SentTo(fdOf[c], <<m>>) = IF m.fd = fdOf[c] THEN <<m.content>> ELSE <<>>
        BY <1>10, SentOne
      <4>3. <<t>> \in Seq(Idle) /\ <<>> \in Seq(Idle)
        BY <4>1
      <4>4. SentTo(fdOf[c], <<m>>) \in Seq(Idle)
        BY <1>10, <4>2, <4>3
      <4> QED BY <4>4
    <3>5. SentTo(fdOf[c], out) = <<MsgDeal(d, s)>> \o q
      BY <1>11, <3>2, <3>3, <3>4, SentConcat
    <3>6. MsgDeal(d, s) \in Words /\ q \in Seq(Words) /\ <<MsgDeal(d, s)>> \in Seq(Words)
      <4>1. MsgDeal(d, s) \in Words
        BY <3>1, DealIsMessage DEF Words
      <4>2. q \in Seq(Words)
        BY DEF Idle
      <4> QED BY <4>1, <4>2
    <3>7. Told(c) \in View
      BY <1>1, ToldTyped
    <3>8. PICK v \in View : v = Handled(Told(c), MsgDeal(d, s))
      BY <3>6, <3>7, HandledType
    <3>9. AllHandled(Told(c), <<MsgDeal(d, s)>>) = v
      BY <3>6, <3>7, <3>8, HandledOne
    <3>10. w = AllHandled(v, q)
      <4>1. PICK p \in Seq(Words), v0 \in View : p = <<MsgDeal(d, s)>> /\ v0 = Told(c)
        BY <3>6, <3>7
      <4>2. AllHandled(v0, p \o q) = AllHandled(AllHandled(v0, p), q)
        BY <3>6, HandledConcat
      <4> QED BY <2>3, <3>5, <3>9, <4>1, <4>2
    <3>11. w = v
      BY <3>10, HandledIdle
    <3> QED BY <1>1, <1>4, <1>6, <2>4, <3>1, <3>7, <3>8, <3>11, RightAfterDeal
  <2> QED BY <1>1, <1>4, <1>5, <1>12, <1>13, <2>1, <2>2, <2>3, <2>4, NewsTouch
<1>15. Batch' = <<>>
  BY <1>4 DEF Batch
<1>16. Heard' /\ Hushed'
  BY <1>1, <1>4, <1>15 DEF Said, Heard, CardsOnly, Hushed
<1>17. Speakers' = {} /\ ~Stopped' /\ pc # "poll" /\ pc' \notin {"poll", "close"}
  BY <1>2, <1>4, <1>15 DEF Speakers, Stopped
<1> QED BY <1>4, <1>14, <1>16, <1>17, CarriesOn

(* A message that is no news to a seat: WRONG, or TRICK.                    *)
LEMMA IdleTouch ==
  ASSUME Seated, ClientTypes, updateData \in Updates,
         UNCHANGED <<clientVars, network, seating, tableVars>>, Between, Between',
         NEW m, m \in MessagesTo(Players), m.content \in Idle, Out' = Out \o <<m>>,
         NEW c \in Clients, InTouch(c)
  PROVE  (AtTable(c)' <=> AtTable(c)) /\ (Waiting(c)' => Waiting(c)) /\ InTouch(c)'
<1>1. <<m>> \in Seq(MessagesTo(Players)) /\ m \in Message
  <2>1. <<m>> \in Seq(MessagesTo(Players))
    OBVIOUS
  <2>2. PICK q \in Seq(MessagesTo(Players)) : q = <<m>>
    BY <2>1
  <2>3. q \in Seq(Message)
    BY <2>2, AddressedTo
  <2>4. m \in Message
    BY <2>2, <2>3
  <2> QED BY <2>1, <2>4
<1>2. PICK s : s = playerMap[fdOf[c]]
  OBVIOUS
<1>3. PICK w : w = AllHandled(Told(c), SentTo(fdOf[c], <<m>>))
  OBVIOUS
<1>4. SentTo(fdOf[c], <<m>>) \in Seq(Idle)
  <2>1. <<m.content>> \in Seq(Idle) /\ <<>> \in Seq(Idle)
    OBVIOUS
  <2> QED BY <1>1, <2>1, SentOne
<1>5. w = Told(c)
  BY <1>3, <1>4, ToldTyped, HandledIdle
<1>6. Right(s, Told(c)) => Right(s, w)'
  BY <1>5 DEF tableVars, gameVars, Right, InPlay, TrickOngoing, CardsOf
<1> QED BY <1>1, <1>2, <1>3, <1>6, NewsTouch

(* One message of a turn.                                                   *)
LEMMA HandleKeepsAll ==
  ASSUME ProtocolInv, ServerGoesOn, Handle, ~Stopped'
  PROVE  ProtocolInv'
<1> DEFINE msg == Head(inbox)
<1>1. /\ TableInv /\ Apart /\ Wired /\ Living /\ Seated /\ Exchanged /\ Heard
      /\ updateData \in Updates /\ ClientTypes /\ inbox \in Seq(Message)
      /\ playerMessages \in Seq(Message) /\ updateData.msgs \in Seq(Message)
  BY DEF ProtocolInv, ServerInv, Exchanged, Living, Queued, Updates, Said
<1>2. /\ pc = "handle" /\ pc' = "handle" /\ inbox # <<>>
      /\ ~FullTable \/ msg.fd \in Players
      /\ \/ KeepForResumedGame(msg) \/ ClosePlayer(msg) \/ AnswerWrong(msg) \/ AcceptCard(msg)
      /\ inbox' = Tail(inbox)
      /\ UNCHANGED store
  BY DEF Handle, Stop, Stopped
<1>3. PICK q \in Seq(Message) : q = inbox /\ q # <<>> /\ 1 \in DOMAIN q /\ Head(q) = q[1]
  BY <1>1, <1>2
<1>4. msg \in Message /\ msg.content.type = "TRICK"
  <2>1. CardsOnly(q)
    BY <1>1, <1>2, <1>3 DEF Heard
  <2> QED BY <1>3, <2>1 DEF CardsOnly
<1>5. CardsOnly(inbox)'
  <2>1. CardsOnly(q)
    BY <1>1, <1>2, <1>3 DEF Heard
  <2>2. \A i \in DOMAIN Tail(q) : i + 1 \in DOMAIN q /\ Tail(q)[i] = q[i + 1]
    BY <1>3
  <2>3. CardsOnly(Tail(q))
    BY <2>1, <2>2 DEF CardsOnly
  <2> QED BY <1>2, <1>3, <2>3 DEF CardsOnly
<1> HIDE DEF msg
<1>6. UNCHANGED <<clientVars, network>>
  BY <1>1, <1>2, NobodyCut
<1>7. Between /\ Between' /\ pc # "poll" /\ pc' \notin {"poll", "close"} /\ Hushed'
  BY <1>2 DEF Between, Hushed
<1>8. ASSUME NEW c \in Clients PROVE InTouch(c)
  BY <1>2 DEF ProtocolInv, AllInTouch
<1>9. UNCHANGED seating /\ CardsOnly(playerMessages)'
  <2>1. CardsOnly(playerMessages)
    BY <1>1 DEF Heard
  <2>2. CASE KeepForResumedGame(msg)
    <3>1. PICK p \in Seq(Message) : p = playerMessages
      BY <1>1
    <3>2. CardsOnly(p) /\ CardsOnly(Append(p, msg))
      BY <1>4, <2>1, <3>1 DEF CardsOnly
    <3>3. playerMessages' = p \/ playerMessages' = Append(p, msg)
      BY <2>2, <3>1 DEF KeepForResumedGame
    <3> QED BY <2>2, <3>2, <3>3 DEF KeepForResumedGame, CardsOnly
  <2>3. CASE ~KeepForResumedGame(msg)
    <3>1. UNCHANGED seating /\ UNCHANGED playerMessages
      BY <1>2, <1>4, <2>3 DEF ClosePlayer, AnswerWrong, AcceptCard
    <3> QED BY <2>1, <3>1 DEF CardsOnly
  <2> QED BY <2>2, <2>3
<1>10. Batch' = <<>>
  BY <1>2 DEF Batch
<1>11. Heard' /\ Speakers' = {}
  BY <1>5, <1>9, <1>10 DEF Heard, Speakers
<1>12. ASSUME NEW c \in Clients
       PROVE  (AtTable(c)' <=> AtTable(c)) /\ (Waiting(c)' => Waiting(c)) /\ InTouch(c)'
  <2>1. InTouch(c)
    BY <1>8
  <2>2. CASE KeepForResumedGame(msg)
    <3>1. UNCHANGED tableVars /\ Out' = Out
      BY <2>2 DEF KeepForResumedGame, Out
    <3>2. UNCHANGED <<playerMap, candidateMap, fdOf, link>>
      BY <1>6, <1>9 DEF seating, candidacy, clientVars, network
    <3>3. (AtTable(c)' <=> AtTable(c)) /\ (Waiting(c)' => Waiting(c))
      BY <1>2, <3>2 DEF AtTable, Waiting, Players, Candidates
    <3> QED BY <1>1, <1>6, <1>7, <2>1, <3>1, <3>2, <3>3, NoTalk
  <2>3. CASE AnswerWrong(msg)
    <3>1. /\ msg.fd \in Players /\ UNCHANGED tableVars
          /\ updateData' = Send(updateData, <<To(msg.fd, MsgWrong(trick))>>)
      BY <1>2, <2>3 DEF AnswerWrong
    <3>2. MsgWrong(trick) \in ServerMessages /\ MsgWrong(trick).type = "WRONG"
      <4>1. trick \in Trick
        BY <1>1 DEF TableInv, TableTypeOK
      <4> QED BY <4>1, TrickIsMessage DEF MsgWrong
    <3>3. PICK m : /\ m = To(msg.fd, MsgWrong(trick)) /\ m \in MessagesTo(Players)
                   /\ m.content \in Idle
      <4>1. Players \subseteq Fds
        BY <1>1 DEF Seated
      <4>2. To(msg.fd, MsgWrong(trick)) \in MessagesTo(Players)
        BY <3>1, <3>2, <4>1, ToIsMessage
      <4>3. To(msg.fd, MsgWrong(trick)).content \in Idle
        BY <3>2 DEF To, Idle, Words
      <4> QED BY <4>2, <4>3
    <3>4. Out' = Out \o <<m>>
      BY <1>1, <3>1, <3>3 DEF Send, Out, Updates
    <3> QED BY <1>1, <1>6, <1>7, <1>9, <2>1, <3>1, <3>3, <3>4, IdleTouch
  <2>4. CASE AcceptCard(msg)
    <3> DEFINE card == msg.content.cards[1]
    <3>1. /\ FullTable /\ IsMoveLegal(trick.turn, card) /\ PlayCard(card)
          /\ updateData' = Send(updateData, NewsOf(card))
      BY <2>4 DEF AcceptCard, MoveAccepted
    <3>2. TrickOngoing /\ card \in Card
      <4>1. trick.turn \in Seats /\ card \in hands[trick.turn]
        BY <1>1, <3>1 DEF IsMoveLegal, TableInv, TableTypeOK, Trick
      <4>2. TrickOngoing
        BY <3>1 DEF PlayCard, ContinueTrick, FinishTrick, FinishDeal, Play, CanPlay
      <4> QED BY <1>1, <4>1, <4>2 DEF TableInv, TableTypeOK
    <3> HIDE DEF card
    <3>3. PICK out : out = NewsOf(card) /\ out \in Seq(MessagesTo(Players))
      BY <1>1, <3>1, <3>2, NewsAddressed
    <3>4. Out' = Out \o out
      BY <1>1, <3>1, <3>3 DEF Send, Out, Updates
    <3>5. PICK s : s = playerMap[fdOf[c]]
      OBVIOUS
    <3>6. PICK w : w = AllHandled(Told(c), SentTo(fdOf[c], out))
      OBVIOUS
    <3>7. ASSUME fdOf[c] \in Players, Right(s, Told(c)) PROVE Right(s, w)'
      <4>1. s \in Seats /\ seatFd[s] = fdOf[c]
        BY <1>1, <3>5, <3>7 DEF Seated, SeatsConsistent
      <4>2. Told(c) \in View
        BY <1>1, ToldTyped
      <4> QED BY <1>1, <3>1, <3>2, <3>3, <3>6, <3>7, <4>1, <4>2, RightAfterCard
    <3> QED BY <1>1, <1>6, <1>7, <1>9, <2>1, <3>3, <3>4, <3>5, <3>6, <3>7, NewsTouch
  <2> QED BY <1>2, <1>4, <2>2, <2>3, <2>4 DEF ClosePlayer
<1> QED BY <1>2, <1>7, <1>11, <1>12, CarriesOn

(* The end of a turn.                                                       *)
LEMMA EndHandlingKeepsAll ==
  ASSUME ProtocolInv, ServerGoesOn, EndHandling
  PROVE  ProtocolInv'
<1>1. /\ TableInv /\ Wired /\ Living /\ Seated /\ Exchanged /\ Heard
      /\ updateData \in Updates /\ ClientTypes /\ updateData.msgs \in Seq(Message)
  BY DEF ProtocolInv, ServerInv, Exchanged, Living, Updates, Said
<1>2. /\ pc = "handle" /\ pc' = "update" /\ inbox = <<>>
      /\ UNCHANGED <<tableVars, seating, playerMessages, store>>
  BY DEF EndHandling
<1>3. UNCHANGED <<clientVars, network>> /\ UNCHANGED tableVars /\ UNCHANGED seating
  BY <1>1, <1>2, NobodyCut DEF Stopped
<1>4. Between /\ Between' /\ pc # "poll" /\ pc' \notin {"poll", "close"} /\ Hushed' /\ ~Stopped'
  BY <1>2 DEF Between, Hushed, Stopped
<1>5. Batch' = <<>>
  BY <1>2 DEF Batch
<1>6. Heard' /\ Speakers' = {}
  BY <1>1, <1>2, <1>5 DEF Heard, Speakers, CardsOnly
<1>7. ASSUME NEW c \in Clients
      PROVE  (AtTable(c)' <=> AtTable(c)) /\ (Waiting(c)' => Waiting(c)) /\ InTouch(c)'
  <2>1. InTouch(c)
    BY <1>2 DEF ProtocolInv, AllInTouch
  <2>2. CASE TrickIsDue
    <3>1. updateData' = Send(updateData, <<To(seatFd[trick.turn], MsgTrick(trick))>>)
      BY <2>2 DEF EndHandling
    <3>2. /\ FullTable /\ trick \in Trick /\ trick.number # 0 /\ trick.turn \in Seats
      BY <1>1, <2>2 DEF TrickIsDue, TrickOngoing, TableInv, TableTypeOK, Trick
    <3>3. PICK m : /\ m = To(seatFd[trick.turn], MsgTrick(trick))
                   /\ m \in MessagesTo(Players) /\ m.content \in Idle
      <4>1. MsgTrick(trick) \in ServerMessages /\ MsgTrick(trick).type = "TRICK"
        BY <3>2, TrickIsMessage DEF MsgTrick
      <4>2. Players \subseteq Fds /\ seatFd[trick.turn] \in Players
        BY <1>1, <3>2, FullTableSeats DEF Seated
      <4>3. To(seatFd[trick.turn], MsgTrick(trick)) \in MessagesTo(Players)
        BY <4>1, <4>2, ToIsMessage
      <4>4. To(seatFd[trick.turn], MsgTrick(trick)).content \in Idle
        BY <4>1 DEF To, Idle, Words
      <4> QED BY <4>3, <4>4
    <3>4. Out' = Out \o <<m>>
      BY <1>1, <3>1, <3>3 DEF Send, Out, Updates
    <3> QED BY <1>1, <1>3, <1>4, <2>1, <3>3, <3>4, IdleTouch
  <2>3. CASE ~TrickIsDue
    <3>1. Out' = Out
      BY <2>3 DEF EndHandling, Out
    <3>2. UNCHANGED <<playerMap, candidateMap, fdOf, link>>
      BY <1>3 DEF seating, candidacy, clientVars, network
    <3>3. (AtTable(c)' <=> AtTable(c)) /\ (Waiting(c)' => Waiting(c))
      BY <1>2, <3>2 DEF AtTable, Waiting, Players, Candidates
    <3> QED BY <1>1, <1>3, <1>4, <2>1, <3>1, <3>2, <3>3, NoTalk
  <2> QED BY <2>2, <2>3
<1> QED BY <1>2, <1>4, <1>6, <1>7, CarriesOn

(* The game is over.  What the server still had to say is not sent, and is  *)
(* no news; everyone at the table has been told all of it.                  *)
LEMMA CloseStoreKeepsAll ==
  ASSUME ProtocolInv, ServerGoesOn, CloseStore
  PROVE  ProtocolInv'
<1>1. /\ TableInv /\ Wired /\ Living /\ Seated /\ Heard /\ Hushed
      /\ updateData \in Updates /\ ClientTypes /\ updateData.msgs \in Seq(Message)
      /\ NoFd \notin Fds /\ Players \subseteq Fds /\ Candidates \subseteq Fds
  BY FdsAssumption DEF ProtocolInv, ServerInv, Exchanged, Living, Updates, Said, Seated,
                       Tables, Maps, Candidacy, Candidates
<1>2. /\ pc = "dispatch" /\ pc' = "close" /\ inbox = <<>> /\ deals = <<>>
      /\ UNCHANGED <<tableVars, seating, playerMessages, updateData, inbox>>
  BY DEF CloseStore
<1>3. UNCHANGED <<playerMap, candidateMap, status, cards, nextTrickNumber,
                  nPointMessagesReceived, nDeals, down>>
  BY <1>2 DEF seating, candidacy, ServerGoesOn, members
<1>4. ServerInv' /\ Apart'
  <2>1. [Next]_vars
    BY DEF ServerGoesOn, Next, ServerStep
  <2> QED BY <2>1, ServerPart DEF ProtocolInv
<1>5. /\ Wired' /\ Living'
      /\ \A c \in Clients : /\ fdOf'[c] = NoFd
                            /\ link'[c] = "open" => fdOf[c] = NoFd /\ link[c] = "open"
                            /\ fdOf[c] = NoFd => up'[c] = up[c] /\ incoming'[c] = incoming[c]
  BY <1>1, WiresClose
<1>6. trick.number = 0 /\ Out \in Seq(IdleMessage)
  <2>1. ~TrickOngoing
    BY <1>1, <1>2 DEF TableInv, DealInProgress
  <2> QED BY <1>1, <1>2, <2>1 DEF TrickOngoing, Hushed
<1>7. ASSUME NEW c \in Clients
      PROVE  ~AtTable(c)' /\ (Waiting(c)' => fdOf[c] = NoFd /\ link[c] = "open" /\ Waiting(c))
  <2>1. ~AtTable(c)'
    BY <1>1, <1>3, <1>5 DEF AtTable, Players
  <2>2. Waiting(c)' => link'[c] = "open"
    BY <1>1, <1>2, <1>3, <1>5 DEF Waiting, Candidates
  <2> QED BY <1>5, <2>1, <2>2 DEF Waiting
<1>8. Batch' = <<>> /\ Batch = <<>>
  BY <1>2 DEF Batch
<1>9. Heard' /\ Hushed'
  <2>1. CardsOnly(playerMessages)'
    BY <1>1, <1>2 DEF Heard, CardsOnly
  <2> QED BY <1>2, <1>8, <2>1 DEF Heard, Hushed
<1>10. ASSUME NEW c \in Clients PROVE SaidBy(c)'
  <2>1. SaidBy(c)
    BY DEF ProtocolInv, Said
  <2>2. CASE fdOf[c] = NoFd
    <3>1. Unread(c)' = Unread(c)
      BY <1>5, <2>2 DEF Unread
    <3>2. Speakers' = {}
      BY <1>8 DEF Speakers
    <3> QED BY <1>7, <2>1, <3>1, <3>2, SaidKept
  <2>3. CASE fdOf[c] # NoFd
    BY <1>7, <2>3 DEF SaidBy
  <2> QED BY <2>2, <2>3
<1>11. ASSUME NEW c \in Clients
       PROVE  /\ Members(c)' = Members(c) /\ Told(c)' = Told(c)
              /\ OnTheWay(c)' = down[c]
  <2>1. Members(c)' = Members(c)
    BY <1>3 DEF Members
  <2>2. Members(c) \in View /\ down[c] \in Seq(Words)
    BY <1>1, ToldTyped
  <2>3. OnTheWay(c)' = down[c]
    <3>1. HandedOver(c)' = <<>>
      BY <1>2 DEF HandedOver, Between
    <3>2. PICK q \in Seq(Words) : q = down[c]
      BY <2>2
    <3> QED BY <1>3, <3>1, <3>2 DEF OnTheWay
  <2>4. Told(c)' = AllHandled(Members(c), down[c])
    BY <2>1, <2>3 DEF Told
  <2>5. PICK rest \in Seq(Idle) : rest = Written(c)
    <3>1. PICK msgs \in Seq(Message) : msgs = updateData.msgs
      BY <1>1
    <3>2. msgs \in Seq(IdleMessage)
      BY <1>6, <3>1 DEF Out
    <3>3. \A i \in DOMAIN msgs : msgs[i].content \in Idle
      <4>1. \A i \in DOMAIN msgs : msgs[i] \in IdleMessage
        BY <3>2
      <4> QED BY <4>1 DEF IdleMessage
    <3>4. SentTo(fdOf[c], msgs) \in Seq(Idle)
      BY <3>3, SentOnly
    <3>5. Written(c) \in Seq(Idle)
      BY <3>1, <3>4 DEF Written
    <3> QED BY <3>5
  <2>6. Told(c) = AllHandled(Members(c), down[c])
    <3>1. Told(c) = AllHandled(Members(c), down[c] \o rest)
      BY <1>2, <2>5 DEF Told, OnTheWay, HandedOver, Between
    <3>2. rest \in Seq(Words)
      BY DEF Idle
    <3>3. PICK v \in View : v = AllHandled(Members(c), down[c])
      <4>1. AllHandled(Members(c), down[c]) \in View
        BY <2>2, <3>2, HandledConcat
      <4> QED BY <4>1
    <3>4. AllHandled(Members(c), down[c] \o rest) = AllHandled(v, rest)
      BY <2>2, <3>2, <3>3, HandledConcat
    <3>5. AllHandled(v, rest) = v
      BY HandledIdle
    <3> QED BY <3>1, <3>3, <3>4, <3>5
  <2> QED BY <2>1, <2>3, <2>4, <2>6
<1>12. ASSUME NEW c \in Clients PROVE InTouch(c)'
  <2>1. InTouch(c)
    BY <1>2 DEF ProtocolInv, AllInTouch
  <2>2. ASSUME status[c] = "up" PROVE Finished(Told(c))'
    <3>1. Finished(Told(c))
      BY <1>6, <2>1, <2>2 DEF InTouch, Right, Finished
    <3> QED BY <1>11, <3>1 DEF Finished
  <2>3. ASSUME status[c] = "up", Waiting(c)' PROVE Members(c)' = Blank /\ OnTheWay(c)' = <<>>
    <3>1. fdOf[c] = NoFd /\ Waiting(c)
      BY <1>7, <2>3
    <3>2. OnTheWay(c) = down[c]
      BY <1>1, <3>1, Unconnected
    <3> QED BY <1>11, <2>1, <2>3, <3>1, <3>2 DEF InTouch
  <2>4. status[c] = "premature" => Members(c)'.dealt = 0
    BY <1>11, <2>1 DEF InTouch
  <2>5. ~AtTable(c)' /\ status'[c] = status[c]
    BY <1>3, <1>7
  <2> QED BY <2>2, <2>3, <2>4, <2>5 DEF InTouch
<1>13. Said' /\ AllInTouch'
  BY <1>9, <1>10, <1>12 DEF Said, AllInTouch
<1> QED BY <1>4, <1>5, <1>9, <1>13 DEF ProtocolInv

(* The server, outside poll.                                                *)
LEMMA ServerKeeps ==
  ASSUME ProtocolInv, ServerGoesOn
  PROVE  ProtocolInv'
<1>1. ASSUME NEW how \in {"error", "crash"}, Stop(how) PROVE ProtocolInv'
  BY <1>1, StopKeeps
<1>2. CASE PrePoll
  BY <1>2, PrePollKeepsAll
<1>3. CASE Apply
  <2>1. CASE pc' = "error"
    <3>1. Stop("error")
      BY <1>3, <2>1 DEF Apply
    <3> QED BY <1>1, <3>1
  <2> QED BY <1>3, <2>1, ApplyKeepsAll
<1>4. CASE Dispatch
  <2>1. CASE Stopped'
    <3>1. Stop("error")
      BY <1>4, <2>1 DEF Dispatch, Stopped
    <3> QED BY <1>1, <3>1
  <2> QED BY <1>4, <2>1, DispatchKeepsAll
<1>5. CASE UpdateAgain \/ BeginHandling
  <2>1. CASE Stopped'
    <3>1. Stop("error")
      BY <1>5, <2>1 DEF UpdateAgain, BeginHandling, TakePlayerMessages, Stopped
    <3> QED BY <1>1, <3>1
  <2> QED BY <1>5, <2>1, WaitingKeepsAll
<1>6. CASE NewDealAndTrick
  BY <1>6, NewDealKeepsAll
<1>7. CASE Handle
  <2>1. CASE Stopped'
    <3>1. Stop("crash")
      BY <1>7, <2>1 DEF Handle, Stopped
    <3> QED BY <1>1, <3>1
  <2> QED BY <1>7, <2>1, HandleKeepsAll
<1>8. CASE EndHandling
  BY <1>8, EndHandlingKeepsAll
<1>9. CASE CloseStore
  BY <1>9, CloseStoreKeepsAll
<1>10. CASE Closed
  BY <1>10, StopKeeps DEF Closed
<1> QED BY <1>2, <1>3, <1>4, <1>5, <1>6, <1>7, <1>8, <1>9, <1>10 DEF ServerGoesOn

(* Nothing has happened yet.                                                *)
LEMMA InitProtocolInv ==
  ASSUME ProtocolInit
  PROVE  ProtocolInv
<1>1. /\ Init /\ ClientInit /\ seat = Place /\ updateData = NoUpdate /\ NoFd \notin Fds
      /\ \A c \in Clients : /\ fdOf[c] = NoFd /\ link[c] = "none" /\ status[c] = "off"
                            /\ cards[c] = {} /\ down[c] = <<>> /\ incoming[c] = <<>>
  BY FdsAssumption DEF ProtocolInit, Init, ClientInit
<1>2. ServerInv
  BY <1>1, InitServerInv
<1>3. Apart
  BY <1>1, NoCardApart DEF Init, TableInit, GameInit, NoTrick
<1>4. Addressed(updateData) = {} /\ Batch = <<>> /\ pc = "update" /\ Out = <<>>
      /\ playerMessages = <<>> /\ Players = {} /\ Candidates = {}
  BY <1>1 DEF Init, NoUpdate, Addressed, Batch, Out, Players, Candidates
<1>5. Wired
  <2>1. fdOf \in [Clients -> Fds \cup {NoFd}] /\ sending = {} /\ pc # "close" /\ ~Stopped
    BY <1>1, <1>4 DEF ProtocolInit, Init, Stopped
  <2> QED BY <1>1, <1>4, <2>1 DEF Wired
<1>6. ClientTypes
  <2>1. /\ seat \in [Clients -> Seats \cup {NoSeat}]
        /\ status \in [Clients -> {"off", "up"} \cup Endings]
        /\ link \in [Clients -> {"none", "open", "closed"}]
        /\ cards \in [Clients -> SUBSET Card]
        /\ nPointMessagesReceived \in [Clients -> Nat] /\ nDeals \in [Clients -> Nat]
    BY <1>1, PlaceAssumption DEF ClientInit
  <2>2. nextTrickNumber \in [Clients -> 0 .. LastTrick]
    BY <1>1, TricksAssumption DEF ClientInit
  <2>3. <<>> \in Seq(Words) /\ <<>> \in Seq(ClientMessages)
    OBVIOUS
  <2>4. /\ down \in [Clients -> Seq(Words)] /\ up \in [Clients -> Seq(ClientMessages)]
        /\ incoming \in [Clients -> Seq(ClientMessages)]
    BY <1>1, <2>3 DEF ClientInit, ProtocolInit
  <2> QED BY <2>1, <2>2, <2>4 DEF ClientTypes
<1>7. ASSUME NEW c \in Clients PROVE LivingAt(c) /\ SaidBy(c) /\ InTouch(c)
  <2>1. ~AtTable(c) /\ ~Waiting(c)
    BY <1>1, <1>4 DEF AtTable, Waiting
  <2> QED BY <1>1, <2>1 DEF LivingAt, SaidBy, InTouch
<1>8. Living /\ Said /\ AllInTouch /\ Hushed
  BY <1>4, <1>6, <1>7 DEF Living, Said, Heard, CardsOnly, AllInTouch, Hushed
<1> QED BY <1>2, <1>3, <1>5, <1>8 DEF ProtocolInv

(* Every step of the program keeps the invariant.                           *)
LEMMA NextProtocolInv ==
  ASSUME ProtocolInv, [ProtocolNext]_protocolVars
  PROVE  ProtocolInv'
<1>1. CASE ServerGoesOn
  BY <1>1, ServerKeeps
<1>2. CASE PollReports
  BY <1>2, ReportsKeep
<1>3. CASE PollTimesOut
  BY <1>3, TimeoutKeeps
<1>4. CASE DeadlinePasses
  BY <1>4, QuietKeeps DEF DeadlinePasses
<1>5. ASSUME NEW c \in Clients, ProcessStep(c) PROVE ProtocolInv'
  BY <1>5, ProcessKeeps
<1>6. CASE Over \/ UNCHANGED protocolVars
  BY <1>6, QuietKeeps DEF Over, protocolVars
<1> QED BY <1>1, <1>2, <1>3, <1>4, <1>5, <1>6 DEF ProtocolNext, ProcessStep

(* The invariant of the whole program, for any number of processes coming   *)
(* and going, any number of upsets, any deals.                              *)
THEOREM ProtocolInvariant == ProtocolSpec => []ProtocolInv
<1> QED BY InitProtocolInv, NextProtocolInv, PTL DEF ProtocolSpec

(* Server and client never disagree about the cards a player holds or about *)
(* the trick they are at, for longer than messages take: so no process can  *)
(* be in a state from which it plays a card it does not have.               *)
THEOREM HandsStayAgreed == ProtocolSpec => []HandsAgree
<1>1. ProtocolInv => HandsAgree
  <2> SUFFICES ASSUME ProtocolInv, NEW c \in Clients,
                      status[c] = "up", fdOf[c] \in Players, pc # "apply"
               PROVE  LET s == playerMap[fdOf[c]] IN
                      /\ Told(c).cards =
                            hands[s] \cup (IF TrickOngoing
                                           THEN Head(deals).hands[s] \cap CardsOf(trick.cards)
                                           ELSE {})
                      /\ Told(c).next = trick.number
    BY DEF HandsAgree
  <2>1. /\ Wired /\ Seated /\ Living /\ fdOf[c] \in Fds /\ NoFd \notin Fds
    BY FdsAssumption DEF ProtocolInv, ServerInv, Seated
  <2>2. ~Stopped
    BY <2>1 DEF Wired, InStore, Living, LivingAt
  <2>3. AtTable(c) /\ InTouch(c)
    BY <2>2 DEF AtTable, ProtocolInv, AllInTouch, Stopped
  <2> QED BY <2>3 DEF InTouch, Right, InPlay
<1> QED BY <1>1, ProtocolInvariant, PTL

(* A process whose connection ends with the game, although it counts this   *)
(* as an error, was never told of a deal: nobody who played misses the end. *)
THEOREM EndsAreWell == ProtocolSpec => []EndsWell
<1>1. ProtocolInv => EndsWell
  BY DEF ProtocolInv, AllInTouch, InTouch, Members, EndsWell
<1> QED BY <1>1, ProtocolInvariant, PTL
=============================================================================
