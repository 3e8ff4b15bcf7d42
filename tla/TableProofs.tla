---------------------------- MODULE TableProofs -----------------------------
(***************************************************************************)
(* Theorems about Table, for every number of seats and tricks, every set   *)
(* of cards and every schedule of well-formed deals.                       *)
(*                                                                         *)
(* TableInv is the inductive invariant: types, the chain of leaders, what  *)
(* the hands hold and how many cards each holds.  None of the last three   *)
(* is inductive alone: a new deal is added to the hands, so to account for *)
(* its cards one must know that the hands were empty, which is a matter of *)
(* counting; and to count one must know whose turn it is.                  *)
(* StakesPaid adds to it what the tricks taken so far are worth.           *)
(***************************************************************************)
EXTENDS Table, LoopLemmas, TLAPS, FiniteSetTheorems, WellFoundedInduction

-----------------------------------------------------------------------------
(* Seats in clockwise order. *)
LEMMA SeatAfterType ==
  ASSUME NEW s \in Seats, NEW k \in Nat
  PROVE  SeatAfter(s, k) \in Seats
BY NSeatsAssumption DEF Seats, SeatAfter

(* The seat k places on, without the modulus. *)
LEMMA SeatAfterLow ==
  ASSUME NEW s \in Seats, NEW k \in 0 .. NSeats
  PROVE  SeatAfter(s, k) = IF s + k < NSeats THEN s + k ELSE s + k - NSeats
BY NSeatsAssumption DEF Seats, SeatAfter

(* No places on is the seat itself. *)
LEMMA SeatAfterZero ==
  ASSUME NEW s \in Seats
  PROVE  SeatAfter(s, 0) = s
BY NSeatsAssumption, SeatAfterLow DEF Seats

(* One seat further is one place more: CycleClockwise moves the turn along. *)
LEMMA SeatAfterNext ==
  ASSUME NEW s \in Seats, NEW k \in 0 .. NSeats - 1
  PROVE  Clockwise(SeatAfter(s, k)) = SeatAfter(s, k + 1)
<1>1. SeatAfter(s, k) \in Seats
  BY SeatAfterType, NSeatsAssumption
<1>2. 1 \in 0 .. NSeats /\ k \in 0 .. NSeats /\ k + 1 \in 0 .. NSeats
  BY NSeatsAssumption
<1> DEFINE Wrap(x) == IF x < NSeats THEN x ELSE x - NSeats
<1>3. SeatAfter(s, k) = Wrap(s + k) /\ SeatAfter(s, k + 1) = Wrap(s + (k + 1))
  BY <1>2, SeatAfterLow, NSeatsAssumption DEF Seats
<1>4. Clockwise(SeatAfter(s, k)) = Wrap(SeatAfter(s, k) + 1)
  BY <1>1, <1>2, SeatAfterLow, NSeatsAssumption DEF Seats, Clockwise
<1> QED
  BY <1>3, <1>4, NSeatsAssumption DEF Seats

(* Two players of one trick sit on different seats. *)
LEMMA SeatAfterInjective ==
  ASSUME NEW s \in Seats, NEW i \in 0 .. NSeats - 1, NEW j \in 0 .. NSeats - 1,
         i # j
  PROVE  SeatAfter(s, i) # SeatAfter(s, j)
BY NSeatsAssumption, SeatAfterLow DEF Seats

(* Every seat has its place in the trick, counted from its leader. *)
LEMMA SeatAfterOnto ==
  ASSUME NEW s \in Seats, NEW t \in Seats
  PROVE  \E j \in 0 .. NSeats - 1 : t = SeatAfter(s, j)
<1> DEFINE j == IF t >= s THEN t - s ELSE t - s + NSeats
<1>1. j \in 0 .. NSeats - 1
  BY NSeatsAssumption DEF Seats
<1>2. t = SeatAfter(s, j)
  BY <1>1, NSeatsAssumption, SeatAfterLow DEF Seats
<1> QED
  BY <1>1, <1>2

-----------------------------------------------------------------------------
(* A bounded set of naturals has a greatest element: the scan of GetTaker    *)
(* finds one, and Max is well defined.                                       *)
LEMMA MaxOfBounded ==
  ASSUME NEW S \in SUBSET Nat, S # {}, NEW n \in Nat, \A x \in S : x <= n
  PROVE  Max(S) \in S
<1> DEFINE T == {n - x : x \in S}
<1>1. T \subseteq Nat /\ T # {}
  <2>1. \A x \in S : n - x \in Nat
    OBVIOUS
  <2>2. PICK x \in S : TRUE
    OBVIOUS
  <2>3. n - x \in T
    BY <2>2
  <2> QED BY <2>1, <2>3
<1>2. PICK d \in T : \A e \in T : ~ (<<e, d>> \in OpToRel(<, Nat))
  <2> HIDE DEF T
  <2> QED BY <1>1, NatLessThanWellFounded, WFMin
<1>3. PICK x \in S : d = n - x
  OBVIOUS
<1>4. \A y \in S : x >= y
  <2> SUFFICES ASSUME NEW y \in S PROVE x >= y
    OBVIOUS
  <2>1. n - y \in T
    OBVIOUS
  <2>2. ~ (n - y < d)
    BY <1>1, <1>2, <2>1 DEF OpToRel
  <2> QED BY <1>3, <2>2
<1> QED
  BY <1>4 DEF Max

(* The taker of a trick is a seat. *)
LEMMA TakerType ==
  ASSUME NEW t, t.cards \in Seq(Card), t.turn \in Seats
  PROVE  Taker(t) \in Seats
<1> DEFINE B == Beating(t.cards)
<1>1. CASE B = {}
  BY <1>1 DEF Taker
<1>2. CASE B # {}
  <2>1. B \in SUBSET Nat /\ Len(t.cards) \in Nat /\ \A i \in B : i <= Len(t.cards)
    BY DEF Beating
  <2>2. Max(B) \in B
    <3> HIDE DEF B
    <3> QED BY <1>2, <2>1, MaxOfBounded
  <2>3. Max(B) - 1 \in Nat
    <3>1. B \subseteq Nat \ {0}
      BY DEF Beating
    <3> HIDE DEF B
    <3>2. Max(B) \in Nat \ {0}
      BY <2>2, <3>1
    <3> QED BY <3>2
  <2>4. SeatAfter(t.turn, Max(B) - 1) \in Seats
    <3> HIDE DEF B
    <3> QED BY <2>3, SeatAfterType
  <2> QED BY <1>2, <2>4 DEF Taker
<1> QED BY <1>1, <1>2

(* The positions of a trick with some property are finitely many. *)
LEMMA IndexSetCardinality ==
  ASSUME NEW cards \in Seq(Card), NEW I \in SUBSET DOMAIN cards
  PROVE  Cardinality(I) \in Nat
<1>1. IsFiniteSet(DOMAIN cards)
  BY FS_Interval
<1>2. IsFiniteSet(I)
  BY <1>1, FS_Subset
<1> QED BY <1>2, FS_CardinalityType

(* The points of a trick are a natural number, whatever the judge. *)
LEMMA PointsType ==
  ASSUME NEW type \in DealTypes, NEW t, t.cards \in Seq(Card)
  PROVE  Points(type, t) \in Nat
<1>1. HeartsBad(t) \in Nat
  BY IndexSetCardinality DEF HeartsBad, Count
<1>2. QueensBad(t) \in Nat
  <2>1. Cardinality({i \in DOMAIN t.cards : t.cards[i].value = Queen}) \in Nat
    BY IndexSetCardinality
  <2> QED BY <2>1 DEF QueensBad, Count
<1>3. GentlemenBad(t) \in Nat
  <2>1. Cardinality({i \in DOMAIN t.cards : t.cards[i].value \in {Jack, King}}) \in Nat
    BY IndexSetCardinality
  <2> QED BY <2>1 DEF GentlemenBad, Count
<1>4. KingOfHeartsBad(t) \in Nat
  <2>1. Cardinality({i \in DOMAIN t.cards :
                       t.cards[i].color = Hearts /\ t.cards[i].value = King}) \in Nat
    BY IndexSetCardinality
  <2> QED BY <2>1 DEF KingOfHeartsBad, Count
<1>5. TricksBad(t) \in Nat /\ SeventhAndLastTrickBad(t) \in Nat
  BY DEF TricksBad, SeventhAndLastTrickBad
<1>6. Robber(t) \in Nat
  BY <1>1, <1>2, <1>3, <1>4, <1>5 DEF Robber
<1> QED
  BY <1>1, <1>2, <1>3, <1>4, <1>5, <1>6 DEF Points, DealTypes

-----------------------------------------------------------------------------
(* The inductive invariant. *)
DealInProgress == /\ \A i \in DOMAIN deals : WellFormedDeal(deals[i])
                  /\ TrickOngoing => deals # <<>>
                  /\ ~TrickOngoing => tricks = <<>>

TableInv == /\ TableTypeOK
            /\ DealInProgress
            /\ TurnFollowsLeader
            /\ CardsAccounted
            /\ HandSizes

(* The trick with one more card. *)
LEMMA WithCardType ==
  ASSUME TableTypeOK, NEW card \in Card
  PROVE  /\ WithCard(card) \in Trick
         /\ WithCard(card).cards = Append(trick.cards, card)
         /\ WithCard(card).number = trick.number
         /\ WithCard(card).turn = Clockwise(trick.turn)
         /\ Len(WithCard(card).cards) = Len(trick.cards) + 1
<1>1. trick.turn \in Seats /\ trick.cards \in Seq(Card)
  BY DEF TableTypeOK, Trick
<1>2. Clockwise(trick.turn) \in Seats
  BY <1>1, SeatAfterType DEF Clockwise
<1>3. /\ Append(trick.cards, card) \in Seq(Card)
      /\ Len(Append(trick.cards, card)) = Len(trick.cards) + 1
  BY <1>1
<1>4. /\ WithCard(card).cards = Append(trick.cards, card)
      /\ WithCard(card).number = trick.number
      /\ WithCard(card).turn = Clockwise(trick.turn)
  BY DEF TableTypeOK, Trick, WithCard
<1>5. WithCard(card) \in Trick
  BY <1>2, <1>3 DEF TableTypeOK, Trick, WithCard
<1> QED
  BY <1>3, <1>4, <1>5

(* Taking a card out of the hand on turn. *)
LEMMA HandsWithoutType ==
  ASSUME TableTypeOK, NEW card
  PROVE  /\ HandsWithout(card) \in [Seats -> SUBSET Card]
         /\ \A s \in Seats : HandsWithout(card)[s] =
               IF s = trick.turn THEN hands[s] \ {card} ELSE hands[s]
BY DEF TableTypeOK, HandsWithout

(* Awarding a trick. *)
LEMMA AddPointsType ==
  ASSUME TableTypeOK, TrickOngoing, NEW card \in Card,
         NEW f \in [Seats -> Nat]
  PROVE  AddPoints(f, WithCard(card)) \in [Seats -> Nat]
<1> DEFINE t == WithCard(card)
<1>1. t.cards \in Seq(Card) /\ t.turn \in Seats
  BY WithCardType DEF Trick
<1>2. Points(judge, t) \in Nat
  <2> HIDE DEF t
  <2> QED BY <1>1, PointsType DEF TableTypeOK
<1>3. Taker(t) \in Seats
  <2> HIDE DEF t
  <2> QED BY <1>1, TakerType
<1> QED
  BY <1>2, <1>3 DEF AddPoints

(* Between two messages the deal, if there is one, is the first of deals. *)
LEMMA CurrentDeal ==
  ASSUME TableInv, TrickOngoing
  PROVE  /\ Head(deals) \in DealConfig
         /\ WellFormedDeal(Head(deals))
         /\ Tail(deals) \in Seq(DealConfig)
         /\ \A i \in DOMAIN Tail(deals) : WellFormedDeal(Tail(deals)[i])
<1>1. deals \in Seq(DealConfig) /\ deals # <<>>
  BY DEF TableInv, TableTypeOK, DealInProgress
<1>2. 1 \in DOMAIN deals /\ Head(deals) = deals[1]
  BY <1>1
<1>3. \A i \in DOMAIN Tail(deals) : i + 1 \in DOMAIN deals
                                      /\ Tail(deals)[i] = deals[i + 1]
  BY <1>1
<1> QED
  BY <1>1, <1>2, <1>3 DEF TableInv, DealInProgress

(* The leader of the current trick is a seat, and so is every taker. *)
LEMMA LeaderType ==
  ASSUME TableInv, TrickOngoing
  PROVE  Leader \in Seats
<1>1. CASE tricks = <<>>
  BY <1>1, CurrentDeal DEF Leader, DealConfig
<1>2. CASE tricks # <<>>
  <2>1. tricks[Len(tricks)] \in TrickRecord
    BY <1>2 DEF TableInv, TableTypeOK
  <2> QED BY <1>2, <2>1 DEF Leader, TrickRecord
<1> QED BY <1>1, <1>2

(* Playing a card: what is left in the hands, and how many cards. *)
LEMMA CardsAfterPlay ==
  ASSUME TableInv, NEW card \in Card, CanPlay(card)
  PROVE  \A s \in Seats : /\ HandsWithout(card)[s] =
                               Head(deals).hands[s] \ (PlayedCards \cup {card})
                          /\ IsFiniteSet(hands[s])
<1>1. TrickOngoing /\ card \in hands[trick.turn] /\ trick.turn \in Seats
  BY DEF CanPlay, TableInv, TableTypeOK, Trick
<1>2. \A s \in Seats : hands[s] = Head(deals).hands[s] \ PlayedCards
  BY <1>1 DEF TableInv, CardsAccounted
<1>3. \A s \in Seats : s # trick.turn => card \notin Head(deals).hands[s]
  BY <1>1, <1>2, CurrentDeal DEF WellFormedDeal
<1>4. \A s \in Seats : HandsWithout(card)[s] =
                           IF s = trick.turn THEN hands[s] \ {card} ELSE hands[s]
  BY HandsWithoutType DEF TableInv
<1>5. \A s \in Seats : IsFiniteSet(hands[s])
  <2> SUFFICES ASSUME NEW s \in Seats PROVE IsFiniteSet(hands[s])
    OBVIOUS
  <2>1. IsFiniteSet(Head(deals).hands[s])
    BY <1>1, CurrentDeal DEF WellFormedDeal
  <2>2. hands[s] \in SUBSET Head(deals).hands[s]
    BY <1>2
  <2>3. PICK H, h : H = Head(deals).hands[s] /\ h = hands[s]
    OBVIOUS
  <2>4. IsFiniteSet(H) /\ h \in SUBSET H
    BY <2>1, <2>2, <2>3
  <2>5. IsFiniteSet(h)
    BY ONLY <2>4, FS_Subset
  <2> QED BY <2>3, <2>5
<1>6. ASSUME NEW s \in Seats
      PROVE  HandsWithout(card)[s] = Head(deals).hands[s] \ (PlayedCards \cup {card})
  <2>1. hands[s] = Head(deals).hands[s] \ PlayedCards
    BY <1>2
  <2>2. CASE s = trick.turn
    BY <1>4, <2>1, <2>2
  <2>3. CASE s # trick.turn
    <3>1. card \notin Head(deals).hands[s] /\ HandsWithout(card)[s] = hands[s]
      BY <1>3, <1>4, <2>3
    <3> QED BY <2>1, <3>1
  <2> QED BY <2>2, <2>3
<1> QED BY <1>5, <1>6

(* One card fewer for the seat on turn, the others as before. *)
LEMMA HandSizesAfterPlay ==
  ASSUME TableInv, NEW card \in Card, CanPlay(card)
  PROVE  \A i \in 0 .. NSeats - 1 :
            Cardinality(HandsWithout(card)[SeatAfter(Leader, i)]) =
               LastTrick - Len(tricks) - (IF i < Len(trick.cards) + 1 THEN 1 ELSE 0)
<1> DEFINE n == Len(trick.cards)
           holds(i) == LastTrick - Len(tricks) - (IF i < n THEN 1 ELSE 0)
<1>1. TrickOngoing /\ card \in hands[trick.turn]
  BY DEF CanPlay
<1>2. n \in 0 .. NSeats - 1 /\ Len(tricks) \in Nat
  BY NSeatsAssumption DEF TableInv, TableTypeOK, Trick
<1>3. Leader \in Seats /\ trick.turn = SeatAfter(Leader, n)
  BY <1>1, LeaderType DEF TableInv, TurnFollowsLeader
<1> SUFFICES ASSUME NEW i \in 0 .. NSeats - 1
             PROVE  Cardinality(HandsWithout(card)[SeatAfter(Leader, i)]) =
                      LastTrick - Len(tricks) - (IF i < n + 1 THEN 1 ELSE 0)
  OBVIOUS
<1> DEFINE s == SeatAfter(Leader, i)
<1>4. s \in Seats
  BY <1>3, SeatAfterType, NSeatsAssumption
<1>5. Cardinality(hands[s]) = holds(i) /\ IsFiniteSet(hands[s])
  BY <1>1, <1>4, CardsAfterPlay DEF TableInv, HandSizes
<1>6. CASE i = n
  <2>1. HandsWithout(card)[s] = hands[s] \ {card} /\ card \in hands[s]
    BY <1>1, <1>3, <1>4, <1>6, HandsWithoutType DEF TableInv
  <2>2. Cardinality(HandsWithout(card)[s]) = Cardinality(hands[s]) - 1
    BY <1>5, <2>1, FS_RemoveElement
  <2> QED BY <1>2, <1>5, <1>6, <2>2, TricksAssumption
<1>7. CASE i # n
  <2>1. s # trick.turn
    BY <1>2, <1>3, <1>7, SeatAfterInjective
  <2>2. HandsWithout(card)[s] = hands[s]
    BY <1>4, <2>1, HandsWithoutType DEF TableInv
  <2> QED BY <1>2, <1>5, <1>7, <2>2
<1> QED BY <1>6, <1>7

(* The cards on the table, with one more. *)
LEMMA CardsOfAppend ==
  ASSUME NEW seq \in Seq(Card), NEW card \in Card
  PROVE  CardsOf(Append(seq, card)) = CardsOf(seq) \cup {card}
<1>1. DOMAIN Append(seq, card) = DOMAIN seq \cup {Len(seq) + 1}
  OBVIOUS
<1>2. /\ \A i \in DOMAIN seq : Append(seq, card)[i] = seq[i]
      /\ Append(seq, card)[Len(seq) + 1] = card
  OBVIOUS
<1> QED BY <1>1, <1>2 DEF CardsOf

(* The last trick of a deal takes everybody's last card.                    *)
LEMMA LastCardPlayed ==
  ASSUME TableInv, TrickOngoing, NEW card \in Card, CanPlay(card), CompletesDeal(card)
  PROVE  \A s \in Seats : HandsWithout(card)[s] = {}
<1> USE DEF TableInv
<1> SUFFICES ASSUME NEW s \in Seats PROVE HandsWithout(card)[s] = {}
  OBVIOUS
<1>1. Leader \in Seats
  BY LeaderType
<1>2. PICK j \in 0 .. NSeats - 1 : s = SeatAfter(Leader, j)
  BY <1>1, SeatAfterOnto
<1>3. Len(trick.cards) + 1 = NSeats /\ Len(tricks) + 1 = LastTrick
  BY WithCardType DEF CompletesDeal, CompletesTrick, TurnFollowsLeader
<1>4. Cardinality(HandsWithout(card)[s]) = 0
  BY <1>2, <1>3, HandSizesAfterPlay, TricksAssumption DEF TableTypeOK
<1>5. HandsWithout(card)[s] \subseteq hands[s]
  BY HandsWithoutType
<1>6. IsFiniteSet(HandsWithout(card)[s])
  BY <1>5, CardsAfterPlay, FS_Subset
<1> QED BY <1>4, <1>6, FS_EmptySet

-----------------------------------------------------------------------------
(* Each step preserves the invariant. *)
LEMMA StartGameInv ==
  ASSUME TableInv, StartGame
  PROVE  TableInv'
<1> USE DEF TableInv
<1>1. deals # <<>> /\ deals \in Seq(DealConfig) /\ ~TrickOngoing
  BY DEF StartGame, Deal, TableTypeOK
<1> DEFINE d == Head(deals)
<1>2. d \in DealConfig /\ WellFormedDeal(d)
  BY <1>1 DEF DealInProgress
<1>3. /\ trick' = [cards |-> <<>>, number |-> 1, turn |-> d.first]
      /\ judge' = d.type
      /\ deals' = deals /\ tricks' = tricks /\ score' = score /\ total' = total
  BY DEF StartGame, Deal, FirstTrick
<1>4. \A s \in Seats : hands'[s] = d.hands[s]
  BY <1>1 DEF StartGame, Deal, HandsDealt, HandSizes
<1>5. tricks = <<>> /\ Len(<<>>) = 0 /\ CardsOf(<<>>) = {} /\ TakenCards' = {}
  BY <1>1, <1>3 DEF DealInProgress, CardsOf, TakenCards
<1>6. TrickOngoing' /\ Leader' = d.first /\ PlayedCards' = {}
  BY <1>3, <1>5 DEF TrickOngoing, Leader, PlayedCards
<1>7. d.first \in Seats /\ d.hands \in [Seats -> SUBSET Card] /\ d.type \in DealTypes
  BY <1>2 DEF DealConfig
<1>8. TableTypeOK'
  <2>1. trick' \in Trick
    BY <1>3, <1>7, TricksAssumption DEF Trick
  <2>2. Len(trick'.cards) < NSeats
    BY <1>3, <1>5, NSeatsAssumption
  <2>3. hands' \in [Seats -> SUBSET Card]
    BY <1>7 DEF StartGame, Deal, HandsDealt, TableTypeOK
  <2> QED BY <1>3, <1>7, <2>1, <2>2, <2>3 DEF TableTypeOK
<1>9. DealInProgress'
  BY <1>1, <1>3, <1>6 DEF DealInProgress
<1>10. TurnFollowsLeader'
  BY <1>3, <1>5, <1>6, <1>7, SeatAfterZero DEF TurnFollowsLeader
<1>11. CardsAccounted'
  BY <1>3, <1>4, <1>6 DEF CardsAccounted
<1>12. HandSizes'
  <2> SUFFICES ASSUME NEW i \in 0 .. NSeats - 1
               PROVE  Cardinality(hands'[SeatAfter(d.first, i)]) = LastTrick
    BY <1>3, <1>5, <1>6, TricksAssumption DEF HandSizes
  <2>1. SeatAfter(d.first, i) \in Seats
    BY <1>7, SeatAfterType, NSeatsAssumption
  <2> QED BY <1>2, <1>4, <2>1 DEF WellFormedDeal
<1> QED BY <1>8, <1>9, <1>10, <1>11, <1>12

(* A card that continues the trick. *)
LEMMA ContinueTrickInv ==
  ASSUME TableInv, NEW card \in Card, ContinueTrick(card)
  PROVE  TableInv'
<1> USE DEF TableInv
<1> DEFINE n == Len(trick.cards)
<1>1. TrickOngoing /\ CanPlay(card)
  BY DEF ContinueTrick, Play, CanPlay
<1>2. trick' = WithCard(card) /\ hands' = HandsWithout(card)
  BY DEF ContinueTrick, Play, TrickAfter
<1>3. UNCHANGED <<judge, deals, tricks, score, total>>
  BY DEF ContinueTrick, Play
<1>4. /\ trick' \in Trick /\ trick'.cards = Append(trick.cards, card)
      /\ trick'.number = trick.number /\ trick'.turn = Clockwise(trick.turn)
      /\ Len(trick'.cards) = n + 1
  BY <1>2, WithCardType
<1>5. n \in Nat /\ n + 1 < NSeats /\ trick.cards \in Seq(Card)
  BY <1>2, <1>4, NSeatsAssumption DEF ContinueTrick, CompletesTrick, TableTypeOK, Trick
<1>6. TrickOngoing' /\ Leader' = Leader /\ Leader \in Seats
  BY <1>1, <1>3, <1>4, LeaderType DEF TrickOngoing, Leader
<1>7. PlayedCards' = PlayedCards \cup {card}
  BY <1>3, <1>4, <1>5, CardsOfAppend DEF PlayedCards, TakenCards
<1>8. TableTypeOK'
  BY <1>1, <1>2, <1>3, <1>4, <1>5, HandsWithoutType DEF TableTypeOK
<1>9. DealInProgress'
  BY <1>1, <1>3, <1>6 DEF DealInProgress
<1>10. TurnFollowsLeader'
  <2>1. trick.turn = SeatAfter(Leader, n) /\ trick.number = Len(tricks) + 1
    BY <1>1 DEF TurnFollowsLeader
  <2>2. Clockwise(trick.turn) = SeatAfter(Leader, n + 1)
    BY <1>5, <1>6, <2>1, SeatAfterNext, NSeatsAssumption
  <2> QED BY <1>3, <1>4, <1>6, <2>1, <2>2 DEF TurnFollowsLeader
<1>11. CardsAccounted'
  BY <1>1, <1>2, <1>3, <1>7, CardsAfterPlay DEF CardsAccounted
<1>12. HandSizes'
  BY <1>1, <1>2, <1>3, <1>4, <1>6, HandSizesAfterPlay DEF HandSizes
<1> QED BY <1>8, <1>9, <1>10, <1>11, <1>12

(* A card that completes a trick but not the deal. *)
LEMMA FinishTrickInv ==
  ASSUME TableInv, NEW card \in Card, FinishTrick(card)
  PROVE  TableInv'
<1> USE DEF TableInv
<1> DEFINE t == WithCard(card)
           n == Len(trick.cards)
<1>1. TrickOngoing /\ CanPlay(card) /\ CompletesTrick(card) /\ ~CompletesDeal(card)
  BY DEF FinishTrick, Play, CanPlay
<1>2. /\ t \in Trick /\ t.cards = Append(trick.cards, card)
      /\ t.number = trick.number /\ Len(t.cards) = n + 1
  BY WithCardType
<1>3. n \in Nat /\ n + 1 = NSeats /\ trick.cards \in Seq(Card)
  BY <1>1, <1>2 DEF CompletesTrick, TableTypeOK, Trick
<1>4. Taker(t) \in Seats /\ RecordOf(t) \in TrickRecord
  <2>1. t.cards \in Seq(Card) /\ t.turn \in Seats
    BY <1>2 DEF Trick
  <2>2. Taker(t) \in Seats
    <3> HIDE DEF t
    <3> QED BY <2>1, TakerType
  <2> QED BY <2>1, <2>2 DEF RecordOf, TrickRecord
<1>5. trick' = [cards |-> <<>>, number |-> trick.number + 1, turn |-> Taker(t)]
  BY <1>1, <1>2 DEF FinishTrick, Play, TrickAfter
<1>6. /\ hands' = HandsWithout(card) /\ UNCHANGED <<judge, deals>>
      /\ tricks' = Append(tricks, RecordOf(t))
      /\ score' = AddPoints(score, t) /\ total' = AddPoints(total, t)
  BY DEF FinishTrick, Play
<1>7. trick.number \in 1 .. LastTrick - 1 /\ trick.number = Len(tricks) + 1
  BY <1>1, TricksAssumption
     DEF CompletesDeal, TableTypeOK, Trick, TrickOngoing, TurnFollowsLeader
<1>8. /\ tricks' \in Seq(TrickRecord) /\ Len(tricks') = Len(tricks) + 1
      /\ tricks'[Len(tricks')] = RecordOf(t)
      /\ \A k \in DOMAIN tricks : tricks'[k] = tricks[k]
      /\ DOMAIN tricks' = DOMAIN tricks \cup {Len(tricks) + 1}
  <2> HIDE DEF t
  <2>1. tricks \in Seq(TrickRecord)
    BY DEF TableTypeOK
  <2> QED BY <1>4, <1>6, <2>1
<1>9. TrickOngoing' /\ Leader' = Taker(t)
  <2>1. tricks' # <<>>
    BY <1>8
  <2>2. RecordOf(t).taker = Taker(t)
    BY DEF RecordOf
  <2> QED BY <1>5, <1>7, <1>8, <2>1, <2>2 DEF TrickOngoing, Leader
<1>10. PlayedCards' = PlayedCards \cup {card}
  <2>1. RecordOf(t).cards = t.cards /\ CardsOf(t.cards) = CardsOf(trick.cards) \cup {card}
    BY <1>2, <1>3, CardsOfAppend DEF RecordOf
  <2>2. TakenCards' = TakenCards \cup CardsOf(t.cards)
    <3> HIDE DEF t
    <3> QED BY <1>8, <2>1 DEF TakenCards
  <2>3. CardsOf(trick'.cards) = {}
    BY <1>5 DEF CardsOf
  <2> QED BY <2>1, <2>2, <2>3 DEF PlayedCards
<1>11. TableTypeOK'
  <2>1. trick' \in Trick /\ Len(trick'.cards) < NSeats
    BY <1>4, <1>5, <1>7, NSeatsAssumption, TricksAssumption DEF Trick
  <2>2. hands' \in [Seats -> SUBSET Card]
    BY <1>6, HandsWithoutType
  <2>3. score' \in [Seats -> Nat] /\ total' \in [Seats -> Nat]
    BY <1>1, <1>6, AddPointsType DEF TableTypeOK
  <2>4. \A k \in DOMAIN tricks' : Len(tricks'[k].cards) = NSeats
    <3>1. Len(RecordOf(t).cards) = NSeats
      BY <1>2, <1>3 DEF RecordOf
    <3> HIDE DEF t
    <3> QED BY <1>8, <3>1 DEF TableTypeOK
  <2>5. judge' \in DealTypes /\ deals' \in Seq(DealConfig)
    BY <1>1, <1>6 DEF TableTypeOK
  <2> QED BY <1>8, <2>1, <2>2, <2>3, <2>4, <2>5 DEF TableTypeOK
<1>12. DealInProgress'
  BY <1>1, <1>6, <1>9 DEF DealInProgress
<1>13. TurnFollowsLeader'
  BY <1>4, <1>5, <1>7, <1>8, <1>9, SeatAfterZero DEF TurnFollowsLeader
<1>14. CardsAccounted'
  BY <1>1, <1>6, <1>10, CardsAfterPlay DEF CardsAccounted
<1>15. HandSizes'
  <2> SUFFICES ASSUME NEW i \in 0 .. NSeats - 1
               PROVE  Cardinality(hands'[SeatAfter(Taker(t), i)]) =
                        LastTrick - Len(tricks')
    BY <1>5, <1>8, <1>9, <1>7, TricksAssumption DEF HandSizes, TableTypeOK
  <2>1. Leader \in Seats /\ SeatAfter(Taker(t), i) \in Seats
    <3> HIDE DEF t
    <3> QED BY <1>1, <1>4, LeaderType, SeatAfterType, NSeatsAssumption
  <2>2. PICK j \in 0 .. NSeats - 1 : SeatAfter(Taker(t), i) = SeatAfter(Leader, j)
    BY <2>1, SeatAfterOnto
  <2>3. Cardinality(hands'[SeatAfter(Leader, j)]) = LastTrick - Len(tricks) - 1
    BY <1>1, <1>3, <1>6, HandSizesAfterPlay
  <2> QED BY <1>8, <2>2, <2>3, TricksAssumption DEF TableTypeOK
<1> QED BY <1>11, <1>12, <1>13, <1>14, <1>15

(* The last card of a deal, with the next deal dealt in the same step. *)
LEMMA FinishDealInv ==
  ASSUME TableInv, NEW card \in Card, FinishDeal(card)
  PROVE  TableInv'
<1> USE DEF TableInv
<1> DEFINE t == WithCard(card)
<1>1. CanPlay(card) /\ TrickOngoing /\ CompletesDeal(card)
  BY DEF FinishDeal, CanPlay
<1>2. /\ tricks' = <<>> /\ score' = [s \in Seats |-> 0]
      /\ total' = AddPoints(total, t) /\ deals' = Tail(deals)
  BY DEF FinishDeal
<1>3. /\ deals' \in Seq(DealConfig)
      /\ \A i \in DOMAIN deals' : WellFormedDeal(deals'[i])
  BY <1>1, <1>2, CurrentDeal
<1>4. score' \in [Seats -> Nat] /\ total' \in [Seats -> Nat]
  BY <1>1, <1>2, AddPointsType DEF TableTypeOK
<1>5. tricks' \in Seq(TrickRecord) /\ DOMAIN tricks' = {} /\ TakenCards' = {}
  BY <1>2 DEF TakenCards
<1>6. \A s \in Seats : HandsWithout(card)[s] = {}
  BY <1>1, LastCardPlayed
<1>7. CASE deals' = <<>>
  <2>1. trick' = NoTrick /\ hands' = HandsWithout(card) /\ judge' = judge
    BY <1>7 DEF FinishDeal
  <2>2. ~TrickOngoing' /\ trick' \in Trick /\ Len(trick'.cards) = 0
    BY <2>1, NSeatsAssumption, TricksAssumption DEF TrickOngoing, NoTrick, Trick, Seats
  <2>3. hands' \in [Seats -> SUBSET Card] /\ \A s \in Seats : hands'[s] = {}
    BY <1>6, <2>1, HandsWithoutType
  <2>4. TableTypeOK'
    BY <1>3, <1>4, <1>5, <2>1, <2>2, <2>3, NSeatsAssumption DEF TableTypeOK
  <2>5. DealInProgress'
    BY <1>2, <1>3, <2>2 DEF DealInProgress
  <2>6. TurnFollowsLeader' /\ CardsAccounted'
    BY <2>2 DEF TurnFollowsLeader, CardsAccounted
  <2>7. HandSizes'
    BY <2>2, <2>3 DEF HandSizes
  <2> QED BY <2>4, <2>5, <2>6, <2>7
<1>8. CASE deals' # <<>>
  <2> DEFINE d == Head(deals')
  <2>1. d \in DealConfig /\ WellFormedDeal(d)
    BY <1>3, <1>8
  <2>2. d.first \in Seats /\ d.hands \in [Seats -> SUBSET Card] /\ d.type \in DealTypes
    BY <2>1 DEF DealConfig
  <2>3. /\ trick' = [cards |-> <<>>, number |-> 1, turn |-> d.first]
        /\ judge' = d.type /\ hands' = HandsDealt(HandsWithout(card), d)
    BY <1>8 DEF FinishDeal, FirstTrick
  <2>4. hands' \in [Seats -> SUBSET Card] /\ \A s \in Seats : hands'[s] = d.hands[s]
    BY <1>6, <2>2, <2>3 DEF HandsDealt
  <2>5. /\ TrickOngoing' /\ Leader' = d.first /\ PlayedCards' = {}
        /\ Len(trick'.cards) = 0 /\ Len(tricks') = 0
    BY <1>2, <1>5, <2>3 DEF TrickOngoing, Leader, PlayedCards, CardsOf
  <2>6. TableTypeOK'
    <3>1. trick' \in Trick
      BY <2>2, <2>3, TricksAssumption DEF Trick
    <3> QED BY <1>3, <1>4, <1>5, <2>2, <2>3, <2>4, <2>5, <3>1, NSeatsAssumption
            DEF TableTypeOK
  <2>7. DealInProgress'
    BY <1>3, <1>8, <2>5 DEF DealInProgress
  <2>8. TurnFollowsLeader'
    BY <2>2, <2>3, <2>5, SeatAfterZero DEF TurnFollowsLeader
  <2>9. CardsAccounted'
    BY <2>4, <2>5 DEF CardsAccounted
  <2>10. HandSizes'
    <3> SUFFICES ASSUME NEW i \in 0 .. NSeats - 1
                 PROVE  Cardinality(hands'[SeatAfter(d.first, i)]) = LastTrick
      BY <2>5, TricksAssumption DEF HandSizes
    <3>1. SeatAfter(d.first, i) \in Seats
      BY <2>2, SeatAfterType, NSeatsAssumption
    <3> QED BY <2>1, <2>4, <3>1 DEF WellFormedDeal
  <2> QED BY <2>6, <2>7, <2>8, <2>9, <2>10
<1> QED BY <1>7, <1>8

-----------------------------------------------------------------------------
(* The invariant holds at first. *)
LEMMA InitInv == TableInit => TableInv
<1> SUFFICES ASSUME TableInit PROVE TableInv
  OBVIOUS
<1>1. /\ trick = NoTrick /\ judge = NoJudge /\ hands = [s \in Seats |-> {}]
      /\ tricks = <<>> /\ deals \in Schedules
      /\ score = [s \in Seats |-> 0] /\ total = [s \in Seats |-> 0]
  BY DEF TableInit, GameInit
<1>2. /\ ~TrickOngoing /\ trick \in Trick /\ Len(trick.cards) = 0
  BY <1>1, NSeatsAssumption, TricksAssumption DEF TrickOngoing, NoTrick, Trick, Seats
<1>3. deals \in Seq(DealConfig) /\ \A i \in DOMAIN deals : WellFormedDeal(deals[i])
  BY <1>1, SchedulesAssumption
<1>4. TableTypeOK
  BY <1>1, <1>2, <1>3, NSeatsAssumption DEF TableTypeOK
<1>5. DealInProgress /\ TurnFollowsLeader /\ CardsAccounted /\ HandSizes
  BY <1>1, <1>2, <1>3
     DEF DealInProgress, TurnFollowsLeader, CardsAccounted, HandSizes
<1> QED BY <1>4, <1>5 DEF TableInv

(* It depends on the variables of the table only. *)
LEMMA StutterInv ==
  ASSUME TableInv, UNCHANGED tableVars
  PROVE  TableInv'
<1>1. UNCHANGED <<trick, hands, judge, deals, tricks, score, total>>
  BY DEF tableVars
<1> QED
  BY <1>1 DEF TableInv, TableTypeOK, DealInProgress, TurnFollowsLeader,
              CardsAccounted, HandSizes, TrickOngoing, Leader, PlayedCards,
              TakenCards

(* Every step of the table preserves it. *)
LEMMA NextInv ==
  ASSUME TableInv, [TableNext]_tableVars
  PROVE  TableInv'
<1>1. CASE StartGame
  BY <1>1, StartGameInv
<1>2. CASE PlayLegalCard
  <2>1. PICK card \in Card : PlayCard(card)
    BY <1>2 DEF PlayLegalCard
  <2>2. CASE ContinueTrick(card)
    BY <2>2, ContinueTrickInv
  <2>3. CASE FinishTrick(card)
    BY <2>3, FinishTrickInv
  <2>4. CASE FinishDeal(card)
    BY <2>4, FinishDealInv
  <2> QED BY <2>1, <2>2, <2>3, <2>4 DEF PlayCard
<1>3. CASE GameOver
  BY <1>3, StutterInv DEF GameOver
<1>4. CASE UNCHANGED tableVars
  BY <1>4, StutterInv
<1> QED BY <1>1, <1>2, <1>3, <1>4 DEF TableNext

(* The inductive invariant of the card table. *)
THEOREM Invariance == TableSpec => []TableInv
BY InitInv, NextInv, PTL DEF TableSpec

(* Every variable keeps its type: in particular the trick number stays       *)
(* within 1..13 (TrickNumber::Set never refuses it), the taker is a seat and *)
(* no trick is over-full.                                                    *)
THEOREM TypeCorrect == TableSpec => []TableTypeOK
BY Invariance, PTL DEF TableInv

(* The turn is where the leader chain puts it: GetTaker starts its scan at   *)
(* the leader, and the finished tricks are numbered without gaps.            *)
THEOREM LeadersFollowTakers == TableSpec => []TurnFollowsLeader
BY Invariance, PTL DEF TableInv

(* The hands are always what was dealt less what was played, over any number *)
(* of deals: what Update sends to a rejoining player is enough to rebuild    *)
(* its hand.                                                                 *)
THEOREM CardsConserved == TableSpec => []CardsAccounted
BY Invariance, PTL DEF TableInv

(* Everyone has the cards it needs: the player on turn always holds one, and *)
(* at the end of a deal nobody does, so Deal may add to the hands without    *)
(* clearing them.                                                            *)
THEOREM HandsEven == TableSpec => []HandSizes
BY Invariance, PTL DEF TableInv

(* The rules never leave the player on turn without a legal card: it holds    *)
(* a card, and either one of the led color or none at all.                    *)
LEMMA MoveExists == TableInv => NeverStuck
<1> SUFFICES ASSUME TableInv, TrickOngoing
             PROVE  \E card \in Card : IsMoveLegal(trick.turn, card)
  BY DEF NeverStuck
<1> DEFINE n == Len(trick.cards)
           hand == hands[trick.turn]
<1>1. /\ n \in 0 .. NSeats - 1 /\ trick.turn \in Seats /\ hand \subseteq Card
      /\ trick.number <= LastTrick /\ Len(tricks) \in Nat
  BY NSeatsAssumption, TricksAssumption DEF TableInv, TableTypeOK, Trick
<1>2. trick.number = Len(tricks) + 1 /\ trick.turn = SeatAfter(Leader, n)
  BY DEF TableInv, TurnFollowsLeader
<1>3. Cardinality(hand) = LastTrick - Len(tricks)
  BY <1>1, <1>2, TricksAssumption DEF TableInv, HandSizes
<1>4. hand # {}
  <2>1. Cardinality(hand) # 0
    BY <1>1, <1>2, <1>3, TricksAssumption
  <2> QED BY <2>1, FS_EmptySet
<1>5. CASE trick.cards = <<>>
  BY <1>1, <1>4, <1>5 DEF IsMoveLegal
<1>6. CASE trick.cards # <<>>
  <2> DEFINE led == OfColor(hand, Head(trick.cards).color)
  <2>1. CASE led = {}
    BY <1>1, <1>4, <2>1 DEF IsMoveLegal
  <2>2. CASE led # {}
    BY <1>1, <2>2 DEF IsMoveLegal, OfColor
  <2> QED BY <2>1, <2>2
<1> QED BY <1>5, <1>6

(* Whoever is asked for a card has a legal one, at every point of every game:
   the server never waits for a card that cannot be played. *)
THEOREM LegalMoveExists == TableSpec => []NeverStuck
BY Invariance, MoveExists, PTL

-----------------------------------------------------------------------------
(* Nobody revokes.  Beside TableInv the property is its own invariant: that *)
(* a seat is out of a color stays true because hands only shrink in a deal. *)

(* The tricks of a deal, the current one at the end.                        *)
LEMMA AllTricksAre ==
  ASSUME NEW ts \in Seq(TrickRecord), NEW q \in Seq(Card)
  PROVE  LET all == Append([k \in DOMAIN ts |-> ts[k].cards], q)
         IN  /\ DOMAIN all = 1 .. Len(ts) + 1 /\ Len(all) = Len(ts) + 1
             /\ \A k \in DOMAIN ts : all[k] = ts[k].cards
             /\ all[Len(ts) + 1] = q
<1> DEFINE old == [k \in DOMAIN ts |-> ts[k].cards]
<1>1. old \in Seq(Seq(Card)) /\ Len(old) = Len(ts) /\ Len(ts) \in Nat
  <2>1. \A k \in DOMAIN ts : ts[k] \in TrickRecord
    OBVIOUS
  <2>2. \A k \in DOMAIN ts : ts[k].cards \in Seq(Card)
    BY <2>1 DEF TrickRecord
  <2> QED BY <2>2
<1>2. \A k \in DOMAIN ts : old[k] = ts[k].cards
  OBVIOUS
<1> HIDE DEF old
<1>3. /\ DOMAIN Append(old, q) = 1 .. Len(ts) + 1 /\ Len(Append(old, q)) = Len(ts) + 1
      /\ \A k \in DOMAIN ts : Append(old, q)[k] = old[k]
      /\ Append(old, q)[Len(ts) + 1] = q
  BY <1>1
<1> QED BY <1>2, <1>3 DEF old

(* Who played each card of the deal.                                        *)
LEMMA PlayersOfCards ==
  ASSUME TableInv, TrickOngoing
  PROVE  /\ DOMAIN AllTricks = 1 .. Len(tricks) + 1 /\ Len(AllTricks) = Len(tricks) + 1
         /\ \A k \in DOMAIN tricks : AllTricks[k] = tricks[k].cards
         /\ AllTricks[Len(tricks) + 1] = trick.cards
         /\ TrickLeader(Len(tricks) + 1) = Leader
         /\ \A k \in DOMAIN AllTricks : /\ TrickLeader(k) \in Seats
                                        /\ AllTricks[k] \in Seq(Card)
         /\ \A k \in DOMAIN AllTricks : \A i \in DOMAIN AllTricks[k] : PlayedBy(k, i) \in Seats
<1>1. tricks \in Seq(TrickRecord) /\ trick.cards \in Seq(Card) /\ Len(tricks) \in Nat
  BY DEF TableInv, TableTypeOK, Trick
<1>2. /\ DOMAIN AllTricks = 1 .. Len(tricks) + 1 /\ Len(AllTricks) = Len(tricks) + 1
      /\ \A k \in DOMAIN tricks : AllTricks[k] = tricks[k].cards
      /\ AllTricks[Len(tricks) + 1] = trick.cards
  BY <1>1, AllTricksAre DEF AllTricks
<1>3. Head(deals).first \in Seats
  BY CurrentDeal DEF DealConfig
<1>4. \A k \in DOMAIN tricks : tricks[k].taker \in Seats /\ tricks[k].cards \in Seq(Card)
  <2>1. \A k \in DOMAIN tricks : tricks[k] \in TrickRecord
    BY <1>1
  <2> QED BY <2>1 DEF TrickRecord
<1>5. \A k \in DOMAIN AllTricks : TrickLeader(k) \in Seats /\ AllTricks[k] \in Seq(Card)
  <2> SUFFICES ASSUME NEW k \in DOMAIN AllTricks
               PROVE  TrickLeader(k) \in Seats /\ AllTricks[k] \in Seq(Card)
    OBVIOUS
  <2>1. k = 1 \/ k - 1 \in DOMAIN tricks
    BY <1>1, <1>2
  <2>2. TrickLeader(k) \in Seats
    BY <1>3, <1>4, <2>1 DEF TrickLeader
  <2>3. k \in DOMAIN tricks \/ k = Len(tricks) + 1
    BY <1>1, <1>2
  <2>4. AllTricks[k] \in Seq(Card)
    BY <1>1, <1>2, <1>4, <2>3
  <2> QED BY <2>2, <2>4
<1>6. TrickLeader(Len(tricks) + 1) = Leader
  BY <1>1 DEF TrickLeader, Leader
<1>7. ASSUME NEW k \in DOMAIN AllTricks, NEW i \in DOMAIN AllTricks[k]
      PROVE  PlayedBy(k, i) \in Seats
  <2>1. i - 1 \in Nat /\ TrickLeader(k) \in Seats
    <3>1. AllTricks[k] \in Seq(Card)
      BY <1>5
    <3> QED BY <1>5, <3>1
  <2> QED BY <2>1, SeatAfterType DEF PlayedBy
<1> QED BY <1>2, <1>5, <1>6, <1>7

(* A step that adds a card to the current trick and leaves the other cards  *)
(* of the deal, and who played them, as they are.                           *)
IsOld(k, i) ==
    /\ k \in DOMAIN AllTricks /\ i \in DOMAIN AllTricks[k]
    /\ AllTricks'[k][i] = AllTricks[k][i] /\ AllTricks'[k][1] = AllTricks[k][1]
    /\ PlayedBy(k, i)' = PlayedBy(k, i)
IsNew(k, i, card) ==
    /\ k = Len(AllTricks) /\ AllTricks'[k][i] = card /\ PlayedBy(k, i)' = trick.turn
    /\ trick.cards = <<>> => AllTricks'[k][1] = card
    /\ trick.cards # <<>> => AllTricks'[k][1] = Head(trick.cards)
GrowsBy(card) ==
    /\ \A k \in DOMAIN AllTricks' : \A i \in DOMAIN AllTricks'[k] :
          IsOld(k, i) \/ IsNew(k, i, card)
    /\ \A k \in DOMAIN AllTricks' :
          k > Len(AllTricks) => AllTricks'[k] = <<>>
    /\ DOMAIN AllTricks = 1 .. Len(AllTricks) /\ DOMAIN AllTricks' = 1 .. Len(AllTricks')
    /\ \A k \in DOMAIN AllTricks : \A i \in DOMAIN AllTricks[k] : PlayedBy(k, i) \in Seats
    /\ \A s \in Seats : hands'[s] \subseteq hands[s]

(* A legal card put on the table makes no revoke: neither its own, for the  *)
(* hand is void if it does not follow, nor an earlier one.                  *)
LEMMA RevokesNever ==
  ASSUME TableInv, NoRevoke, NEW card \in Card, IsMoveLegal(trick.turn, card),
         GrowsBy(card)
  PROVE  NoRevoke'
<1> SUFFICES ASSUME NEW k \in DOMAIN AllTricks', NEW i \in DOMAIN AllTricks'[k],
                    AllTricks'[k][i].color # AllTricks'[k][1].color
             PROVE  LET led == AllTricks'[k][1].color
                        seat == PlayedBy(k, i)'
                    IN  /\ OfColor(hands'[seat], led) = {}
                        /\ \A l \in k + 1 .. Len(AllTricks') : \A j \in DOMAIN AllTricks'[l] :
                              PlayedBy(l, j)' = seat => AllTricks'[l][j].color # led
  BY DEF NoRevoke
<1> DEFINE led == AllTricks'[k][1].color
           seat == PlayedBy(k, i)'
<1>1. CASE IsOld(k, i)
  <2>1. /\ seat = PlayedBy(k, i) /\ led = AllTricks[k][1].color
        /\ AllTricks[k][i].color # led /\ k \in DOMAIN AllTricks /\ i \in DOMAIN AllTricks[k]
    BY <1>1 DEF IsOld
  <2>2. /\ OfColor(hands[seat], led) = {}
        /\ \A l \in k + 1 .. Len(AllTricks) : \A j \in DOMAIN AllTricks[l] :
              PlayedBy(l, j) = seat => AllTricks[l][j].color # led
    BY <2>1 DEF NoRevoke
  <2>3. seat \in Seats /\ hands'[seat] \subseteq hands[seat]
    BY <2>1 DEF GrowsBy
  <2>4. OfColor(hands'[seat], led) = {}
    BY <2>2, <2>3 DEF OfColor
  <2>5. ASSUME NEW l \in k + 1 .. Len(AllTricks'), NEW j \in DOMAIN AllTricks'[l],
               PlayedBy(l, j)' = seat
        PROVE  AllTricks'[l][j].color # led
    <3>1. l \in DOMAIN AllTricks' /\ l > k /\ k \in Nat
      BY <2>1 DEF GrowsBy
    <3>2. CASE IsOld(l, j)
      <4>1. /\ l \in DOMAIN AllTricks /\ j \in DOMAIN AllTricks[l]
            /\ AllTricks'[l][j] = AllTricks[l][j] /\ PlayedBy(l, j) = seat
        BY <2>5, <3>2 DEF IsOld
      <4>2. l \in k + 1 .. Len(AllTricks)
        BY <3>1, <4>1 DEF GrowsBy
      <4> QED BY <2>2, <4>1, <4>2
    <3>3. CASE IsNew(l, j, card)
      <4>1. AllTricks'[l][j] = card /\ seat = trick.turn
        BY <2>5, <3>3 DEF IsNew
      <4>2. card \in hands[seat]
        BY <4>1 DEF IsMoveLegal
      <4> QED BY <2>2, <4>1, <4>2 DEF OfColor
    <3> QED BY <3>1, <3>2, <3>3 DEF GrowsBy
  <2> QED BY <2>4, <2>5
<1>2. CASE IsNew(k, i, card)
  <2>1. k = Len(AllTricks) /\ AllTricks'[k][i] = card /\ seat = trick.turn
    BY <1>2 DEF IsNew
  <2>2. trick.cards # <<>> /\ led = Head(trick.cards).color /\ card.color # led
    BY <1>2, <2>1 DEF IsNew
  <2>3. OfColor(hands[seat], led) = {}
    BY <2>1, <2>2 DEF IsMoveLegal
  <2>4. seat \in Seats /\ hands'[seat] \subseteq hands[seat]
    BY <2>1 DEF GrowsBy, TableInv, TableTypeOK, Trick
  <2>5. OfColor(hands'[seat], led) = {}
    BY <2>3, <2>4 DEF OfColor
  <2>6. \A l \in k + 1 .. Len(AllTricks') : AllTricks'[l] = <<>>
    <3>1. \A l \in k + 1 .. Len(AllTricks') : l \in DOMAIN AllTricks' /\ l > Len(AllTricks)
      BY <2>1 DEF GrowsBy
    <3> QED BY <3>1 DEF GrowsBy
  <2> QED BY <2>5, <2>6
<1> QED BY <1>1, <1>2 DEF GrowsBy

(* A card that does not end the deal is such a step.                        *)
LEMMA ContinueGrows ==
  ASSUME TableInv, NEW card \in Card, ContinueTrick(card)
  PROVE  GrowsBy(card)
<1> DEFINE n == Len(tricks) + 1
           m == Len(trick.cards) + 1
<1>1. TrickOngoing /\ TableInv' /\ TrickOngoing'
  <2>1. TrickOngoing /\ CanPlay(card)
    BY DEF ContinueTrick, Play, CanPlay
  <2>2. TrickOngoing'
    BY <2>1, WithCardType DEF TableInv, ContinueTrick, Play, TrickAfter, TrickOngoing
  <2> QED BY <2>1, <2>2, ContinueTrickInv
<1>2. /\ trick.cards \in Seq(Card) /\ trick'.cards = Append(trick.cards, card)
      /\ Len(trick.cards) \in Nat /\ Len(tricks) \in Nat /\ tricks \in Seq(TrickRecord)
      /\ tricks' = tricks /\ deals' = deals /\ hands' = HandsWithout(card)
  <2>1. trick.cards \in Seq(Card) /\ tricks \in Seq(TrickRecord)
    BY DEF TableInv, TableTypeOK, Trick
  <2>2. trick'.cards = Append(trick.cards, card)
    BY WithCardType DEF TableInv, ContinueTrick, Play, TrickAfter
  <2>3. tricks' = tricks /\ deals' = deals /\ hands' = HandsWithout(card)
    BY DEF ContinueTrick, Play
  <2> QED BY <2>1, <2>2, <2>3
<1>3. /\ DOMAIN trick'.cards = 1 .. m /\ trick'.cards[m] = card
      /\ \A i \in DOMAIN trick.cards : trick'.cards[i] = trick.cards[i]
      /\ DOMAIN trick.cards = 1 .. m - 1
  BY <1>2
<1>4. /\ DOMAIN AllTricks = 1 .. n /\ Len(AllTricks) = n
      /\ \A k \in DOMAIN tricks : AllTricks[k] = tricks[k].cards
      /\ AllTricks[n] = trick.cards /\ TrickLeader(n) = Leader
      /\ \A k \in DOMAIN AllTricks : AllTricks[k] \in Seq(Card)
      /\ \A k \in DOMAIN AllTricks : \A i \in DOMAIN AllTricks[k] : PlayedBy(k, i) \in Seats
  BY <1>1, PlayersOfCards
<1>5. /\ DOMAIN AllTricks' = 1 .. n /\ Len(AllTricks') = n
      /\ \A k \in DOMAIN tricks : AllTricks'[k] = tricks[k].cards
      /\ AllTricks'[n] = trick'.cards
  <2>1. trick'.cards \in Seq(Card)
    BY <1>2
  <2> QED BY <1>2, <2>1, AllTricksAre DEF AllTricks
<1>6. \A k, i : PlayedBy(k, i)' = PlayedBy(k, i)
  BY <1>2 DEF PlayedBy, TrickLeader
<1>7. PlayedBy(n, m) = trick.turn
  BY <1>1, <1>2, <1>4 DEF PlayedBy, TableInv, TurnFollowsLeader
<1>8. ASSUME NEW k \in DOMAIN AllTricks', NEW i \in DOMAIN AllTricks'[k]
      PROVE  IsOld(k, i) \/ IsNew(k, i, card)
  <2>1. CASE k # n
    <3>1. k \in DOMAIN tricks /\ AllTricks'[k] = AllTricks[k]
      BY <1>2, <1>4, <1>5, <2>1
    <3> QED BY <1>4, <1>5, <1>6, <3>1 DEF IsOld
  <2>2. CASE k = n /\ i # m
    <3>1. i \in DOMAIN trick.cards /\ 1 \in DOMAIN trick.cards
      BY <1>2, <1>3, <1>5, <2>2
    <3>2. /\ AllTricks'[k][i] = AllTricks[k][i] /\ AllTricks'[k][1] = AllTricks[k][1]
          /\ i \in DOMAIN AllTricks[k] /\ k \in DOMAIN AllTricks
      BY <1>2, <1>3, <1>4, <1>5, <2>2, <3>1
    <3> QED BY <1>6, <3>2 DEF IsOld
  <2>3. CASE k = n /\ i = m
    <3>1. AllTricks'[k][i] = card /\ PlayedBy(k, i)' = trick.turn /\ k = Len(AllTricks)
      BY <1>3, <1>4, <1>5, <1>6, <1>7, <2>3
    <3>2. trick.cards = <<>> => AllTricks'[k][1] = card
      <4>1. trick.cards = <<>> => m = 1
        OBVIOUS
      <4> QED BY <1>3, <1>5, <2>3, <4>1
    <3>3. trick.cards # <<>> => AllTricks'[k][1] = Head(trick.cards)
      <4>1. trick.cards # <<>> => 1 \in DOMAIN trick.cards /\ Head(trick.cards) = trick.cards[1]
        BY <1>2
      <4> QED BY <1>3, <1>5, <2>3, <4>1
    <3> QED BY <3>1, <3>2, <3>3 DEF IsNew
  <2> QED BY <2>1, <2>2, <2>3
<1>9. \A s \in Seats : hands'[s] \subseteq hands[s]
  BY <1>2, HandsWithoutType DEF TableInv
<1>10. \A k \in DOMAIN AllTricks' : ~(k > Len(AllTricks))
  BY <1>2, <1>4, <1>5
<1> QED BY <1>4, <1>5, <1>8, <1>9, <1>10 DEF GrowsBy

(* The card that ends a trick is put after the others.                      *)
LEMMA FinishGrows ==
  ASSUME TableInv, NEW card \in Card, FinishTrick(card)
  PROVE  GrowsBy(card)
<1> DEFINE n == Len(tricks) + 1
           m == Len(trick.cards) + 1
           t == WithCard(card)
<1>1. TrickOngoing /\ TableInv'
  <2>1. TrickOngoing /\ CanPlay(card)
    BY DEF FinishTrick, Play, CanPlay
  <2> QED BY <2>1, FinishTrickInv
<1>2. /\ trick.cards \in Seq(Card) /\ t.cards = Append(trick.cards, card)
      /\ Len(trick.cards) \in Nat /\ Len(tricks) \in Nat /\ tricks \in Seq(TrickRecord)
      /\ tricks' = Append(tricks, RecordOf(t)) /\ deals' = deals
      /\ hands' = HandsWithout(card) /\ trick'.cards = <<>>
      /\ tricks' \in Seq(TrickRecord) /\ RecordOf(t).cards = t.cards
  <2>1. /\ trick.cards \in Seq(Card) /\ tricks \in Seq(TrickRecord)
        /\ tricks' \in Seq(TrickRecord)
    BY <1>1 DEF TableInv, TableTypeOK, Trick
  <2>2. t.cards = Append(trick.cards, card)
    BY WithCardType DEF TableInv
  <2>3. tricks' = Append(tricks, RecordOf(t)) /\ deals' = deals /\ hands' = HandsWithout(card)
    BY DEF FinishTrick, Play
  <2>4. trick'.cards = <<>>
    BY DEF FinishTrick, Play, TrickAfter
  <2>5. RecordOf(t).cards = t.cards
    BY DEF RecordOf
  <2>6. Len(trick.cards) \in Nat /\ Len(tricks) \in Nat
    BY <2>1
  <2> HIDE DEF t
  <2> QED BY <2>1, <2>2, <2>3, <2>4, <2>5, <2>6
<1> HIDE DEF t
<1>3. /\ DOMAIN t.cards = 1 .. m /\ t.cards[m] = card
      /\ \A i \in DOMAIN trick.cards : t.cards[i] = trick.cards[i]
      /\ DOMAIN trick.cards = 1 .. m - 1
  BY <1>2
<1>4. /\ DOMAIN AllTricks = 1 .. n /\ Len(AllTricks) = n
      /\ \A k \in DOMAIN tricks : AllTricks[k] = tricks[k].cards
      /\ AllTricks[n] = trick.cards /\ TrickLeader(n) = Leader
      /\ \A k \in DOMAIN AllTricks : AllTricks[k] \in Seq(Card)
      /\ \A k \in DOMAIN AllTricks : \A i \in DOMAIN AllTricks[k] : PlayedBy(k, i) \in Seats
  BY <1>1, PlayersOfCards
<1>5. /\ Len(tricks') = n /\ DOMAIN tricks' = 1 .. n /\ DOMAIN tricks = 1 .. n - 1
      /\ \A k \in DOMAIN tricks : tricks'[k] = tricks[k]
      /\ tricks'[n] = RecordOf(t)
  <2> HIDE DEF m
  <2>1. \E r : tricks' = Append(tricks, r) /\ r = RecordOf(t)
    BY <1>2
  <2> QED BY <1>2, <2>1
<1>6. /\ DOMAIN AllTricks' = 1 .. n + 1 /\ Len(AllTricks') = n + 1
      /\ \A k \in DOMAIN tricks : AllTricks'[k] = tricks[k].cards
      /\ AllTricks'[n] = t.cards /\ AllTricks'[n + 1] = <<>>
  <2>1. trick'.cards \in Seq(Card)
    BY <1>2
  <2>2. /\ DOMAIN AllTricks' = 1 .. n + 1 /\ Len(AllTricks') = n + 1
        /\ \A k \in DOMAIN tricks' : AllTricks'[k] = tricks'[k].cards
        /\ AllTricks'[n + 1] = trick'.cards
    BY <1>2, <1>5, <2>1, AllTricksAre DEF AllTricks
  <2>3. n \in DOMAIN tricks' /\ DOMAIN tricks \subseteq DOMAIN tricks'
    BY <1>2, <1>5
  <2> QED BY <1>2, <1>5, <2>2, <2>3
<1>7. \A k \in 1 .. n : \A i : PlayedBy(k, i)' = PlayedBy(k, i)
  <2> SUFFICES ASSUME NEW k \in 1 .. n PROVE TrickLeader(k)' = TrickLeader(k)
    BY DEF PlayedBy
  <2>1. CASE k = 1
    BY <1>2, <2>1 DEF TrickLeader
  <2>2. CASE k # 1
    <3>1. k - 1 \in DOMAIN tricks
      BY <1>2, <1>5, <2>2
    <3> QED BY <1>5, <2>2, <3>1 DEF TrickLeader
  <2> QED BY <2>1, <2>2
<1>8. PlayedBy(n, m) = trick.turn
  BY <1>1, <1>2, <1>4 DEF PlayedBy, TableInv, TurnFollowsLeader
<1>9. ASSUME NEW k \in DOMAIN AllTricks', NEW i \in DOMAIN AllTricks'[k]
      PROVE  IsOld(k, i) \/ IsNew(k, i, card)
  <2>1. CASE k \in DOMAIN tricks
    <3>1. AllTricks'[k] = AllTricks[k] /\ k \in DOMAIN AllTricks /\ k \in 1 .. n
      BY <1>2, <1>4, <1>5, <1>6, <2>1
    <3> QED BY <1>7, <3>1 DEF IsOld
  <2>2. CASE k = n /\ i # m
    <3>1. i \in DOMAIN trick.cards /\ 1 \in DOMAIN trick.cards
      BY <1>2, <1>3, <1>6, <2>2
    <3>2. AllTricks'[k] = t.cards /\ AllTricks[k] = trick.cards
      BY <1>4, <1>6, <2>2
    <3>3. t.cards[i] = trick.cards[i] /\ t.cards[1] = trick.cards[1]
      BY <1>3, <3>1
    <3>4. k \in DOMAIN AllTricks /\ k \in 1 .. n
      <4>1. n \in 1 .. n
        BY <1>2
      <4> QED BY <1>4, <2>2, <4>1
    <3> QED BY <1>7, <3>1, <3>2, <3>3, <3>4 DEF IsOld
  <2>3. CASE k = n /\ i = m
    <3>1. AllTricks'[k][i] = card /\ PlayedBy(k, i)' = trick.turn /\ k = Len(AllTricks)
      BY <1>2, <1>3, <1>4, <1>6, <1>7, <1>8, <2>3
    <3>2. trick.cards = <<>> => AllTricks'[k][1] = card
      <4>1. trick.cards = <<>> => m = 1
        OBVIOUS
      <4> QED BY <1>3, <1>6, <2>3, <4>1
    <3>3. trick.cards # <<>> => AllTricks'[k][1] = Head(trick.cards)
      <4>1. trick.cards # <<>> => 1 \in DOMAIN trick.cards /\ Head(trick.cards) = trick.cards[1]
        BY <1>2
      <4> QED BY <1>3, <1>6, <2>3, <4>1
    <3> QED BY <3>1, <3>2, <3>3 DEF IsNew
  <2>4. k # n + 1
    BY <1>6
  <2> QED BY <1>2, <1>5, <1>6, <2>1, <2>2, <2>3, <2>4
<1>10. \A s \in Seats : hands'[s] \subseteq hands[s]
  BY <1>2, HandsWithoutType DEF TableInv
<1>11. \A k \in DOMAIN AllTricks' : k > Len(AllTricks) => AllTricks'[k] = <<>>
  BY <1>2, <1>4, <1>6
<1> QED BY <1>4, <1>6, <1>9, <1>10, <1>11 DEF GrowsBy

(* Between two deals, and when one begins, no card has been played.         *)
LEMMA NoCardNoRevoke == tricks = <<>> /\ trick.cards = <<>> => NoRevoke
<1> SUFFICES ASSUME tricks = <<>>, trick.cards = <<>> PROVE NoRevoke
  OBVIOUS
<1>1. AllTricks = <<<<>>>>
  <2>1. [k \in DOMAIN <<>> |-> tricks[k].cards] = <<>>
    OBVIOUS
  <2> QED BY <2>1 DEF AllTricks
<1>2. \A k \in DOMAIN AllTricks : DOMAIN AllTricks[k] = {}
  BY <1>1
<1> QED BY <1>2 DEF NoRevoke

(* Before the game nobody has revoked.                                      *)
LEMMA InitNoRevoke ==
  ASSUME TableInit
  PROVE  NoRevoke
BY NoCardNoRevoke DEF TableInit, GameInit, NoTrick

(* Nobody revokes in a step of the table.                                   *)
LEMMA NextNoRevoke ==
  ASSUME TableInv, NoRevoke, [TableNext]_tableVars
  PROVE  NoRevoke'
<1>1. (tricks = <<>> /\ trick.cards = <<>>)' => NoRevoke'
  BY NoCardNoRevoke, PTL
<1>2. CASE StartGame
  <2>1. tricks = <<>>
    BY <1>2 DEF StartGame, Deal, TableInv, DealInProgress
  <2> QED BY <1>1, <1>2, <2>1 DEF StartGame, Deal, FirstTrick
<1>3. CASE PlayLegalCard
  <2>1. PICK card \in Card : IsMoveLegal(trick.turn, card) /\ PlayCard(card)
    BY <1>3 DEF PlayLegalCard
  <2>2. CASE ContinueTrick(card)
    BY <2>1, <2>2, ContinueGrows, RevokesNever
  <2>3. CASE FinishTrick(card)
    BY <2>1, <2>3, FinishGrows, RevokesNever
  <2>4. CASE FinishDeal(card)
    <3>1. tricks' = <<>> /\ trick'.cards = <<>>
      BY <2>4 DEF FinishDeal, NoTrick, FirstTrick
    <3> QED BY <1>1, <3>1
  <2> QED BY <2>1, <2>2, <2>3, <2>4 DEF PlayCard
<1>4. CASE GameOver \/ UNCHANGED tableVars
  <2>1. UNCHANGED <<trick, hands, deals, tricks>>
    BY <1>4 DEF GameOver, tableVars
  <2>2. AllTricks' = AllTricks /\ \A k, i : PlayedBy(k, i)' = PlayedBy(k, i)
    BY <2>1 DEF AllTricks, PlayedBy, TrickLeader
  <2> SUFFICES ASSUME NEW k \in DOMAIN AllTricks', NEW i \in DOMAIN AllTricks'[k],
                      AllTricks'[k][i].color # AllTricks'[k][1].color
               PROVE  LET led == AllTricks'[k][1].color
                          seat == PlayedBy(k, i)'
                      IN  /\ OfColor(hands'[seat], led) = {}
                          /\ \A l \in k + 1 .. Len(AllTricks') : \A j \in DOMAIN AllTricks'[l] :
                                PlayedBy(l, j)' = seat => AllTricks'[l][j].color # led
    BY DEF NoRevoke
  <2>3. LET led == AllTricks[k][1].color
            seat == PlayedBy(k, i)
        IN  /\ OfColor(hands[seat], led) = {}
            /\ \A l \in k + 1 .. Len(AllTricks) : \A j \in DOMAIN AllTricks[l] :
                  PlayedBy(l, j) = seat => AllTricks[l][j].color # led
    BY <2>2 DEF NoRevoke
  <2> QED BY <2>1, <2>2, <2>3
<1> QED BY <1>2, <1>3, <1>4 DEF TableNext

(* A seat that discards on a trick neither holds nor plays the color it     *)
(* failed until the deal is over, however IsMoveLegal is used.              *)
THEOREM NobodyRevokes == TableSpec => []NoRevoke
<1>1. TableInv /\ NoRevoke /\ [TableNext]_tableVars => NoRevoke'
  BY NextNoRevoke
<1> QED BY <1>1, InitNoRevoke, Invariance, PTL DEF TableSpec

-----------------------------------------------------------------------------
(* The points of a deal so far.  Awarded is ScoresMatchTricks at all times: *)
(* between two deals there are no tricks and no points.                     *)
TakenBy(s) == {k \in DOMAIN tricks : tricks[k].taker = s}
Awarded == \A s \in Seats : score[s] = MapThenSumSet(PointsOf, TakenBy(s))

(* The judges look at the cards and the number of a trick only.             *)
LEMMA SamePoints ==
  ASSUME NEW type \in DealTypes, NEW t, NEW u, t.cards = u.cards, t.number = u.number
  PROVE  Points(type, t) = Points(type, u)
BY DEF Points, DealTypes, TricksBad, HeartsBad, QueensBad, GentlemenBad,
       KingOfHeartsBad, SeventhAndLastTrickBad, Robber

(* The fold of ScoresMatchTricks is the sum of the points of its tricks,    *)
(* taken from any function that has them.                                   *)
SumIs(s, R, f, h) ==
    /\ IsFiniteSet(R) /\ TakenBy(s) \subseteq R /\ IsSum(h, f, R)
    /\ \A k \in TakenBy(s) : f[k] = PointsOf(k)

SumsRight ==
    \A s, R, f, h : SumIs(s, R, f, h) =>
                       MapThenSumSet(PointsOf, TakenBy(s)) = h[TakenBy(s)]

(* The fold of the community modules is the sum of LoopLemmas.              *)
LEMMA SumOfPoints == SumsRight
<1> SUFFICES ASSUME NEW s, NEW R, NEW f, NEW h, SumIs(s, R, f, h)
             PROVE  MapThenSumSet(PointsOf, TakenBy(s)) = h[TakenBy(s)]
  BY DEF SumsRight
<1> DEFINE K == TakenBy(s)
           step(g) == [T \in SUBSET K |->
                         IF T = {} THEN 0
                         ELSE PointsOf(CHOOSE x \in T : TRUE)
                                + g[T \ {CHOOSE x \in T : TRUE}]]
           iter == CHOOSE g : g = step(g)
           r == [T \in SUBSET K |-> h[T]]
<1>1. /\ IsFiniteSet(R) /\ K \subseteq R /\ IsSum(h, f, R)
      /\ \A k \in K : f[k] = PointsOf(k)
  BY DEF SumIs
<1>2. r = step(r)
  <2> SUFFICES ASSUME NEW T \in SUBSET K
               PROVE  h[T] = IF T = {} THEN 0
                             ELSE PointsOf(CHOOSE x \in T : TRUE)
                                    + r[T \ {CHOOSE x \in T : TRUE}]
    OBVIOUS
  <2>1. h[T] = SumStep(f, h, T)
    BY <1>1 DEF IsSum
  <2>2. CASE T # {}
    <3>1. PICK p \in T : p = Pick(T) /\ p = CHOOSE x \in T : TRUE
      BY <2>2 DEF Pick
    <3>2. f[p] = PointsOf(p) /\ r[T \ {p}] = h[T \ {p}]
      BY <1>1
    <3> HIDE DEF K, r
    <3> QED BY <2>1, <2>2, <3>1, <3>2 DEF SumStep
  <2> QED BY <2>1, <2>2 DEF SumStep
<1>3. iter = step(iter)
  <2> HIDE DEF step, r
  <2> QED BY <1>2
<1>4. IsSum(iter, f, K)
  <2>1. ASSUME NEW T \in SUBSET K PROVE step(iter)[T] = SumStep(f, iter, T)
    <3> HIDE DEF iter
    <3>1. CASE T # {}
      <4>1. PICK p \in T : p = Pick(T) /\ p = CHOOSE x \in T : TRUE
        BY <3>1 DEF Pick
      <4>2. f[p] = PointsOf(p)
        BY <1>1
      <4> QED BY <3>1, <4>1, <4>2 DEF SumStep
    <3> QED BY <3>1 DEF SumStep
  <2>2. DOMAIN step(iter) = SUBSET K /\ step(iter) = [T \in SUBSET K |-> step(iter)[T]]
    OBVIOUS
  <2> HIDE DEF step, iter, K
  <2> QED BY <1>3, <2>1, <2>2 DEF IsSum
<1>5. iter[K] = h[K]
  <2>1. IsFiniteSet(K) /\ \A x \in K : f[x] = f[x]
    BY <1>1, FS_Subset
  <2> HIDE DEF iter, K
  <2>2. \A T \in SUBSET K : iter[T] = h[T]
    BY <1>1, <1>4, <2>1, SumsAgree
  <2> QED BY <2>2
<1>6. MapThenSumSet(PointsOf, K) = iter[K]
  <2> HIDE DEF K
  <2> QED BY DEF MapThenSumSet, MapThenFoldSet
<1> QED BY <1>5, <1>6

(* No trick, no points.                                                     *)
LEMMA NothingTaken ==
  tricks = <<>> /\ (\A s \in Seats : score[s] = 0) => Awarded
<1> SUFFICES ASSUME tricks = <<>>, NEW s \in Seats, score[s] = 0
             PROVE  score[s] = MapThenSumSet(PointsOf, TakenBy(s))
  BY DEF Awarded
<1> DEFINE h == [T \in SUBSET {} |-> SumStep(<<>>, [x \in {{}} |-> 0], T)]
<1>1. TakenBy(s) = {}
  BY DEF TakenBy
<1>2. h = [x \in {{}} |-> 0]
  BY DEF SumStep
<1>3. IsSum(h, <<>>, {})
  BY <1>2 DEF IsSum
<1>4. SumIs(s, {}, <<>>, h)
  <2> HIDE DEF h
  <2> QED BY <1>1, <1>3, FS_EmptySet DEF SumIs
<1>5. MapThenSumSet(PointsOf, TakenBy(s)) = h[{}]
  <2> HIDE DEF h
  <2> QED BY <1>1, <1>4, SumOfPoints DEF SumsRight
<1> QED BY <1>2, <1>5

(* The points of a recorded trick are a natural number.                     *)
LEMMA PointsOfType ==
  ASSUME TableInv, NEW k \in DOMAIN tricks
  PROVE  PointsOf(k) \in Nat
<1> DEFINE u == [cards |-> tricks[k].cards, number |-> k, turn |-> tricks[k].taker]
<1>1. tricks \in Seq(TrickRecord)
  BY DEF TableInv, TableTypeOK
<1>2. tricks[k] \in TrickRecord /\ tricks # <<>>
  BY <1>1
<1>3. judge \in DealTypes
  BY <1>2 DEF TableInv, DealInProgress, TableTypeOK
<1>4. u.cards \in Seq(Card)
  BY <1>2 DEF TrickRecord
<1>5. Points(judge, u) \in Nat
  <2> HIDE DEF u
  <2> QED BY <1>3, <1>4, PointsType
<1> QED BY <1>5 DEF PointsOf

(* While no trick is finished the points stand.                             *)
LEMMA NoTrickNoAward ==
  ASSUME TableInv, Awarded, UNCHANGED <<judge, tricks, score>>
  PROVE  Awarded'
<1> SUFFICES ASSUME NEW s \in Seats
             PROVE  score'[s] = MapThenSumSet(PointsOf, TakenBy(s))'
  BY DEF Awarded
<1>1. PICK K : K = TakenBy(s)
  OBVIOUS
<1>2. K = TakenBy(s)' /\ \A k : PointsOf(k)' = PointsOf(k)
  BY <1>1 DEF TakenBy, PointsOf
<1>3. IsFiniteSet(K) /\ K \subseteq DOMAIN tricks
  <2>1. tricks \in Seq(TrickRecord)
    BY DEF TableInv, TableTypeOK
  <2>2. DOMAIN tricks = 1 .. Len(tricks) /\ Len(tricks) \in Nat
    BY <2>1
  <2>3. IsFiniteSet(DOMAIN tricks) /\ K \subseteq DOMAIN tricks
    BY <1>1, <2>2, FS_Interval DEF TakenBy
  <2> QED BY <2>3, FS_Subset
<1>4. PICK f : f = [k \in K |-> PointsOf(k)]
  OBVIOUS
<1>5. f \in [K -> Int]
  <2>1. \A k \in K : PointsOf(k) \in Int
    BY <1>3, PointsOfType
  <2> QED BY <1>4, <2>1
<1>6. PICK h \in [SUBSET K -> Int] : IsSum(h, f, K)
  BY <1>3, <1>5, SumExists
<1>7. SumIs(s, K, f, h)
  BY <1>1, <1>3, <1>4, <1>6 DEF SumIs
<1>8. SumIs(s, K, f, h)'
  BY <1>2, <1>3, <1>4, <1>6 DEF SumIs
<1>9. score[s] = h[K]
  <2>1. MapThenSumSet(PointsOf, TakenBy(s)) = h[TakenBy(s)]
    BY <1>7, SumOfPoints DEF SumsRight
  <2> QED BY <1>1, <2>1 DEF Awarded
<1>10. MapThenSumSet(PointsOf, TakenBy(s))' = h[TakenBy(s)']
  <2>1. SumsRight'
    BY SumOfPoints, PTL
  <2> QED BY <1>8, <2>1 DEF SumsRight
<1>11. score'[s] = h[TakenBy(s)']
  BY <1>2, <1>9
<1> QED BY <1>10, <1>11

(* A finished trick adds its points to the sum of its taker, and to score.  *)
LEMMA FinishTrickAwards ==
  ASSUME TableInv, Awarded, NEW card \in Card, FinishTrick(card)
  PROVE  Awarded'
<1> DEFINE t == WithCard(card)
<1>n. PICK n : n = Len(tricks) + 1
  OBVIOUS
<1>1. TrickOngoing /\ CompletesTrick(card) /\ ~CompletesDeal(card)
  BY DEF FinishTrick, Play, CanPlay
<1>2. t \in Trick /\ t.number = n /\ judge \in DealTypes
  BY <1>n, <1>1, WithCardType DEF TableInv, TurnFollowsLeader, TableTypeOK
<1>3. t.cards \in Seq(Card) /\ t.turn \in Seats /\ n \in Nat \ {0} /\ Taker(t) \in Seats
  <2>1. t.cards \in Seq(Card) /\ t.turn \in Seats
    BY <1>2 DEF Trick
  <2>2. n \in Nat \ {0}
    BY <1>n DEF TableInv, TableTypeOK
  <2> HIDE DEF t
  <2> QED BY <2>1, <2>2, TakerType
<1>4. tricks' = Append(tricks, RecordOf(t)) /\ score' = AddPoints(score, t) /\ judge' = judge
  BY DEF FinishTrick, Play
<1>5. /\ DOMAIN tricks = 1 .. n - 1 /\ DOMAIN tricks' = 1 .. n
      /\ \A k \in 1 .. n - 1 : tricks'[k] = tricks[k]
      /\ tricks'[n] = RecordOf(t)
  <2>1. tricks \in Seq(TrickRecord)
    BY DEF TableInv, TableTypeOK
  <2>2. PICK r : r = RecordOf(t) /\ tricks' = Append(tricks, r)
    BY <1>4
  <2> QED BY <1>n, <2>1, <2>2
<1>6. /\ \A k \in 1 .. n - 1 : PointsOf(k)' = PointsOf(k)
      /\ PointsOf(n)' = Points(judge, t)
  <2>1. \A k \in 1 .. n - 1 : PointsOf(k)' = PointsOf(k)
    BY <1>4, <1>5 DEF PointsOf
  <2>2. /\ RecordOf(t).cards = t.cards
    BY DEF RecordOf
  <2> DEFINE u == [cards |-> tricks'[n].cards, number |-> n, turn |-> tricks'[n].taker]
  <2>3. u.cards = t.cards /\ u.number = t.number
    <3> HIDE DEF t
    <3> QED BY <1>2, <1>5, <2>2
  <2>4. PointsOf(n)' = Points(judge, u)
    BY <1>4 DEF PointsOf
  <2>5. Points(judge, u) = Points(judge, t)
    <3> HIDE DEF t, u
    <3> QED BY <1>2, <2>3, SamePoints
  <2> QED BY <2>1, <2>4, <2>5
<1> DEFINE R == 1 .. n
<1>f. PICK f : f = [k \in R |-> PointsOf(k)']
  OBVIOUS
<1>7. IsFiniteSet(R) /\ n \in R
  BY <1>3, FS_Interval
<1>8. f \in [R -> Int]
  <2>1. \A k \in 1 .. n - 1 : PointsOf(k) \in Nat
    BY <1>5, PointsOfType
  <2>2. Points(judge, t) \in Nat
    <3> HIDE DEF t
    <3> QED BY <1>2, <1>3, PointsType
  <2>3. ASSUME NEW k \in R PROVE PointsOf(k)' \in Int
    <3>1. CASE k = n
      BY <1>6, <2>2, <3>1
    <3>2. CASE k # n
      <4>1. k \in 1 .. n - 1
        BY <1>3, <3>2
      <4> QED BY <1>6, <2>1, <4>1
    <3> QED BY <3>1, <3>2
  <2> QED BY <1>f, <2>3
<1>9. PICK h \in [SUBSET R -> Int] : IsSum(h, f, R)
  <2> HIDE DEF R
  <2> QED BY <1>7, <1>8, SumExists
<1> SUFFICES ASSUME NEW s \in Seats
             PROVE  score'[s] = MapThenSumSet(PointsOf, TakenBy(s))'
  BY DEF Awarded
<1>10. TakenBy(s) \subseteq R \ {n} /\ TakenBy(s) \in SUBSET R
  BY <1>3, <1>5 DEF TakenBy
<1>11. score[s] = h[TakenBy(s)]
  <2>1. \A k \in TakenBy(s) : f[k] = PointsOf(k)
    <3>1. TakenBy(s) \subseteq 1 .. n - 1
      BY <1>5 DEF TakenBy
    <3> QED BY <1>f, <1>6, <1>10, <3>1
  <2>2. SumIs(s, R, f, h)
    <3> HIDE DEF R
    <3> QED BY <1>7, <1>9, <1>10, <2>1 DEF SumIs
  <2>3. MapThenSumSet(PointsOf, TakenBy(s)) = h[TakenBy(s)]
    <3> HIDE DEF R
    <3> QED BY <2>2, SumOfPoints DEF SumsRight
  <2> QED BY <2>3 DEF Awarded
<1>12. TakenBy(s)' = IF Taker(t) = s THEN TakenBy(s) \cup {n} ELSE TakenBy(s)
  <2>1. tricks'[n].taker = Taker(t)
    BY <1>5 DEF RecordOf
  <2> HIDE DEF t
  <2> QED BY <1>3, <1>5, <2>1 DEF TakenBy
<1>13. TakenBy(s)' \in SUBSET R
  BY <1>7, <1>10, <1>12
<1>14. MapThenSumSet(PointsOf, TakenBy(s))' = h[TakenBy(s)']
  <2>1. \A k \in TakenBy(s)' : f[k] = PointsOf(k)'
    BY <1>f, <1>13
  <2>2. SumIs(s, R, f, h)'
    <3> HIDE DEF R
    <3> QED BY <1>7, <1>9, <1>13, <2>1 DEF SumIs
  <2>3. SumsRight'
    BY SumOfPoints, PTL
  <2> QED BY <2>2, <2>3 DEF SumsRight
<1>15. score'[s] = IF Taker(t) = s THEN score[s] + f[n] ELSE score[s]
  <2>1. f[n] = Points(judge, t)
    BY <1>f, <1>6, <1>7
  <2>2. score \in [Seats -> Nat]
    BY DEF TableInv, TableTypeOK
  <2> HIDE DEF t
  <2> QED BY <1>3, <1>4, <2>1, <2>2 DEF AddPoints
<1>16. CASE Taker(t) = s
  <2>1. TakenBy(s)' \ {n} = TakenBy(s) /\ n \in TakenBy(s)'
    BY <1>10, <1>12, <1>16
  <2>2. h[TakenBy(s)'] = f[n] + h[TakenBy(s)' \ {n}]
    <3>1. PICK K \in SUBSET R : K = TakenBy(s)'
      BY <1>13
    <3>2. n \in K
      BY <2>1, <3>1
    <3> HIDE DEF R
    <3>3. Additive(f, h, R)
      BY <1>7, <1>8, <1>9, SumWithout
    <3>4. h[K] = f[n] + h[K \ {n}]
      BY <3>2, <3>3 DEF Additive
    <3> QED BY <3>1, <3>4
  <2>3. f[n] \in Int /\ h[TakenBy(s)] \in Int
    BY <1>7, <1>8, <1>9, <1>10
  <2> HIDE DEF t, R
  <2>4. score'[s] = h[TakenBy(s)']
    <3>1. PICK a \in Int, b \in Int : a = f[n] /\ b = h[TakenBy(s)]
      BY <2>3
    <3>2. score'[s] = b + a /\ h[TakenBy(s)'] = a + b
      BY <1>11, <1>15, <1>16, <2>1, <2>2, <3>1
    <3> QED BY <3>2
  <2> QED BY <1>14, <2>4
<1>17. CASE Taker(t) # s
  <2> HIDE DEF t, R
  <2> QED BY <1>11, <1>12, <1>14, <1>15, <1>17
<1> QED BY <1>16, <1>17

(* Every step of the table keeps score equal to the points of the tricks.   *)
LEMMA NextAwards ==
  ASSUME TableInv, Awarded, [TableNext]_tableVars
  PROVE  Awarded'
<1>1. (tricks = <<>> /\ \A s \in Seats : score[s] = 0)' => Awarded'
  BY NothingTaken, PTL
<1>2. CASE StartGame
  <2>1. tricks = <<>>
    BY <1>2 DEF StartGame, Deal, TableInv, DealInProgress
  <2>2. \A s \in Seats : score[s] = 0
    <3> SUFFICES ASSUME NEW s \in Seats PROVE score[s] = 0
      OBVIOUS
    <3>1. TakenBy(s) = {}
      BY <2>1 DEF TakenBy
    <3>2. SumIs(s, {}, <<>>, [T \in {{}} |-> 0])
      <4>1. IsSum([T \in {{}} |-> 0], <<>>, {})
        BY DEF IsSum, SumStep
      <4> QED BY <3>1, <4>1, FS_EmptySet DEF SumIs
    <3>3. MapThenSumSet(PointsOf, TakenBy(s)) = [T \in {{}} |-> 0][TakenBy(s)]
      BY <3>2, SumOfPoints DEF SumsRight
    <3> QED BY <3>1, <3>3 DEF Awarded
  <2> QED BY <1>1, <1>2, <2>1, <2>2 DEF StartGame
<1>3. CASE PlayLegalCard
  <2>1. PICK card \in Card : IsMoveLegal(trick.turn, card) /\ PlayCard(card)
    BY <1>3 DEF PlayLegalCard
  <2>2. CASE ContinueTrick(card)
    BY <2>2, NoTrickNoAward DEF ContinueTrick, Play
  <2>3. CASE FinishTrick(card)
    BY <2>3, FinishTrickAwards
  <2>4. CASE FinishDeal(card)
    BY <1>1, <2>4 DEF FinishDeal
  <2> QED BY <2>1, <2>2, <2>3, <2>4 DEF PlayCard
<1>4. CASE GameOver \/ UNCHANGED tableVars
  BY <1>4, NoTrickNoAward DEF GameOver, tableVars
<1> QED BY <1>2, <1>3, <1>4 DEF TableNext

(* Through a deal of any length and whoever takes what, a player's points   *)
(* are those of the tricks it took, as AddPoints adds them one by one.      *)
THEOREM ScoresAddUp == TableSpec => []ScoresMatchTricks
<1>1. TableInit => Awarded
  BY NothingTaken DEF TableInit
<1>2. TableInv /\ Awarded /\ [TableNext]_tableVars => Awarded'
  BY NextAwards
<1>3. Awarded => ScoresMatchTricks
  BY DEF Awarded, ScoresMatchTricks, TakenBy
<1> QED BY <1>1, <1>2, <1>3, Invariance, PTL DEF TableSpec
-----------------------------------------------------------------------------
(* What a player counts as its own: the cards of its hand and the one it    *)
(* has in the current trick.                                                *)
InPlay(s) == IF TrickOngoing THEN Head(deals).hands[s] \cap CardsOf(trick.cards) ELSE {}

(* No card of the current trick has been taken before.                      *)
Apart == TakenCards \cap CardsOf(trick.cards) = {}

(* No card on the table: none that has been taken before.                   *)
LEMMA NoCardApart == trick.cards = <<>> => Apart
BY DEF Apart, CardsOf

(* No step of the table plays a card of a finished trick again.             *)
LEMMA ApartKept ==
  ASSUME TableInv, Apart, [TableNext]_tableVars
  PROVE  Apart'
<1>1. CASE StartGame
  <2>1. (trick.cards = <<>>)'
    BY <1>1 DEF StartGame, Deal, FirstTrick
  <2> QED BY <2>1, NoCardApart, PTL
<1>2. CASE PlayLegalCard
  <2>1. PICK card \in Card : IsMoveLegal(trick.turn, card) /\ PlayCard(card)
    BY <1>2 DEF PlayLegalCard
  <2>2. CASE ContinueTrick(card)
    <3>1. trick' = WithCard(card) /\ tricks' = tricks
      BY <2>2 DEF ContinueTrick, Play, TrickAfter
    <3>2. trick.cards \in Seq(Card) /\ trick'.cards = Append(trick.cards, card)
      BY <3>1, WithCardType DEF TableInv, TableTypeOK, Trick
    <3>3. CardsOf(trick'.cards) = CardsOf(trick.cards) \cup {card}
      BY <3>2, CardsOfAppend
    <3>4. card \notin TakenCards
      <4>1. TrickOngoing /\ card \in hands[trick.turn] /\ trick.turn \in Seats
        BY <2>1 DEF IsMoveLegal, TableInv, TableTypeOK, Trick
      <4> QED BY <4>1 DEF TableInv, CardsAccounted, PlayedCards
    <3>5. TakenCards' = TakenCards
      BY <3>1 DEF TakenCards, CardsOf
    <3>6. PICK now : now = CardsOf(trick'.cards) /\ now = CardsOf(trick.cards) \cup {card}
      BY <3>3
    <3>7. CardsOf(trick.cards)' = now
      BY <3>6 DEF CardsOf
    <3> QED BY <3>4, <3>5, <3>6, <3>7 DEF Apart
  <2>3. CASE FinishTrick(card) \/ FinishDeal(card)
    <3>1. (trick.cards = <<>>)'
      BY <2>3 DEF FinishTrick, FinishDeal, Play, TrickAfter, NoTrick, FirstTrick
    <3> QED BY <3>1, NoCardApart, PTL
  <2> QED BY <2>1, <2>2, <2>3 DEF PlayCard
<1>3. CASE UNCHANGED tableVars
  BY <1>3 DEF tableVars, Apart, TakenCards, CardsOf
<1> QED BY <1>1, <1>2, <1>3 DEF TableNext, GameOver

(* The cards the player of s is left with, by what was dealt and taken.     *)
HeldBack(s) == TrickOngoing => hands[s] \cup InPlay(s) = Head(deals).hands[s] \ TakenCards
AllHeldBack == \A s \in Seats : HeldBack(s)

(* What a player holds or has in the trick is what it was dealt less what   *)
(* has been taken.                                                          *)
LEMMA HeldBackAll == TableInv /\ Apart => AllHeldBack
<1> SUFFICES ASSUME TableInv, Apart, NEW s \in Seats, TrickOngoing
             PROVE  hands[s] \cup InPlay(s) = Head(deals).hands[s] \ TakenCards
  BY DEF AllHeldBack, HeldBack
<1> DEFINE dealt == Head(deals).hands[s]
<1>1. hands[s] = dealt \ PlayedCards
  BY DEF TableInv, CardsAccounted
<1>2. InPlay(s) = dealt \cap CardsOf(trick.cards)
  BY DEF InPlay
<1> HIDE DEF dealt
<1> QED BY <1>1, <1>2 DEF PlayedCards, Apart, dealt

(* Between deals no card lies on the table.                                 *)
Cleared == ~TrickOngoing => trick.cards = <<>>

(* A trick begins empty, and only the next trick ends it.                   *)
LEMMA ClearedKept ==
  ASSUME TableInv, Cleared, [TableNext]_tableVars
  PROVE  Cleared'
<1>1. CASE StartGame
  <2>1. (trick.cards = <<>>)'
    BY <1>1 DEF StartGame, Deal, FirstTrick
  <2> QED BY <2>1 DEF Cleared
<1>2. CASE PlayLegalCard
  <2>1. PICK card \in Card : IsMoveLegal(trick.turn, card) /\ PlayCard(card)
    BY <1>2 DEF PlayLegalCard
  <2>2. CASE ContinueTrick(card)
    <3>1. trick'.number = trick.number
      BY <2>2, WithCardType DEF ContinueTrick, Play, TrickAfter, TableInv
    <3> QED BY <2>1, <3>1 DEF Cleared, IsMoveLegal, TrickOngoing
  <2>3. CASE FinishTrick(card) \/ FinishDeal(card)
    <3>1. (trick.cards = <<>>)'
      BY <2>3 DEF FinishTrick, FinishDeal, Play, TrickAfter, NoTrick, FirstTrick
    <3> QED BY <3>1 DEF Cleared
  <2> QED BY <2>1, <2>2, <2>3 DEF PlayCard
<1>3. CASE UNCHANGED tableVars
  BY <1>3 DEF tableVars, Cleared, TrickOngoing
<1> QED BY <1>1, <1>2, <1>3 DEF TableNext, GameOver

(* What a card does to what a player counts as its own: nothing in the      *)
(* middle of a trick, the trick is gone after it, and after a deal there is *)
(* nothing else left.                                                       *)
LEMMA HeldAfterCard ==
  ASSUME TableInv, Apart, NEW card \in Card, IsMoveLegal(trick.turn, card), PlayCard(card),
         NEW s \in Seats
  PROVE  /\ ContinueTrick(card) =>
                (hands[s] \cup InPlay(s))' = hands[s] \cup InPlay(s)
         /\ FinishTrick(card) =>
                (hands[s] \cup InPlay(s))' =
                    (hands[s] \cup InPlay(s)) \ (CardsOf(trick.cards) \cup {card})
         /\ FinishDeal(card) =>
                /\ hands[s] \cup InPlay(s) \subseteq CardsOf(trick.cards) \cup {card}
                /\ (hands[s] \cup InPlay(s))' =
                      IF Tail(deals) = <<>> THEN {} ELSE Head(Tail(deals)).hands[s]
<1> DEFINE done == WithCard(card)
<1>1. TrickOngoing /\ deals # <<>> /\ deals \in Seq(DealConfig)
  BY DEF IsMoveLegal, TableInv, TableTypeOK, DealInProgress
<1>2. TableInv' /\ Apart'
  <2>1. [TableNext]_tableVars
    BY DEF TableNext, PlayLegalCard
  <2> QED BY <2>1, NextInv, ApartKept
<1>3. HeldBack(s)'
  <2>1. AllHeldBack'
    BY <1>2, HeldBackAll, PTL
  <2> QED BY <2>1 DEF AllHeldBack
<1>4. hands[s] \cup InPlay(s) = Head(deals).hands[s] \ TakenCards
  <2>1. HeldBack(s)
    BY HeldBackAll DEF AllHeldBack
  <2> QED BY <1>1, <2>1 DEF HeldBack
<1>5. done.number = trick.number
  BY WithCardType DEF TableInv
<1>6. ASSUME ContinueTrick(card)
      PROVE  (hands[s] \cup InPlay(s))' = hands[s] \cup InPlay(s)
  <2>1. /\ trick' = done /\ tricks' = tricks /\ deals' = deals
    BY <1>6 DEF ContinueTrick, Play, TrickAfter
  <2>2. TrickOngoing' /\ TakenCards' = TakenCards
    BY <1>1, <1>5, <2>1 DEF TrickOngoing, TakenCards, CardsOf
  <2> QED BY <1>3, <1>4, <2>1, <2>2 DEF HeldBack
<1>7. ASSUME FinishTrick(card)
      PROVE  (hands[s] \cup InPlay(s))' =
                 (hands[s] \cup InPlay(s)) \ (CardsOf(trick.cards) \cup {card})
  <2>1. /\ CompletesTrick(card) /\ ~CompletesDeal(card) /\ trick' = TrickAfter(card)
        /\ deals' = deals /\ tricks' = Append(tricks, RecordOf(done))
    BY <1>7 DEF FinishTrick, Play
  <2>2. TrickOngoing'
    <3>1. trick'.number = trick.number + 1
      BY <1>5, <2>1 DEF TrickAfter
    <3>2. trick.number \in 1 .. LastTrick
      BY <1>1, TricksAssumption DEF TableInv, TableTypeOK, Trick, TrickOngoing
    <3> QED BY <3>1, <3>2 DEF TrickOngoing
  <2>3. tricks \in Seq(TrickRecord) /\ trick.cards \in Seq(Card)
    BY DEF TableInv, TableTypeOK, Trick
  <2> DEFINE r == RecordOf(done)
  <2>4. CardsOf(r.cards) = CardsOf(trick.cards) \cup {card}
    <3>1. r.cards = Append(trick.cards, card)
      BY WithCardType DEF RecordOf, TableInv
    <3> QED BY <2>3, <3>1, CardsOfAppend
  <2> HIDE DEF r
  <2>5. TakenCards' = TakenCards \cup CardsOf(r.cards)
    <3>1. /\ DOMAIN tricks' = DOMAIN tricks \cup {Len(tricks) + 1}
          /\ \A k \in DOMAIN tricks : tricks'[k] = tricks[k]
          /\ tricks'[Len(tricks) + 1] = r
      BY <2>1, <2>3 DEF r
    <3>2. TakenCards' = UNION {CardsOf(tricks'[k].cards) : k \in DOMAIN tricks'}
      BY DEF TakenCards, CardsOf
    <3> QED BY <3>1, <3>2 DEF TakenCards
  <2>6. (hands[s] \cup InPlay(s))' = Head(deals).hands[s] \ TakenCards'
    BY <1>3, <2>1, <2>2 DEF HeldBack
  <2> QED BY <1>4, <2>4, <2>5, <2>6
<1>8. ASSUME FinishDeal(card)
      PROVE  /\ hands[s] \cup InPlay(s) \subseteq CardsOf(trick.cards) \cup {card}
             /\ (hands[s] \cup InPlay(s))' =
                   IF Tail(deals) = <<>> THEN {} ELSE Head(Tail(deals)).hands[s]
  <2>1. HandsWithout(card)[s] = {}
    BY <1>1, <1>8, LastCardPlayed DEF FinishDeal
  <2>2. hands[s] \cup InPlay(s) \subseteq CardsOf(trick.cards) \cup {card}
    <3>1. hands[s] \subseteq {card}
      BY <2>1, HandsWithoutType DEF TableInv
    <3>2. InPlay(s) \subseteq CardsOf(trick.cards)
      BY DEF InPlay
    <3> QED BY <3>1, <3>2
  <2>3. CASE Tail(deals) = <<>>
    <3>1. trick' = NoTrick /\ hands' = HandsWithout(card) /\ deals' = <<>>
      BY <1>8, <2>3 DEF FinishDeal
    <3>2. hands'[s] = {} /\ InPlay(s)' = {}
      BY <2>1, <3>1 DEF InPlay, TrickOngoing, NoTrick
    <3> QED BY <2>2, <2>3, <3>2
  <2>4. CASE Tail(deals) # <<>>
    <3> DEFINE d == Head(Tail(deals))
    <3>1. trick' = FirstTrick(d) /\ hands' = HandsDealt(HandsWithout(card), d)
      BY <1>8, <2>4 DEF FinishDeal
    <3>2. hands'[s] = d.hands[s]
      BY <2>1, <3>1 DEF HandsDealt
    <3>3. InPlay(s)' = {}
      <4>1. trick'.cards = <<>>
        BY <3>1 DEF FirstTrick
      <4> QED BY <4>1 DEF InPlay, CardsOf
    <3> QED BY <2>2, <2>4, <3>2, <3>3
  <2> QED BY <2>3, <2>4
<1> QED BY <1>6, <1>7, <1>8
-----------------------------------------------------------------------------
(* The sum of a function over a set, as the runs take it.                   *)
SumOver(f, T) == MapThenSumSet(LAMBDA x : f[x], T)

(* The fold of the community modules is the sum of LoopLemmas, for any      *)
(* function with the same values.                                           *)
LEMMA SumOverIs ==
  ASSUME NEW R, IsFiniteSet(R), NEW T \in SUBSET R, NEW f, NEW h, IsSum(h, f, R),
         NEW g, \A x \in T : g[x] = f[x]
  PROVE  SumOver(g, T) = h[T]
<1> DEFINE step(u) == [A \in SUBSET T |->
                         IF A = {} THEN 0
                         ELSE g[CHOOSE x \in A : TRUE] + u[A \ {CHOOSE x \in A : TRUE}]]
           iter == CHOOSE u : u = step(u)
           r == [A \in SUBSET T |-> h[A]]
<1>1. r = step(r)
  <2> SUFFICES ASSUME NEW A \in SUBSET T
               PROVE  h[A] = IF A = {} THEN 0
                             ELSE g[CHOOSE x \in A : TRUE] + r[A \ {CHOOSE x \in A : TRUE}]
    OBVIOUS
  <2>1. h[A] = SumStep(f, h, A)
    BY DEF IsSum
  <2>2. CASE A # {}
    <3>1. PICK p \in A : p = Pick(A) /\ p = CHOOSE x \in A : TRUE
      BY <2>2 DEF Pick
    <3>2. f[p] = g[p] /\ r[A \ {p}] = h[A \ {p}]
      OBVIOUS
    <3> HIDE DEF r
    <3> QED BY <2>1, <2>2, <3>1, <3>2 DEF SumStep
  <2> QED BY <2>1, <2>2 DEF SumStep
<1>2. iter = step(iter)
  <2> HIDE DEF step, r
  <2> QED BY <1>1
<1>3. IsSum(iter, g, T)
  <2>1. ASSUME NEW A \in SUBSET T PROVE step(iter)[A] = SumStep(g, iter, A)
    <3> HIDE DEF iter
    <3>1. CASE A # {}
      <4>1. PICK p \in A : p = Pick(A) /\ p = CHOOSE x \in A : TRUE
        BY <3>1 DEF Pick
      <4> QED BY <3>1, <4>1 DEF SumStep
    <3> QED BY <3>1 DEF SumStep
  <2>2. DOMAIN step(iter) = SUBSET T /\ step(iter) = [A \in SUBSET T |-> step(iter)[A]]
    OBVIOUS
  <2> HIDE DEF step, iter
  <2> QED BY <1>2, <2>1, <2>2 DEF IsSum
<1>4. iter[T] = h[T]
  <2>1. IsFiniteSet(T) /\ T \subseteq R
    BY FS_Subset
  <2> HIDE DEF iter, step, r
  <2>2. \A A \in SUBSET T : iter[A] = h[A]
    <3>1. \A x \in T : g[x] = f[x]
      OBVIOUS
    <3> QED BY ONLY <1>3, <2>1, <3>1, IsSum(h, f, R), SumsAgree
  <2> QED BY <2>2
<1>5. SumOver(g, T) = iter[T]
  BY DEF SumOver, MapThenSumSet, MapThenFoldSet
<1> QED BY <1>4, <1>5

(* Any element can be taken out of the sum.                                 *)
Splits(f, R) == \A T \in SUBSET R : \A a \in T : SumOver(f, T) = f[a] + SumOver(f, T \ {a})

(* A sum of integers is one, that over nothing is 0, and it splits.         *)
LEMMA SumOverType ==
  ASSUME NEW R, IsFiniteSet(R), NEW f \in [R -> Int]
  PROVE  /\ \A T \in SUBSET R : SumOver(f, T) \in Int
         /\ SumOver(f, {}) = 0
         /\ Splits(f, R)
<1>1. PICK h \in [SUBSET R -> Int] : IsSum(h, f, R)
  BY SumExists
<1>2. \A T \in SUBSET R : SumOver(f, T) = h[T]
  BY <1>1, SumOverIs
<1>3. Additive(f, h, R)
  BY <1>1, SumWithout
<1>4. h[{}] = 0
  BY <1>1 DEF IsSum, SumStep
<1>5. ASSUME NEW T \in SUBSET R, NEW a \in T
      PROVE  SumOver(f, T) = f[a] + SumOver(f, T \ {a})
  BY <1>2, <1>3 DEF Additive
<1> QED BY <1>1, <1>2, <1>4, <1>5 DEF Splits

(* Functions with the same values have the same sum.                        *)
LEMMA SumOverSame ==
  ASSUME NEW R, IsFiniteSet(R), NEW f \in [R -> Int], NEW T \in SUBSET R, NEW g,
         \A x \in T : g[x] = f[x]
  PROVE  SumOver(g, T) = SumOver(f, T)
<1>1. PICK h \in [SUBSET R -> Int] : IsSum(h, f, R)
  BY SumExists
<1>2. SumOver(g, T) = h[T]
  BY <1>1, SumOverIs
<1>3. SumOver(f, T) = h[T]
  BY <1>1, SumOverIs
<1> QED BY <1>2, <1>3

(* More at one place is as much more in the sum.                            *)
LEMMA SumOverMore ==
  ASSUME NEW R, IsFiniteSet(R), NEW f \in [R -> Int], NEW a \in R, NEW p \in Int
  PROVE  SumOver([f EXCEPT ![a] = @ + p], R) = SumOver(f, R) + p
<1> DEFINE g == [f EXCEPT ![a] = @ + p]
<1>1. g \in [R -> Int] /\ g[a] = f[a] + p /\ \A x \in R \ {a} : g[x] = f[x]
  OBVIOUS
<1> HIDE DEF g
<1>2. SumOver(g, R \ {a}) = SumOver(f, R \ {a})
  BY <1>1, SumOverSame
<1>3. SumOver(g, R) = g[a] + SumOver(g, R \ {a}) /\ SumOver(f, R) = f[a] + SumOver(f, R \ {a})
  BY <1>1, SumOverType DEF Splits
<1>4. SumOver(f, R \ {a}) \in Int /\ f[a] \in Int
  BY SumOverType
<1>5. SumOver(g, R) = SumOver(f, R) + p
  BY <1>1, <1>2, <1>3, <1>4
<1> QED BY <1>5 DEF g
-----------------------------------------------------------------------------
(* What tricks are worth by the set of their cards.  Card after card a      *)
(* judge counts positions in a trick, Stake counts cards of the deal.       *)
Hearted       == OfColor(Card, Hearts)
Queens        == {c \in Card : c.value = Queen}
Gentlemen     == {c \in Card : c.value \in {Jack, King}}
KingsOfHearts == {c \in Card : c.color = Hearts /\ c.value = King}

SevenOrLast(n) == {SeventhTrick, LastTrick} \cap 1 .. n
WorthBut(type, D, n) ==
    CASE type = "TricksBad"              -> n
      [] type = "HeartsBad"              -> Cardinality(D \cap Hearted)
      [] type = "QueensBad"              -> 5 * Cardinality(D \cap Queens)
      [] type = "GentlemenBad"           -> 2 * Cardinality(D \cap Gentlemen)
      [] type = "KingOfHeartsBad"        -> 18 * Cardinality(D \cap KingsOfHearts)
      [] type = "SeventhAndLastTrickBad" -> 10 * Cardinality(SevenOrLast(n))
Worth(type, D, n) ==
    IF type = "Robber"
    THEN WorthBut("TricksBad", D, n) + WorthBut("HeartsBad", D, n)
           + WorthBut("QueensBad", D, n) + WorthBut("GentlemenBad", D, n)
           + WorthBut("KingOfHeartsBad", D, n) + WorthBut("SeventhAndLastTrickBad", D, n)
    ELSE WorthBut(type, D, n)

(* As many positions as cards, when no card is there twice.                 *)
LEMMA PositionsAsCards ==
  ASSUME NEW q \in Seq(Card), IsInjective(q), NEW S
  PROVE  LET I == {i \in DOMAIN q : q[i] \in S}
         IN  /\ IsFiniteSet(CardsOf(q) \cap S)
             /\ Cardinality(I) = Cardinality(CardsOf(q) \cap S)
<1> DEFINE I == {i \in DOMAIN q : q[i] \in S}
           B == CardsOf(q) \cap S
           f == [i \in I |-> q[i]]
<1>1. IsFiniteSet(I)
  <2>1. IsFiniteSet(DOMAIN q)
    BY FS_Interval
  <2> QED BY <2>1, FS_Subset
<1>2. f \in Bijection(I, B)
  <2>1. f \in [I -> B]
    BY DEF CardsOf
  <2>2. \A i, j \in I : f[i] = f[j] => i = j
    BY DEF IsInjective
  <2>3. \A c \in B : \E i \in I : f[i] = c
    BY DEF CardsOf
  <2> HIDE DEF I, B, f
  <2> QED BY <2>1, <2>2, <2>3 DEF Bijection, Injection, Surjection, IsInjective
<1>3. ExistsBijection(I, B)
  <2> HIDE DEF f, I, B
  <2> QED BY <1>2 DEF ExistsBijection
<1>4. IsFiniteSet(B) /\ Cardinality(B) = Cardinality(I)
  <2> HIDE DEF I, B
  <2> QED BY <1>1, <1>3, FS_Bijection
<1> QED BY <1>4

(* With a trick, E has as many of S more than D as there are positions in I.*)
AddsTo(D, E, S, I) ==
    /\ Cardinality(D \cap S) \in Nat /\ Cardinality(I) \in Nat
    /\ Cardinality(E \cap S) = Cardinality(D \cap S) + Cardinality(I)

(* What a trick adds to a count.                                            *)
LEMMA CountMore ==
  ASSUME NEW D, IsFiniteSet(D), NEW q \in Seq(Card), IsInjective(q),
         D \cap CardsOf(q) = {}, NEW E, E = D \cup CardsOf(q),
         NEW S, NEW I, I = {i \in DOMAIN q : q[i] \in S}
  PROVE  AddsTo(D, E, S, I)
<1>1. PICK A, B : A = D \cap S /\ B = CardsOf(q) \cap S
  OBVIOUS
<1>2. IsFiniteSet(A) /\ Cardinality(A) \in Nat
  BY <1>1, FS_Subset, FS_CardinalityType
<1>3. IsFiniteSet(B) /\ Cardinality(I) = Cardinality(B) /\ Cardinality(B) \in Nat
  BY <1>1, PositionsAsCards, FS_CardinalityType
<1>4. A \cap B = {} /\ E \cap S = A \cup B
  BY <1>1
<1>5. Cardinality(A \cup B) = Cardinality(A) + Cardinality(B) - Cardinality({})
  BY <1>2, <1>3, <1>4, FS_Union
<1>6. Cardinality(A \cup B) = Cardinality(A) + Cardinality(I)
  BY <1>2, <1>3, <1>5, FS_EmptySet
<1> QED BY <1>1, <1>2, <1>3, <1>4, <1>6 DEF AddsTo

(* The seventh and the last trick, which may be the same.                   *)
LEMMA SevenOrLastMore ==
  ASSUME NEW n \in Nat
  PROVE  /\ Cardinality(SevenOrLast(n)) \in Nat
         /\ Cardinality(SevenOrLast(n + 1)) =
               Cardinality(SevenOrLast(n))
                 + IF n + 1 \in {SeventhTrick, LastTrick} THEN 1 ELSE 0
<1> DEFINE A == SevenOrLast(n)
<1>1. IsFiniteSet(A) /\ Cardinality(A) \in Nat
  <2>1. IsFiniteSet(1 .. n)
    BY FS_Interval
  <2>2. A \subseteq 1 .. n
    BY DEF SevenOrLast
  <2> HIDE DEF A
  <2> QED BY <2>1, <2>2, FS_Subset, FS_CardinalityType
<1>2. /\ n + 1 \notin A
      /\ SevenOrLast(n + 1) = IF n + 1 \in {SeventhTrick, LastTrick} THEN A \cup {n + 1} ELSE A
  <2>1. 1 .. n + 1 = (1 .. n) \cup {n + 1} /\ n + 1 \notin 1 .. n
    OBVIOUS
  <2> QED BY <2>1 DEF SevenOrLast
<1>3. Cardinality(A \cup {n + 1}) = Cardinality(A) + 1
  <2> HIDE DEF A
  <2> QED BY <1>1, <1>2, FS_AddElement
<1> HIDE DEF A
<1>4. Cardinality(SevenOrLast(n + 1)) =
        Cardinality(A) + IF n + 1 \in {SeventhTrick, LastTrick} THEN 1 ELSE 0
  BY <1>1, <1>2, <1>3
<1> QED BY <1>1, <1>4 DEF A

(* E is worth the points of t more than D.                                  *)
PaysFor(type, t, D, E, n) ==
    /\ Worth(type, D, n) \in Nat
    /\ Worth(type, E, n + 1) = Worth(type, D, n) + Points(type, t)

(* A trick adds to what the tricks are worth the points its judge gives.    *)
LEMMA WorthMore ==
  ASSUME NEW type \in DealTypes, NEW D, IsFiniteSet(D), NEW n \in Nat,
         NEW t, t.cards \in Seq(Card), IsInjective(t.cards), t.number = n + 1,
         D \cap CardsOf(t.cards) = {}, NEW E, E = D \cup CardsOf(t.cards)
  PROVE  PaysFor(type, t, D, E, n)
<1> DEFINE More(u, p) == /\ WorthBut(u, D, n) \in Nat /\ p \in Nat
                         /\ WorthBut(u, E, n + 1) = WorthBut(u, D, n) + p
<1>1. PICK q \in Seq(Card) :
         q = t.cards /\ IsInjective(q) /\ D \cap CardsOf(q) = {} /\ E = D \cup CardsOf(q)
  OBVIOUS
<1>2. More("TricksBad", TricksBad(t))
  BY DEF WorthBut, TricksBad
<1>3. More("HeartsBad", HeartsBad(t))
  <2>1. PICK I : I = {i \in DOMAIN q : q[i] \in Hearted}
    OBVIOUS
  <2>2. I = {i \in DOMAIN q : q[i].color = Hearts}
    BY <2>1 DEF Hearted, OfColor
  <2>3. HeartsBad(t) = Cardinality(I)
    BY <1>1, <2>2 DEF HeartsBad, Count
  <2>4. AddsTo(D, E, Hearted, I)
    BY <1>1, <2>1, CountMore
  <2> QED BY <2>3, <2>4, SMTT(30) DEF WorthBut, AddsTo
<1>4. More("QueensBad", QueensBad(t))
  <2>1. PICK I : I = {i \in DOMAIN q : q[i] \in Queens}
    OBVIOUS
  <2>2. I = {i \in DOMAIN q : q[i].value = Queen}
    BY <2>1 DEF Queens
  <2>3. QueensBad(t) = 5 * Cardinality(I)
    BY <1>1, <2>2 DEF QueensBad, Count
  <2>4. AddsTo(D, E, Queens, I)
    BY <1>1, <2>1, CountMore
  <2> QED BY <2>3, <2>4, SMTT(30) DEF WorthBut, AddsTo
<1>5. More("GentlemenBad", GentlemenBad(t))
  <2>1. PICK I : I = {i \in DOMAIN q : q[i] \in Gentlemen}
    OBVIOUS
  <2>2. I = {i \in DOMAIN q : q[i].value \in {Jack, King}}
    BY <2>1 DEF Gentlemen
  <2>3. GentlemenBad(t) = 2 * Cardinality(I)
    BY <1>1, <2>2 DEF GentlemenBad, Count
  <2>4. AddsTo(D, E, Gentlemen, I)
    BY <1>1, <2>1, CountMore
  <2> QED BY <2>3, <2>4, SMTT(30) DEF WorthBut, AddsTo
<1>6. More("KingOfHeartsBad", KingOfHeartsBad(t))
  <2>1. PICK I : I = {i \in DOMAIN q : q[i] \in KingsOfHearts}
    OBVIOUS
  <2>2. I = {i \in DOMAIN q : q[i].color = Hearts /\ q[i].value = King}
    BY <2>1 DEF KingsOfHearts
  <2>3. KingOfHeartsBad(t) = 18 * Cardinality(I)
    BY <1>1, <2>2 DEF KingOfHeartsBad, Count
  <2>4. AddsTo(D, E, KingsOfHearts, I)
    BY <1>1, <2>1, CountMore
  <2> QED BY <2>3, <2>4, SMTT(30) DEF WorthBut, AddsTo
<1>7. More("SeventhAndLastTrickBad", SeventhAndLastTrickBad(t))
  <2>1. PICK b \in Nat : b = IF n + 1 \in {SeventhTrick, LastTrick} THEN 1 ELSE 0
    OBVIOUS
  <2>2. SeventhAndLastTrickBad(t) = 10 * b
    BY <2>1 DEF SeventhAndLastTrickBad
  <2>3. /\ Cardinality(SevenOrLast(n)) \in Nat
        /\ Cardinality(SevenOrLast(n + 1)) = Cardinality(SevenOrLast(n)) + b
    BY <2>1, SevenOrLastMore
  <2> QED BY <2>1, <2>2, <2>3 DEF WorthBut
<1>8. CASE type = "Robber"
  <2>1. PICK a \in Nat, b \in Nat, c \in Nat, d \in Nat, e \in Nat, f \in Nat :
           /\ a = WorthBut("TricksBad", D, n) /\ b = WorthBut("HeartsBad", D, n)
           /\ c = WorthBut("QueensBad", D, n) /\ d = WorthBut("GentlemenBad", D, n)
           /\ e = WorthBut("KingOfHeartsBad", D, n)
           /\ f = WorthBut("SeventhAndLastTrickBad", D, n)
    BY <1>2, <1>3, <1>4, <1>5, <1>6, <1>7
  <2>2. PICK u \in Nat, v \in Nat, w \in Nat, x \in Nat, y \in Nat, z \in Nat :
           /\ u = TricksBad(t) /\ v = HeartsBad(t) /\ w = QueensBad(t) /\ x = GentlemenBad(t)
           /\ y = KingOfHeartsBad(t) /\ z = SeventhAndLastTrickBad(t)
    BY <1>2, <1>3, <1>4, <1>5, <1>6, <1>7
  <2>3. Points(type, t) = u + v + w + x + y + z
    BY <1>8, <2>2 DEF Points, Robber
  <2>4. Worth(type, D, n) = a + b + c + d + e + f
    BY <1>8, <2>1 DEF Worth
  <2>5. Worth(type, E, n + 1) = (a + u) + (b + v) + (c + w) + (d + x) + (e + y) + (f + z)
    BY <1>2, <1>3, <1>4, <1>5, <1>6, <1>7, <1>8, <2>1, <2>2 DEF Worth
  <2> QED BY <2>3, <2>4, <2>5 DEF PaysFor
<1>9. CASE type # "Robber"
  <2> HIDE DEF More
  <2>1. More(type, Points(type, t))
    BY <1>2, <1>3, <1>4, <1>5, <1>6, <1>7, <1>9 DEF Points, DealTypes
  <2> QED BY <1>9, <2>1 DEF Worth, More, PaysFor
<1> QED BY <1>8, <1>9

(* No tricks are worth nothing.                                             *)
LEMMA WorthNone ==
  ASSUME NEW type \in DealTypes
  PROVE  Worth(type, {}, 0) = 0
<1>1. \A S : {} \cap S = {}
  OBVIOUS
<1>2. Cardinality({}) = 0
  BY FS_EmptySet
<1>3. SevenOrLast(0) = {}
  BY DEF SevenOrLast
<1>4. /\ WorthBut("TricksBad", {}, 0) = 0 /\ WorthBut("HeartsBad", {}, 0) = 0
      /\ WorthBut("QueensBad", {}, 0) = 0 /\ WorthBut("GentlemenBad", {}, 0) = 0
      /\ WorthBut("KingOfHeartsBad", {}, 0) = 0
      /\ WorthBut("SeventhAndLastTrickBad", {}, 0) = 0
  BY <1>1, <1>2, <1>3 DEF WorthBut
<1> QED BY <1>4 DEF Worth, DealTypes

(* The judges whose sum is Robber.                                          *)
Judges == {"TricksBad", "HeartsBad", "QueensBad", "GentlemenBad",
           "KingOfHeartsBad", "SeventhAndLastTrickBad"}

(* They are six.                                                            *)
LEMMA JudgesFinite == IsFiniteSet(Judges)
<1>1. \A T, x : IsFiniteSet(T) => IsFiniteSet(T \cup {x})
  BY FS_AddElement
<1> DEFINE A == ({} \cup {"TricksBad"}) \cup {"HeartsBad"}
           B == (A \cup {"QueensBad"}) \cup {"GentlemenBad"}
           C == (B \cup {"KingOfHeartsBad"}) \cup {"SeventhAndLastTrickBad"}
<1>2. IsFiniteSet(A)
  BY <1>1, FS_EmptySet
<1>3. IsFiniteSet(B)
  BY <1>1, <1>2
<1>4. IsFiniteSet(C)
  <2> HIDE DEF B
  <2> QED BY <1>1, <1>3
<1>5. Judges = C
  BY DEF Judges
<1> HIDE DEF C
<1> QED BY <1>4, <1>5

(* Their sum, written out.                                                  *)
LEMMA SumOfJudges ==
  ASSUME NEW f \in [Judges -> Int]
  PROVE  SumOver(f, Judges) =
            f["TricksBad"] + f["HeartsBad"] + f["QueensBad"] + f["GentlemenBad"]
              + f["KingOfHeartsBad"] + f["SeventhAndLastTrickBad"]
<1> DEFINE J1 == Judges \ {"TricksBad"}
           J2 == J1 \ {"HeartsBad"}
           J3 == J2 \ {"QueensBad"}
           J4 == J3 \ {"GentlemenBad"}
           J5 == J4 \ {"KingOfHeartsBad"}
<1>1. IsFiniteSet(Judges)
  BY JudgesFinite
<1>2. \A T \in SUBSET Judges : \A a \in T : SumOver(f, T) = f[a] + SumOver(f, T \ {a})
  <2>1. Splits(f, Judges)
    BY <1>1, SumOverType
  <2> QED BY <2>1 DEF Splits
<1>3. /\ J1 \in SUBSET Judges /\ J2 \in SUBSET Judges /\ J3 \in SUBSET Judges
      /\ J4 \in SUBSET Judges /\ J5 \in SUBSET Judges
      /\ "TricksBad" \in Judges /\ "HeartsBad" \in J1 /\ "QueensBad" \in J2
      /\ "GentlemenBad" \in J3 /\ "KingOfHeartsBad" \in J4
      /\ "SeventhAndLastTrickBad" \in J5 /\ J5 \ {"SeventhAndLastTrickBad"} = {}
  BY DEF Judges
<1>4. SumOver(f, Judges) = f["TricksBad"] + SumOver(f, J1)
  BY <1>2, <1>3
<1>5. SumOver(f, J1) = f["HeartsBad"] + SumOver(f, J2)
  BY <1>2, <1>3
<1>6. SumOver(f, J2) = f["QueensBad"] + SumOver(f, J3)
  BY <1>2, <1>3
<1>7. SumOver(f, J3) = f["GentlemenBad"] + SumOver(f, J4)
  BY <1>2, <1>3
<1>8. SumOver(f, J4) = f["KingOfHeartsBad"] + SumOver(f, J5)
  BY <1>2, <1>3
<1>9. SumOver(f, J5) = f["SeventhAndLastTrickBad"] + SumOver(f, {})
  BY <1>2, <1>3
<1>10. SumOver(f, {}) = 0
  BY <1>1, SumOverType
<1>11. \A j \in Judges : f[j] \in Int
  OBVIOUS
<1> HIDE DEF J1, J2, J3, J4, J5
<1> QED BY <1>4, <1>5, <1>6, <1>7, <1>8, <1>9, <1>10, <1>11 DEF Judges

(* The cards of a deal are finitely many.                                   *)
LEMMA DealIsFinite ==
  ASSUME NEW d, WellFormedDeal(d), NEW D, D = UNION {d.hands[s] : s \in Seats}
  PROVE  IsFiniteSet(D) /\ D \subseteq Card
<1> DEFINE H == {d.hands[s] : s \in Seats}
           f == [s \in Seats |-> d.hands[s]]
<1>1. f \in Surjection(Seats, H)
  BY DEF Surjection
<1>2. IsFiniteSet(Seats)
  BY FS_Interval, NSeatsAssumption DEF Seats
<1>3. IsFiniteSet(H)
  <2> HIDE DEF f, H
  <2> QED BY <1>1, <1>2, FS_Surjection
<1>4. \A T \in H : IsFiniteSet(T)
  BY DEF WellFormedDeal
<1>5. IsFiniteSet(UNION H)
  <2> HIDE DEF H
  <2> QED BY <1>3, <1>4, FS_UNION
<1>6. \A s \in Seats : d.hands[s] \subseteq Card
  BY DEF WellFormedDeal, DealConfig
<1> QED BY <1>5, <1>6

(* The stake is what all tricks with all cards are worth.                   *)
LEMMA StakeIsWorth ==
  ASSUME NEW d, WellFormedDeal(d), NEW D, D = UNION {d.hands[s] : s \in Seats}
  PROVE  Stake(d) = Worth(d.type, D, LastTrick)
<1> DEFINE worth == [TricksBad       |-> LastTrick,
                     HeartsBad       |-> Cardinality(OfColor(D, Hearts)),
                     QueensBad       |-> 5 * Cardinality({c \in D : c.value = Queen}),
                     GentlemenBad    |-> 2 * Cardinality({c \in D : c.value \in {Jack, King}}),
                     KingOfHeartsBad |->
                       18 * Cardinality(OfColor({c \in D : c.value = King}, Hearts)),
                     SeventhAndLastTrickBad |-> 10 * Cardinality(SevenOrLast(LastTrick))]
           L == LastTrick
<1>1. IsFiniteSet(D) /\ D \subseteq Card
  BY DealIsFinite
<1>2. /\ worth.TricksBad = WorthBut("TricksBad", D, L)
      /\ worth.SeventhAndLastTrickBad = WorthBut("SeventhAndLastTrickBad", D, L)
  BY DEF WorthBut
<1>3. worth.HeartsBad = WorthBut("HeartsBad", D, L)
  <2>1. OfColor(D, Hearts) = D \cap Hearted
    BY <1>1 DEF OfColor, Hearted
  <2> QED BY <2>1 DEF WorthBut
<1>4. worth.QueensBad = WorthBut("QueensBad", D, L)
  <2>1. {c \in D : c.value = Queen} = D \cap Queens
    BY <1>1 DEF Queens
  <2> QED BY <2>1 DEF WorthBut
<1>5. worth.GentlemenBad = WorthBut("GentlemenBad", D, L)
  <2>1. {c \in D : c.value \in {Jack, King}} = D \cap Gentlemen
    BY <1>1 DEF Gentlemen
  <2> QED BY <2>1 DEF WorthBut
<1>6. worth.KingOfHeartsBad = WorthBut("KingOfHeartsBad", D, L)
  <2>1. OfColor({c \in D : c.value = King}, Hearts) = D \cap KingsOfHearts
    BY <1>1 DEF OfColor, KingsOfHearts
  <2> QED BY <2>1 DEF WorthBut
<1>7. DOMAIN worth = Judges /\ d.type \in DealTypes
  BY DEF Judges, WellFormedDeal, DealConfig
<1>8. Stake(d) = IF d.type = "Robber" THEN SumOver(worth, DOMAIN worth) ELSE worth[d.type]
  BY DEF Stake, SumOver, SevenOrLast
<1>9. \A j \in Judges : worth[j] = WorthBut(j, D, L)
  BY <1>2, <1>3, <1>4, <1>5, <1>6 DEF Judges
<1> HIDE DEF worth
<1>10. CASE d.type = "Robber"
  <2>1. PICK f : f = [j \in Judges |-> WorthBut(j, D, L)]
    OBVIOUS
  <2>2. f \in [Judges -> Int]
    <3>1. /\ WorthBut("TricksBad", D, L) \in Int
          /\ WorthBut("SeventhAndLastTrickBad", D, L) \in Int
      <4>1. L \in Nat /\ Cardinality(SevenOrLast(L)) \in Nat
        BY TricksAssumption, SevenOrLastMore
      <4> QED BY <4>1 DEF WorthBut
    <3>2. /\ WorthBut("HeartsBad", D, L) \in Int /\ WorthBut("QueensBad", D, L) \in Int
          /\ WorthBut("GentlemenBad", D, L) \in Int /\ WorthBut("KingOfHeartsBad", D, L) \in Int
      <4>1. \A S : Cardinality(D \cap S) \in Nat
        BY <1>1, FS_Subset, FS_CardinalityType
      <4>2. PICK a \in Nat, b \in Nat, c \in Nat, e \in Nat :
               /\ a = Cardinality(D \cap Hearted) /\ b = Cardinality(D \cap Queens)
               /\ c = Cardinality(D \cap Gentlemen) /\ e = Cardinality(D \cap KingsOfHearts)
        BY <4>1
      <4>3. /\ WorthBut("HeartsBad", D, L) = a /\ WorthBut("QueensBad", D, L) = 5 * b
            /\ WorthBut("GentlemenBad", D, L) = 2 * c
            /\ WorthBut("KingOfHeartsBad", D, L) = 18 * e
        BY <4>2 DEF WorthBut
      <4> QED BY <4>3
    <3>3. \A j \in Judges : WorthBut(j, D, L) \in Int
      BY <3>1, <3>2 DEF Judges
    <3> QED BY <2>1, <3>3
  <2>3. \A j \in Judges : worth[j] = f[j]
    BY <1>9, <2>1
  <2>4. SumOver(worth, Judges) = SumOver(f, Judges)
    <3>1. Judges \in SUBSET Judges
      OBVIOUS
    <3> QED BY <2>2, <2>3, <3>1, JudgesFinite, SumOverSame
  <2>5. SumOver(f, Judges) = Worth("Robber", D, L)
    <3>1. SumOver(f, Judges) =
            f["TricksBad"] + f["HeartsBad"] + f["QueensBad"] + f["GentlemenBad"]
              + f["KingOfHeartsBad"] + f["SeventhAndLastTrickBad"]
      BY <2>2, SumOfJudges
    <3> QED BY <2>1, <3>1 DEF Worth, Judges
  <2> QED BY <1>7, <1>8, <1>10, <2>4, <2>5
<1>11. CASE d.type # "Robber"
  <2>1. d.type \in Judges
    BY <1>7, <1>11 DEF Judges, DealTypes
  <2> QED BY <1>8, <1>9, <1>11, <2>1 DEF Worth
<1> QED BY <1>10, <1>11

(* The cards of a deal are in play once each: those on the table are        *)
(* different, and were dealt.                                               *)
Dealt  == UNION {Head(deals).hands[s] : s \in Seats}
InUse  == /\ IsInjective(trick.cards)
          /\ TrickOngoing => judge = Head(deals).type /\ PlayedCards \subseteq Dealt

(* The points given are worth the tricks taken.                             *)
PaidUp == SumOf(score) =
            IF TrickOngoing THEN Worth(judge, TakenCards, Len(tricks)) ELSE 0

(* The sum of the runs, by its name here.                                   *)
LEMMA SumOfSeats ==
  ASSUME NEW f \in [Seats -> Nat]
  PROVE  /\ SumOf(f) \in Int
         /\ (\A s \in Seats : f[s] = 0) => SumOf(f) = 0
         /\ \A a \in Seats, p \in Nat : SumOf([f EXCEPT ![a] = @ + p]) = SumOf(f) + p
<1>1. IsFiniteSet(Seats)
  BY FS_Interval, NSeatsAssumption DEF Seats
<1>2. f \in [Seats -> Int]
  OBVIOUS
<1>3. \A g : SumOf(g) = SumOver(g, Seats)
  BY DEF SumOf, SumOver
<1>4. SumOver(f, Seats) \in Int
  BY <1>1, <1>2, SumOverType
<1>5. ASSUME \A s \in Seats : f[s] = 0 PROVE SumOver(f, Seats) = 0
  <2> DEFINE h == [T \in SUBSET Seats |-> 0]
  <2>1. ASSUME NEW T \in SUBSET Seats PROVE h[T] = SumStep(f, h, T)
    <3>1. CASE T # {}
      <4>1. Pick(T) \in T
        BY <3>1 DEF Pick
      <4>2. f[Pick(T)] = 0 /\ h[T \ {Pick(T)}] = 0
        BY <1>5, <4>1
      <4> QED BY <3>1, <4>2 DEF SumStep
    <3> QED BY <3>1 DEF SumStep
  <2>2. h = [T \in SUBSET Seats |-> h[T]]
    OBVIOUS
  <2>3. h[Seats] = 0
    OBVIOUS
  <2> HIDE DEF h
  <2>4. IsSum(h, f, Seats)
    BY <2>1, <2>2 DEF IsSum
  <2>5. SumOver(f, Seats) = h[Seats]
    BY <1>1, <2>4, SumOverIs
  <2> QED BY <2>3, <2>5
<1>6. ASSUME NEW a \in Seats, NEW p \in Nat
      PROVE  SumOver([f EXCEPT ![a] = @ + p], Seats) = SumOver(f, Seats) + p
  <2>1. p \in Int
    OBVIOUS
  <2> QED BY <1>1, <1>2, <2>1, SumOverMore
<1> QED BY <1>3, <1>4, <1>5, <1>6

(* A card that is played was not played before, and was dealt.              *)
LEMMA CardJoins ==
  ASSUME TableInv, Apart, InUse, NEW card \in Card, IsMoveLegal(trick.turn, card),
         NEW q, q = WithCard(card).cards
  PROVE  /\ q \in Seq(Card) /\ IsInjective(q) /\ CardsOf(q) = CardsOf(trick.cards) \cup {card}
         /\ card \in Dealt /\ TakenCards \cap CardsOf(q) = {}
<1>1. trick.cards \in Seq(Card) /\ trick.turn \in Seats /\ q = Append(trick.cards, card)
  BY WithCardType DEF TableInv, TableTypeOK, Trick
<1>2. TrickOngoing /\ card \in Head(deals).hands[trick.turn] /\ card \notin PlayedCards
  BY <1>1 DEF IsMoveLegal, TableInv, CardsAccounted
<1>3. q \in Seq(Card)
  BY <1>1
<1>4. CardsOf(q) = CardsOf(trick.cards) \cup {card}
  BY <1>1, CardsOfAppend
<1>5. IsInjective(q)
  <2>1. card \notin ToSet(trick.cards)
    BY <1>2 DEF PlayedCards, CardsOf, ToSet
  <2> QED BY <1>1, <2>1, AppendDistinct DEF InUse
<1>6. card \in Dealt
  BY <1>1, <1>2 DEF Dealt
<1>7. TakenCards \cap CardsOf(q) = {}
  BY <1>2, <1>4 DEF PlayedCards, Apart
<1> QED BY <1>3, <1>4, <1>5, <1>6, <1>7

(* A finished trick, recorded.                                              *)
LEMMA TakenMore ==
  ASSUME TableInv, NEW card \in Card, FinishTrick(card)
  PROVE  /\ TakenCards' = TakenCards \cup CardsOf(WithCard(card).cards)
         /\ Len(tricks') = Len(tricks) + 1
<1>1. PICK r : r = RecordOf(WithCard(card)) /\ r.cards = WithCard(card).cards
  <2>1. PICK t : t = WithCard(card)
    OBVIOUS
  <2>2. RecordOf(t).cards = t.cards
    BY DEF RecordOf
  <2> QED BY <2>1, <2>2
<1>2. tricks' = Append(tricks, r) /\ tricks \in Seq(TrickRecord)
  BY <1>1 DEF FinishTrick, TableInv, TableTypeOK
<1>3. /\ DOMAIN tricks' = DOMAIN tricks \cup {Len(tricks) + 1}
      /\ \A k \in DOMAIN tricks : tricks'[k] = tricks[k]
      /\ tricks'[Len(tricks) + 1] = r /\ Len(tricks') = Len(tricks) + 1
  BY <1>2
<1>4. TakenCards' = UNION {CardsOf(tricks'[k].cards) : k \in DOMAIN tricks'}
  BY DEF TakenCards, CardsOf
<1>5. TakenCards' = TakenCards \cup CardsOf(r.cards)
  BY <1>3, <1>4 DEF TakenCards
<1> QED BY <1>1, <1>3, <1>5

(* The points of a trick go to one seat, and make the tricks worth more.    *)
LEMMA TrickPays ==
  ASSUME TableInv, Apart, InUse, PaidUp, NEW card \in Card, IsMoveLegal(trick.turn, card),
         NEW D, D = TakenCards \cup CardsOf(WithCard(card).cards)
  PROVE  LET t == WithCard(card)
         IN  /\ Points(judge, t) \in Nat
             /\ SumOf(AddPoints(score, t)) = SumOf(score) + Points(judge, t)
             /\ SumOf(AddPoints(total, t)) = SumOf(total) + Points(judge, t)
             /\ SumOf(score) + Points(judge, t) = Worth(judge, D, Len(tricks) + 1)
             /\ SumOf(total) \in Int /\ SumOf(score) \in Int
<1>1. PICK t \in Trick : t = WithCard(card) /\ t.number = trick.number
  BY WithCardType DEF TableInv
<1>2. /\ TrickOngoing /\ judge \in DealTypes /\ Len(tricks) \in Nat
      /\ t.number = Len(tricks) + 1 /\ t.turn \in Seats
      /\ score \in [Seats -> Nat] /\ total \in [Seats -> Nat]
  BY <1>1 DEF IsMoveLegal, TableInv, TableTypeOK, TurnFollowsLeader, Trick
<1>3. /\ t.cards \in Seq(Card) /\ IsInjective(t.cards) /\ TakenCards \cap CardsOf(t.cards) = {}
      /\ D = TakenCards \cup CardsOf(t.cards)
  BY <1>1, CardJoins
<1>4. Taker(t) \in Seats
  BY <1>2, <1>3, TakerType
<1>5. PICK p \in Nat : p = Points(judge, t)
  BY <1>2, <1>3, PointsType
<1>6. SumOf(AddPoints(score, t)) = SumOf(score) + p /\ SumOf(score) \in Int
  BY <1>2, <1>4, <1>5, SumOfSeats DEF AddPoints
<1>7. SumOf(AddPoints(total, t)) = SumOf(total) + p /\ SumOf(total) \in Int
  BY <1>2, <1>4, <1>5, SumOfSeats DEF AddPoints
<1>8. IsFiniteSet(TakenCards)
  <2>1. WellFormedDeal(Head(deals))
    BY <1>2 DEF TableInv, DealInProgress, TableTypeOK
  <2>2. IsFiniteSet(Dealt)
    BY <2>1, DealIsFinite DEF Dealt
  <2>3. TakenCards \subseteq Dealt
    BY <1>2 DEF InUse, PlayedCards
  <2> QED BY <2>2, <2>3, FS_Subset
<1>9. Worth(judge, D, Len(tricks) + 1) = Worth(judge, TakenCards, Len(tricks)) + p
  <2> DEFINE K == TakenCards
  <2>1. PICK n \in Nat : n = Len(tricks)
    BY <1>2
  <2> HIDE DEF K
  <2>2. Worth(judge, D, n + 1) = Worth(judge, K, n) + Points(judge, t)
    <3>1. /\ IsFiniteSet(K) /\ K \cap CardsOf(t.cards) = {} /\ D = K \cup CardsOf(t.cards)
          /\ t.number = n + 1 /\ judge \in DealTypes
          /\ t.cards \in Seq(Card) /\ IsInjective(t.cards)
      BY <1>2, <1>3, <1>8, <2>1 DEF K
    <3>2. PaysFor(judge, t, K, D, n)
      BY <3>1, WorthMore
    <3> QED BY <3>2 DEF PaysFor
  <2> QED BY <1>5, <2>1, <2>2 DEF K
<1>10. SumOf(score) = Worth(judge, TakenCards, Len(tricks))
  BY <1>2 DEF PaidUp
<1> QED BY <1>1, <1>5, <1>6, <1>7, <1>9, <1>10

(* When a deal begins, or the game ends, nothing is played and nothing paid.*)
LEMMA AllFresh ==
  ASSUME NEW d,
         \/ trick' = NoTrick
         \/ /\ trick' = FirstTrick(d) /\ judge' = d.type
            /\ d = Head(deals') /\ d.type \in DealTypes,
         tricks' = <<>>, SumOf(score') = 0
  PROVE  InUse' /\ PaidUp'
<1>1. trick'.cards = <<>>
  BY DEF NoTrick, FirstTrick
<1>2. PlayedCards' = {} /\ TakenCards' = {} /\ Len(tricks') = 0 /\ IsInjective(trick'.cards)
  BY <1>1 DEF PlayedCards, TakenCards, CardsOf, IsInjective
<1>3. TrickOngoing' => judge' = d.type /\ d = Head(deals') /\ d.type \in DealTypes
  BY DEF NoTrick, TrickOngoing
<1>4. InUse'
  BY <1>2, <1>3 DEF InUse
<1>5. PaidUp'
  <2>1. PICK w : w = Worth(judge', TakenCards', Len(tricks'))
    OBVIOUS
  <2>2. TrickOngoing' => w = 0
    BY <1>2, <1>3, <2>1, WorthNone
  <2>3. PaidUp' <=> SumOf(score') = IF TrickOngoing' THEN w ELSE 0
    BY <2>1 DEF PaidUp
  <2> QED BY <2>2, <2>3
<1> QED BY <1>4, <1>5

(* p more for a, the same for all others.                                   *)
Gains(f, g, a, p) == \A s \in Seats : g[s] = f[s] + (IF s = a THEN p ELSE 0)

(* The points of a trick go to one seat, which loses nothing by them.       *)
LEMMA TrickGains ==
  ASSUME TableInv, NEW card \in Card, IsMoveLegal(trick.turn, card),
         NEW f \in [Seats -> Nat]
  PROVE  LET t == WithCard(card)
         IN  /\ Taker(t) \in Seats /\ Points(judge, t) \in Nat
             /\ Gains(f, AddPoints(f, t), Taker(t), Points(judge, t))
<1>1. PICK t \in Trick : t = WithCard(card)
  BY WithCardType DEF TableInv
<1>2. t.turn \in Seats /\ t.cards \in Seq(Card) /\ judge \in DealTypes
  BY <1>1 DEF IsMoveLegal, TableInv, TableTypeOK, Trick
<1>3. Taker(t) \in Seats
  BY <1>1, <1>2, TakerType
<1>4. PICK p \in Nat : p = Points(judge, t)
  BY <1>2, PointsType
<1>5. PICK a \in Seats : a = Taker(t)
  BY <1>3
<1>6. AddPoints(f, t) = [f EXCEPT ![a] = f[a] + p]
  BY <1>4, <1>5 DEF AddPoints
<1>7. Gains(f, AddPoints(f, t), a, p)
  BY <1>6 DEF Gains
<1> QED BY <1>1, <1>3, <1>4, <1>5, <1>7

GrowAlike == \A s \in Seats : total'[s] - total[s] = score'[s] - score[s]
OneGains  == /\ \A s \in Seats : total'[s] >= total[s]
             /\ \E taker \in Seats : \A s \in Seats \ {taker} : total'[s] = total[s]

(* While a deal is played, score and total grow alike; no total decreases,  *)
(* and one seat's at most changes.                                          *)
LEMMA NextGains ==
  ASSUME TableInv, [TableNext]_tableVars
  PROVE  (deals' = deals => GrowAlike) /\ OneGains
<1>1. /\ score \in [Seats -> Nat] /\ total \in [Seats -> Nat]
  BY DEF TableInv, TableTypeOK
<1>2. CASE UNCHANGED <<score, total>>
  <2>1. PICK taker \in Seats : TRUE
    BY NSeatsAssumption DEF Seats
  <2>2. \A s \in Seats : total[s] \in Nat /\ score[s] \in Nat
    BY <1>1
  <2> QED BY <1>2, <2>1, <2>2 DEF GrowAlike, OneGains
<1>3. ASSUME NEW card \in Card, IsMoveLegal(trick.turn, card),
             total' = AddPoints(total, WithCard(card))
      PROVE  OneGains
  <2>1. PICK a \in Seats, p \in Nat : Gains(total, total', a, p)
    BY <1>1, <1>3, TrickGains
  <2>2. \A s \in Seats : total[s] \in Nat /\ total'[s] = total[s] + (IF s = a THEN p ELSE 0)
    BY <1>1, <2>1 DEF Gains
  <2> QED BY <2>2 DEF OneGains
<1>4. CASE PlayLegalCard
  <2>1. PICK card \in Card : IsMoveLegal(trick.turn, card) /\ PlayCard(card)
    BY <1>4 DEF PlayLegalCard
  <2>2. CASE ContinueTrick(card)
    BY <1>2, <2>2 DEF ContinueTrick
  <2>3. CASE FinishTrick(card)
    <3>1. PICK t : t = WithCard(card)
      OBVIOUS
    <3>2. score' = AddPoints(score, t) /\ total' = AddPoints(total, t)
      BY <2>3, <3>1 DEF FinishTrick
    <3>3. PICK a \in Seats, p \in Nat : Gains(total, total', a, p) /\ Gains(score, score', a, p)
      BY <1>1, <2>1, <3>1, <3>2, TrickGains
    <3>4. \A s \in Seats :
            /\ total[s] \in Nat /\ total'[s] = total[s] + (IF s = a THEN p ELSE 0)
            /\ score[s] \in Nat /\ score'[s] = score[s] + (IF s = a THEN p ELSE 0)
      BY <1>1, <3>3 DEF Gains
    <3>5. GrowAlike
      BY <3>4 DEF GrowAlike
    <3>6. OneGains
      BY <1>3, <2>1, <3>1, <3>2
    <3> QED BY <3>5, <3>6
  <2>4. CASE FinishDeal(card)
    <3>1. total' = AddPoints(total, WithCard(card)) /\ deals' = Tail(deals)
      BY <2>4 DEF FinishDeal
    <3>2. deals' # deals
      <4>1. deals \in Seq(DealConfig) /\ deals # <<>>
        BY <2>1 DEF IsMoveLegal, TableInv, TableTypeOK, DealInProgress
      <4>2. Len(Tail(deals)) # Len(deals)
        BY <4>1
      <4> QED BY <3>1, <4>2
    <3>3. OneGains
      BY <1>3, <2>1, <3>1
    <3> QED BY <3>2, <3>3
  <2> QED BY <2>1, <2>2, <2>3, <2>4 DEF PlayCard
<1>5. CASE StartGame \/ GameOver \/ UNCHANGED tableVars
  BY <1>2, <1>5 DEF StartGame, GameOver, tableVars
<1> QED BY <1>4, <1>5 DEF TableNext

(* Every step of the table keeps both, and at the end of a deal the stake   *)
(* is paid.                                                                 *)
LEMMA NextPaysUp ==
  ASSUME TableInv, Apart, InUse, PaidUp, [TableNext]_tableVars
  PROVE  /\ InUse' /\ PaidUp'
         /\ deals' # deals =>
              SumOf(total') - SumOf(total) + SumOf(score) = Stake(Head(deals))
<1>1. CASE StartGame
  <2>1. /\ trick' = FirstTrick(Head(deals)) /\ judge' = Head(deals).type /\ ~TrickOngoing
        /\ deals # <<>> /\ UNCHANGED <<deals, tricks, score>>
    BY <1>1 DEF StartGame, Deal
  <2>2. tricks = <<>> /\ SumOf(score) = 0 /\ Head(deals).type \in DealTypes
    <3>1. Head(deals) \in DealConfig
      BY <2>1 DEF TableInv, TableTypeOK
    <3> QED BY <2>1, <3>1 DEF TableInv, DealInProgress, PaidUp, DealConfig
  <2>3. InUse' /\ PaidUp'
    <3>1. PICK d : d = Head(deals)
      OBVIOUS
    <3> QED BY <2>1, <2>2, <3>1, AllFresh
  <2> QED BY <2>1, <2>3
<1>2. CASE PlayLegalCard
  <2>1. PICK card \in Card : IsMoveLegal(trick.turn, card) /\ PlayCard(card)
    BY <1>2 DEF PlayLegalCard
  <2>2. TrickOngoing /\ trick.cards \in Seq(Card)
    BY <2>1 DEF IsMoveLegal, TableInv, TableTypeOK, Trick
  <2>3. PICK t : t = WithCard(card) /\ t.number = trick.number
    BY WithCardType DEF TableInv
  <2>4. /\ IsInjective(t.cards) /\ CardsOf(t.cards) = CardsOf(trick.cards) \cup {card}
        /\ card \in Dealt
    BY <2>1, <2>3, CardJoins
  <2>5. PICK D : D = TakenCards \cup CardsOf(t.cards)
    OBVIOUS
  <2>6. D = PlayedCards \cup {card} /\ D \subseteq Dealt
    BY <2>2, <2>4, <2>5 DEF PlayedCards, InUse
  <2>7. CASE ContinueTrick(card)
    <3>1. trick' = t /\ UNCHANGED <<judge, deals, tricks, score>>
      BY <2>3, <2>7 DEF ContinueTrick, Play, TrickAfter
    <3>2. TakenCards' = TakenCards /\ PlayedCards' = D /\ Dealt' = Dealt /\ TrickOngoing'
      BY <2>2, <2>3, <2>5, <3>1
         DEF TakenCards, PlayedCards, CardsOf, Dealt, TrickOngoing
    <3>3. InUse'
      BY <2>2, <2>4, <2>6, <3>1, <3>2 DEF InUse
    <3>4. PaidUp'
      BY <2>2, <3>1, <3>2 DEF PaidUp
    <3> QED BY <3>1, <3>3, <3>4
  <2>8. CASE FinishTrick(card)
    <3>1. /\ trick'.cards = <<>> /\ trick'.number = t.number + 1
          /\ UNCHANGED <<judge, deals>> /\ score' = AddPoints(score, t)
      BY <2>3, <2>8 DEF FinishTrick, Play, TrickAfter
    <3>2. TakenCards' = D /\ Len(tricks') = Len(tricks) + 1
      BY <2>3, <2>5, <2>8, TakenMore
    <3>3. TrickOngoing' /\ PlayedCards' = D /\ Dealt' = Dealt
      <4>1. trick.number \in Nat \ {0}
        BY <2>2 DEF TableInv, TableTypeOK, Trick, TrickOngoing
      <4> QED BY <2>3, <3>1, <3>2, <4>1 DEF TrickOngoing, PlayedCards, CardsOf, Dealt
    <3>4. InUse'
      BY <2>2, <2>6, <3>1, <3>3 DEF InUse, IsInjective
    <3>5. SumOf(score') = Worth(judge, D, Len(tricks) + 1)
      BY <2>1, <2>3, <2>5, <3>1, TrickPays
    <3>6. PaidUp'
      BY <3>1, <3>2, <3>3, <3>5 DEF PaidUp
    <3> QED BY <3>1, <3>4, <3>6
  <2>9. CASE FinishDeal(card)
    <3>1. /\ CompletesDeal(card) /\ CanPlay(card) /\ tricks' = <<>> /\ deals' = Tail(deals)
          /\ score' = [s \in Seats |-> 0] /\ total' = AddPoints(total, t)
      BY <2>3, <2>9 DEF FinishDeal
    <3>2. InUse' /\ PaidUp'
      <4>1. SumOf(score') = 0
        <5>1. score' \in [Seats -> Nat] /\ \A s \in Seats : score'[s] = 0
          BY <3>1
        <5> QED BY <5>1, SumOfSeats
      <4>2. CASE deals' = <<>>
        <5>1. trick' = NoTrick
          BY <2>9, <4>2 DEF FinishDeal
        <5> QED BY <3>1, <4>1, <5>1, AllFresh
      <4>3. CASE deals' # <<>>
        <5>1. PICK d : d = Head(deals')
          OBVIOUS
        <5>2. trick' = FirstTrick(d) /\ judge' = d.type
          BY <2>9, <4>3, <5>1 DEF FinishDeal
        <5>3. d.type \in DealTypes
          <6>1. deals \in Seq(DealConfig) /\ deals # <<>>
            BY <2>2 DEF TableInv, TableTypeOK, DealInProgress
          <6>2. d \in DealConfig
            BY <3>1, <4>3, <5>1, <6>1
          <6> QED BY <6>2 DEF DealConfig
        <5> QED BY <3>1, <4>1, <5>1, <5>2, <5>3, AllFresh
      <4> QED BY <4>2, <4>3
    <3>3. D = Dealt
      <4>1. \A s \in Seats : HandsWithout(card)[s] = {}
        BY <2>2, <3>1, LastCardPlayed
      <4>2. ASSUME NEW s \in Seats PROVE hands[s] \subseteq {card}
        <5>1. PICK A : A = hands[s]
          OBVIOUS
        <5>2. HandsWithout(card)[s] = IF s = trick.turn THEN A \ {card} ELSE A
          BY <5>1, HandsWithoutType DEF TableInv
        <5>3. A \ {card} = {} \/ A = {}
          BY <4>1, <5>2
        <5> QED BY <5>1, <5>3
      <4>3. ASSUME NEW s \in Seats PROVE Head(deals).hands[s] \subseteq D
        <5>1. hands[s] = Head(deals).hands[s] \ PlayedCards
          <6>1. CardsAccounted
            BY DEF TableInv
          <6> QED BY ONLY <6>1, <2>2, s \in Seats DEF CardsAccounted
        <5> QED BY <2>6, <4>2, <5>1
      <4> QED BY <2>6, <4>3 DEF Dealt
    <3>4. Len(tricks) + 1 = LastTrick /\ judge = Head(deals).type
      BY <2>2, <3>1 DEF CompletesDeal, TableInv, TurnFollowsLeader, InUse
    <3>5. Stake(Head(deals)) = Worth(judge, D, Len(tricks) + 1)
      <4>1. WellFormedDeal(Head(deals))
        BY <2>2 DEF TableInv, DealInProgress, TableTypeOK
      <4> QED BY <3>3, <3>4, <4>1, StakeIsWorth DEF Dealt
    <3>6. PICK p \in Nat, a \in Int, b \in Int :
             /\ a = SumOf(total) /\ b = SumOf(score) /\ SumOf(total') = a + p
             /\ b + p = Worth(judge, D, Len(tricks) + 1)
      BY <2>1, <2>3, <2>5, <3>1, TrickPays
    <3>7. SumOf(total') - SumOf(total) + SumOf(score) = Stake(Head(deals))
      BY <3>5, <3>6
    <3> QED BY <3>2, <3>7
  <2> QED BY <2>1, <2>7, <2>8, <2>9 DEF PlayCard
<1>3. CASE GameOver \/ UNCHANGED tableVars
  <2>1. UNCHANGED <<trick, judge, deals, tricks, score>>
    BY <1>3 DEF GameOver, tableVars
  <2>2. InUse'
    BY <2>1 DEF InUse, PlayedCards, TakenCards, CardsOf, Dealt, TrickOngoing
  <2>3. PaidUp'
    <3>1. TakenCards' = TakenCards
      BY <2>1 DEF TakenCards, CardsOf
    <3> QED BY <2>1, <3>1 DEF PaidUp, TrickOngoing
  <2> QED BY <2>1, <2>2, <2>3
<1> QED BY <1>1, <1>2, <1>3 DEF TableNext

(* Whatever is played and whoever takes it, a deal hands out its stake, no  *)
(* more and no less: FinishDeal adds the last trick, no trick is counted    *)
(* twice, and the judges agree with the cards of the deal.  While the deal  *)
(* is played score and total grow alike, and no total ever decreases.       *)
THEOREM StakesPaid == TableSpec => StakeDistributed
<1>1. TableInit => Apart /\ InUse /\ PaidUp
  <2> SUFFICES ASSUME TableInit PROVE Apart /\ InUse /\ PaidUp
    OBVIOUS
  <2>1. trick = NoTrick /\ score = [s \in Seats |-> 0]
    BY DEF TableInit, GameInit
  <2>2. ~TrickOngoing /\ trick.cards = <<>>
    BY <2>1 DEF NoTrick, TrickOngoing
  <2>3. SumOf(score) = 0
    <3>1. score \in [Seats -> Nat] /\ \A s \in Seats : score[s] = 0
      BY <2>1
    <3> QED BY <3>1, SumOfSeats
  <2>4. InUse /\ PaidUp
    BY <2>2, <2>3 DEF InUse, PaidUp, IsInjective
  <2> QED BY <2>2, <2>4, NoCardApart
<1>2. TableInv /\ Apart /\ InUse /\ PaidUp /\ [TableNext]_tableVars
        => Apart' /\ InUse' /\ PaidUp'
  BY NextPaysUp, ApartKept
<1>3. TableInv /\ Apart /\ InUse /\ PaidUp /\ [TableNext]_tableVars
        => [/\ IF deals' # deals
               THEN SumOf(total') - SumOf(total) + SumOf(score) = Stake(Head(deals))
               ELSE \A s \in Seats : total'[s] - total[s] = score'[s] - score[s]
            /\ \A s \in Seats : total'[s] >= total[s]
            /\ \E taker \in Seats : \A s \in Seats \ {taker} : total'[s] = total[s]
           ]_tableVars
  <2> SUFFICES ASSUME TableInv, Apart, InUse, PaidUp, [TableNext]_tableVars
               PROVE  /\ deals' # deals =>
                           SumOf(total') - SumOf(total) + SumOf(score) = Stake(Head(deals))
                      /\ deals' = deals => GrowAlike
                      /\ OneGains
    BY DEF GrowAlike, OneGains
  <2>1. deals' # deals => SumOf(total') - SumOf(total) + SumOf(score) = Stake(Head(deals))
    BY NextPaysUp
  <2>2. (deals' = deals => GrowAlike) /\ OneGains
    BY NextGains
  <2> QED BY <2>1, <2>2
<1> QED BY <1>1, <1>2, <1>3, Invariance, PTL DEF TableSpec, StakeDistributed
=============================================================================
