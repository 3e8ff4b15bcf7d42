-------------------------------- MODULE Game --------------------------------
(***************************************************************************)
(* The rules engine: class Game of src/src/Game.cpp.                       *)
(*                                                                         *)
(* A Game holds the hands, the current trick and the judge of the current  *)
(* deal.  Deal starts a deal, Play puts one card on the table.  Play does  *)
(* not ask whether the move follows the led color: its caller does, with   *)
(* IsMoveLegal.                                                            *)
(***************************************************************************)
EXTENDS Cards, FiniteSetsExt

NoJudge == "NoJudge"    \* the empty std::function before the first Deal

(* A DealConfig: the type, who starts, and the four hands as sets of cards. *)
DealConfig == [type : DealTypes, first : Seats, hands : [Seats -> SUBSET Card]]

(* The number of a trick is 1 .. LastTrick; the empty optional currentTrick *)
(* is the trick whose number is 0.                                          *)
Trick   == [cards : Seq(Card), number : 0 .. LastTrick, turn : Seats]
NoTrick == [cards |-> <<>>, number |-> 0, turn |-> 0]

VARIABLES
    trick,      \* Game::currentTrick
    hands,      \* Game::hands, with the four color sets of a seat united
    judge       \* Game::trickJudge, as the deal type that selected it

gameVars == <<trick, hands, judge>>

TrickOngoing == trick.number # 0

(***************************************************************************)
(* The judges: the points of a complete trick t under each type of deal.   *)
(***************************************************************************)
Count(cards, Test(_)) == Cardinality({i \in DOMAIN cards : Test(cards[i])})

TricksBad(t)     == 1
HeartsBad(t)     == Count(t.cards, LAMBDA c : c.color = Hearts)
QueensBad(t)     == 5 * Count(t.cards, LAMBDA c : c.value = Queen)
GentlemenBad(t)  == 2 * Count(t.cards, LAMBDA c : c.value \in {Jack, King})
KingOfHeartsBad(t) ==
    18 * Count(t.cards, LAMBDA c : c.color = Hearts /\ c.value = King)
BugSeventhOnly(t) == IF t.number = SeventhTrick THEN 10 ELSE 0
SeventhAndLastTrickBad(t) ==
    IF t.number \in {SeventhTrick, LastTrick} THEN 10 ELSE 0
Robber(t) == TricksBad(t) + HeartsBad(t) + QueensBad(t) + GentlemenBad(t)
                 + KingOfHeartsBad(t) + SeventhAndLastTrickBad(t)

Points(type, t) ==
    CASE type = "TricksBad"              -> TricksBad(t)
      [] type = "HeartsBad"              -> HeartsBad(t)
      [] type = "QueensBad"              -> QueensBad(t)
      [] type = "GentlemenBad"           -> GentlemenBad(t)
      [] type = "KingOfHeartsBad"        -> KingOfHeartsBad(t)
      [] type = "SeventhAndLastTrickBad" -> SeventhAndLastTrickBad(t)
      [] type = "Robber"                 -> Robber(t)

(***************************************************************************)
(* GetTaker scans the followers in order and remembers the last one whose  *)
(* card has the led color and beats the LED card.  It never compares with  *)
(* the best card so far.  The turn of a complete trick is back at its      *)
(* leader, which is where the scan starts.                                 *)
(***************************************************************************)
Beating(cards) ==
    {i \in 2 .. Len(cards) : /\ cards[i].color = cards[1].color
                             /\ cards[i].value > cards[1].value}

Taker(t) ==
    IF Beating(t.cards) = {} THEN t.turn
                             ELSE SeatAfter(t.turn, Max(Beating(t.cards)) - 1)

(* Two faulty variants: no exception for a void player, and following the   *)
(* card played last.                                                        *)
BugNoVoid(player, card) ==
    /\ TrickOngoing
    /\ card \in hands[player]
    /\ trick.cards # <<>> => card.color = Head(trick.cards).color

BugFollowLast(player, card) ==
    /\ TrickOngoing
    /\ card \in hands[player]
    /\ trick.cards # <<>> =>
          LET led == trick.cards[Len(trick.cards)].color
          IN  card.color = led \/ OfColor(hands[player], led) = {}

(* IsMoveLegal: the player has the card, and leads, or follows the led     *)
(* color, or has nothing of it.                                            *)
IsMoveLegal(player, card) ==
    /\ TrickOngoing
    /\ card \in hands[player]
    /\ trick.cards # <<>> =>
          LET led == Head(trick.cards).color
          IN  card.color = led \/ OfColor(hands[player], led) = {}

(***************************************************************************)
(* Deal.  It puts the cards of the deal into the hands without clearing    *)
(* them: a hand that was not empty would keep its cards.                   *)
(***************************************************************************)
FirstTrick(d)     == [cards |-> <<>>, number |-> 1, turn |-> d.first]
HandsDealt(h, d)  == [s \in Seats |-> h[s] \cup d.hands[s]]

Deal(d) ==
    /\ ~TrickOngoing
    /\ trick' = FirstTrick(d)
    /\ hands' = HandsDealt(hands, d)
    /\ judge' = d.type

(***************************************************************************)
(* Play.  The card leaves the hand of the seat whose turn it is.  The      *)
(* fourth card completes the trick: the taker leads the next trick, or the *)
(* deal is over.                                                           *)
(***************************************************************************)
CanPlay(card)     == TrickOngoing /\ card \in hands[trick.turn]
BugEraseAfterCycle(card) == [hands EXCEPT ![Clockwise(trick.turn)] = @ \ {card}]
HandsWithout(card) == [hands EXCEPT ![trick.turn] = @ \ {card}]
BugNoCycle(card) == [trick EXCEPT !.cards = Append(@, card)]
WithCard(card) ==
    [trick EXCEPT !.cards = Append(@, card), !.turn = Clockwise(@)]

CompletesTrick(card) == Len(WithCard(card).cards) = NSeats
BugOneTrickMore(card) == CompletesTrick(card) /\ trick.number > LastTrick
CompletesDeal(card)  == CompletesTrick(card) /\ trick.number = LastTrick

BugLeaderStays(card) ==
    LET t == WithCard(card) IN
    IF ~CompletesTrick(card) THEN t
    ELSE IF CompletesDeal(card) THEN NoTrick
    ELSE [cards |-> <<>>, number |-> t.number + 1, turn |-> t.turn]

BugNumberStays(card) ==
    LET t == WithCard(card) IN
    IF ~CompletesTrick(card) THEN t
    ELSE IF CompletesDeal(card) THEN NoTrick
    ELSE [cards |-> <<>>, number |-> t.number, turn |-> Taker(t)]

TrickAfter(card) ==
    LET t == WithCard(card) IN
    IF ~CompletesTrick(card) THEN t
    ELSE IF CompletesDeal(card) THEN NoTrick
    ELSE [cards |-> <<>>, number |-> t.number + 1, turn |-> Taker(t)]

Play(card) ==
    /\ CanPlay(card)
    /\ trick' = TrickAfter(card)
    /\ hands' = HandsWithout(card)
    /\ UNCHANGED judge

GameInit ==
    /\ trick = NoTrick
    /\ hands = [s \in Seats |-> {}]
    /\ judge = NoJudge

=============================================================================
