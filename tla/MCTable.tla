------------------------------ MODULE MCTable -------------------------------
(***************************************************************************)
(* An instance of Table for TLC: four seats, deals of three tricks, three  *)
(* colors of four values (J Q K A).  Games of two deals that between them  *)
(* have all seven types, first players and dealings of different shape;    *)
(* and single deals in 560 dealings.                                       *)
(***************************************************************************)
EXTENDS Table

MCValues == 9 .. 12

(* Twelve cards: a seat void in one color, a seat with one color only, and  *)
(* hands where every seat can follow at first.                              *)
C(color, value) == [color |-> color, value |-> value]

OneColorEach(c, offset) ==
    [s \in Seats |-> {C(c[1], 9 + SeatAfter(s, offset)),
                      C(c[2], 9 + SeatAfter(s, 2 * offset)),
                      C(c[3], 9 + SeatAfter(3 * s, offset))}]
ThreeSuits(c) ==
    [s \in Seats |-> IF s < 3 THEN {C(c[s + 1], v) : v \in 9 .. 11}
                              ELSE {C(c[1], 12), C(c[2], 12), C(c[3], 12)}]
Shifted(c) ==
    [s \in Seats |-> CASE s = 0 -> {C(c[1], 9), C(c[1], 11), C(c[2], 10)}
                       [] s = 1 -> {C(c[1], 10), C(c[3], 9), C(c[3], 12)}
                       [] s = 2 -> {C(c[2], 9), C(c[2], 12), C(c[3], 11)}
                       [] s = 3 -> {C(c[1], 12), C(c[2], 11), C(c[3], 10)}]

Order == CHOOSE c \in [1 .. 3 -> Colors] :
            {c[i] : i \in 1 .. 3} = Colors /\ c[1] = Hearts

TwoDealGames ==
    LET deck  == <<OneColorEach(Order, 0), ThreeSuits(Order), Shifted(Order)>>
        types == <<"TricksBad", "HeartsBad", "QueensBad", "GentlemenBad",
                   "KingOfHeartsBad", "SeventhAndLastTrickBad", "Robber">>
        deal(i, s) == [type |-> types[i], first |-> s, hands |-> deck[1 + (i % 3)]]
    IN  {<<deal(i, 0), deal(1 + (i % 7), 2)>> : i \in 1 .. 7}

(* One deal, under the judge that adds up all others: every way in which    *)
(* the cards can be dealt when the last seat has a given hand, of three     *)
(* colors and values, and the first seat the jack of hearts.                *)
DealsOnce ==
    LET last  == Shifted(Order)[3]
        rest  == Card \ last
        first == {h \in kSubset(3, rest) : C(Hearts, 9) \in h}
    IN  UNION {{<<[type |-> "Robber", first |-> 0,
                   hands |-> [s \in Seats |-> CASE s = 0 -> a
                                               [] s = 1 -> b
                                               [] s = 2 -> rest \ (a \cup b)
                                               [] s = 3 -> last]]>>
                  : b \in kSubset(3, rest \ a)} : a \in first}

Games == TwoDealGames \cup DealsOnce
=============================================================================
