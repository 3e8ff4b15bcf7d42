------------------------------- MODULE Cards --------------------------------
(***************************************************************************)
(* The vocabulary of server and client: cards, seats, types of deals.      *)
(*                                                                         *)
(* The code is written for four seats and thirteen tricks.  Both are       *)
(* constants here so that small instances can be checked; the rest of the  *)
(* card game (what is a queen, which trick is the seventh) follows them.   *)
(*                                                                         *)
(* Here and in the other modules a definition whose name starts with Bug   *)
(* is a faulty variant of the one after it.  Nothing uses it: put in its   *)
(* place it shows that a property would notice.                            *)
(***************************************************************************)
EXTENDS Integers, Sequences, FiniteSets

CONSTANTS
    NSeats,         \* number of seats, 4 in the code
    LastTrick,      \* number of the last trick of a deal, 13 in the code
    SeventhTrick,   \* the other trick SeventhAndLastTrickBad counts, 7
    Colors,         \* Card::Color
    Hearts,         \* Card::Color::kHeart
    Values          \* Card::Value: k2 = 0, ..., kJ = 9, kQ, kK, kA = 12

ASSUME NSeatsAssumption   == NSeats \in Nat \ {0}
ASSUME TricksAssumption   == LastTrick \in Nat \ {0} /\ SeventhTrick \in Nat
ASSUME CardsAssumption    == Values \subseteq Nat /\ Hearts \in Colors

(* Seat::Value, kN = 0 to kW = 3, and the cards. *)
Seats == 0 .. NSeats - 1
Card  == [color : Colors, value : Values]
Jack  == 9
Queen == 10
King  == 11

DealTypes == {"TricksBad", "HeartsBad", "QueensBad", "GentlemenBad",
              "KingOfHeartsBad", "SeventhAndLastTrickBad", "Robber"}

(* Seat::CycleClockwise, applied k times. *)
SeatAfter(seat, k) == (seat + k) % NSeats
Clockwise(seat)    == SeatAfter(seat, 1)

OfColor(cards, color) == {c \in cards : c.color = color}
=============================================================================
