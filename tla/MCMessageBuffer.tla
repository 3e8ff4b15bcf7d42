--------------------------- MODULE MCMessageBuffer ---------------------------
(***************************************************************************)
(* Instance of MessageBuffer for TLC.  The messages are those in which     *)
(* numbers, cards and seats can be taken for one another: trick numbers    *)
(* of one and two digits, cards that start with the digits 1 to 3, the S   *)
(* of spades and of south.                                                 *)
(***************************************************************************)
EXTENDS MessageBuffer

MCColors == {"C", "S"}
MCValues == 0 .. 12

C(value, color) == [value |-> value, color |-> color]
TwoC == C(0, "C")       ThreeS == C(1, "S")     TenC == C(8, "C")

Numbers == {1, 2, 3, 10, 11, 12, 13}
Hands   == {<<>>, <<TwoC>>, <<TenC>>, <<ThreeS, TenC>>, <<TenC, TwoC, ThreeS>>}
Tables  == {<<TenC, TwoC, ThreeS, TenC>>, <<ThreeS, TwoC, TenC, ThreeS>>}

Tricks == [type : {"TRICK"}, number : Numbers, cards : Hands]
Takens == [type : {"TAKEN"}, number : {1, 11, 13}, cards : Tables, taker : {0, 2}]
Others == {[type |-> "WRONG", number |-> n] : n \in Numbers}
             \cup {[type |-> "BUSY", seats |-> <<0, 2, 3>>],
                   [type |-> "!", cards |-> <<TenC>>],
                   [type |-> "SCORE", points |-> [s \in Seats |-> 10 * s]],
                   [type |-> "TOTAL", points |-> [s \in Seats |-> 101 - s]]}
Deal == [type |-> "DEAL", deal |-> "Robber", first |-> 2,
         cards |-> [v \in 1 .. LastTrick |-> C(v - 1, IF v < 9 THEN "C" ELSE "S")]]
Iam  == [type |-> "IAM", seat |-> 2]

MCTalks == {<<m, Iam>> : m \in Tricks \cup Takens \cup Others \cup {Deal}}
              \cup {<<Iam, [type |-> "WRONG", number |-> 1], Iam>>}
=============================================================================
