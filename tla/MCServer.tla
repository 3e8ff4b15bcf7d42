------------------------------ MODULE MCServer ------------------------------
(***************************************************************************)
(* Instances of Server for TLC: two seats, deals of one or two tricks.     *)
(* With two seats the game is short, and what the server has to get right  *)
(* (seating, halting, resuming, several messages in one batch) is there.   *)
(***************************************************************************)
EXTENDS Server


MCValues == 11 .. 12
OneValue == {12}

(* Each color is split between the seats, the low cards to the first. *)
Dealt == [s \in Seats |->
            IF LastTrick = 1
            THEN {[color |-> IF s = 0 THEN Hearts ELSE CHOOSE c \in Colors : c # Hearts,
                   value |-> 12]}
            ELSE {[color |-> c, value |-> 11 + s] : c \in Colors}]

DealOf(type, first) == [type |-> type, first |-> first, hands |-> Dealt]
OneDeal  == {<<DealOf("Robber", 0)>>}
TwoDeals == {<<DealOf("TricksBad", 0), DealOf("HeartsBad", 1)>>}

IamMessages   == {[type |-> "IAM", seat |-> s] : s \in Seats}
TrickMessages == {[type |-> "TRICK", number |-> n, cards |-> <<c>>] :
                     n \in 1 .. LastTrick, c \in UNION {Dealt[s] : s \in Seats}}
Junk == {[type |-> "JUNK"]}

WellFormed  == IamMessages \cup TrickMessages
AllMessages == WellFormed \cup Junk
=============================================================================
