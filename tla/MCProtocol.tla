----------------------------- MODULE MCProtocol -----------------------------
(***************************************************************************)
(* Instances of Protocol for TLC: two seats, one automatic client, one     *)
(* with a user, and a spare.                                               *)
(***************************************************************************)
EXTENDS Protocol

CONSTANTS auto, user, spare

MCValues == 11 .. 12

(* Each color is split between the seats, the low cards to the first. *)
Dealt == [s \in Seats |-> {[color |-> c, value |-> 11 + s] : c \in Colors}]
DealOf(type, first) == [type |-> type, first |-> first, hands |-> Dealt]
OneDeal  == {<<DealOf("Robber", 0)>>}

MCPlace == (auto :> 0) @@ (user :> 1) @@ (spare :> NoSeat)

(* What the processes send. *)
MCMessages == {MsgIam(s) : s \in Seats}
                 \cup {MsgPlay(c, n, card) : c \in Clients, n \in 1 .. LastTrick, card \in Card}
=============================================================================
