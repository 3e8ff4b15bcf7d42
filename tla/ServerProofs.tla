---------------------------- MODULE ServerProofs ----------------------------
(***************************************************************************)
(* Theorems about Server: whatever the clients send and the network does,  *)
(* the server plays the card game of Table.                                *)
(***************************************************************************)
EXTENDS Server, TableProofs

(* Every step of the server is a step of the table or leaves it alone.  The *)
(* only thing needed of the state is that the hands hold cards.             *)
LEMMA StepIsTableStep ==
  ASSUME TableTypeOK, [Next]_vars
  PROVE  [TableNext]_tableVars
<1>1. CASE NewDealAndTrick
  <2>1. CASE \E s \in Seats : seatFd[s] = NoFd
    BY <1>1, <2>1 DEF NewDealAndTrick, Stop
  <2>2. CASE ~ \E s \in Seats : seatFd[s] = NoFd
    BY <1>1, <2>2 DEF NewDealAndTrick, TableNext
  <2> QED BY <2>1, <2>2
<1>2. CASE Handle
  <2> DEFINE msg == Head(inbox)
  <2>1. CASE FullTable /\ msg.fd \notin Players
    BY <1>2, <2>1 DEF Handle, Stop
  <2>2. CASE KeepForResumedGame(msg) \/ ClosePlayer(msg) \/ AnswerWrong(msg)
    BY <2>2 DEF KeepForResumedGame, ClosePlayer, AnswerWrong
  <2>3. CASE AcceptCard(msg)
    <3> DEFINE card == msg.content.cards[1]
    <3>1. PlayCard(card) /\ IsMoveLegal(trick.turn, card)
      BY <2>3 DEF AcceptCard, MoveAccepted
    <3>2. trick.turn \in Seats /\ card \in hands[trick.turn]
      BY <3>1 DEF IsMoveLegal, TableTypeOK, Trick
    <3>3. card \in Card
      BY <3>2 DEF TableTypeOK
    <3> QED BY <3>1, <3>3 DEF PlayLegalCard, TableNext
  <2> QED BY <1>2, <2>1, <2>2, <2>3 DEF Handle
<1>3. CASE PrePoll \/ PollReady \/ PollTimeout \/ PollFails \/ Apply
  BY <1>3 DEF PrePoll, PollReady, PollTimeout, PollReturns, PollFails, Apply, Stop
<1>4. CASE Dispatch \/ UpdateAgain \/ BeginHandling \/ EndHandling
  BY <1>4 DEF Dispatch, UpdateAgain, BeginHandling, EndHandling, Stop
<1>5. CASE CloseStore \/ FlushAfterClose \/ LostAfterClose \/ Closed
  BY <1>5 DEF CloseStore, FlushAfterClose, LostAfterClose, Closed, Stop
<1>6. CASE (\E fd \in Fds : TimePasses(fd)) \/ TrickTimePasses
  BY <1>6 DEF TimePasses, TrickTimePasses
<1>7. CASE Terminated \/ UNCHANGED vars
  BY <1>7 DEF Terminated, vars
<1> QED
  BY <1>1, <1>2, <1>3, <1>4, <1>5, <1>6, <1>7 DEF Next, ServerStep

(* The server implements the card table.                                    *)
THEOREM Refinement == Spec => TableSpec
<1>1. Init => TableInit
  BY DEF Init
<1>2. Init => TableInv
  BY <1>1, InitInv
<1>3. TableInv /\ [Next]_vars => TableInv' /\ [TableNext]_tableVars
  BY StepIsTableStep, NextInv DEF TableInv
<1> QED
  BY <1>1, <1>2, <1>3, PTL DEF Spec, TableSpec
=============================================================================
