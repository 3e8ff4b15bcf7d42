------------------------------- MODULE Server -------------------------------
(***************************************************************************)
(* The game server: class Server of src/src/Server.cpp, one thread around  *)
(* poll, with its ConnectionStore seen from above (which connections it    *)
(* still receives from, which have unsent data).                           *)
(*                                                                         *)
(* Run is a loop of Update (close overdue candidates, flush and poll the   *)
(* store, take in what it reports) and HandlePlayerMessages (play the      *)
(* cards received).  Update repeats while a seat is empty.  pc names the   *)
(* point the thread has reached:                                           *)
(*                                                                         *)
(*   update -> poll -> apply -> dispatch* -> update    while a seat is free *)
(*                                        -> handle* -> update   otherwise *)
(*                                        -> close -> done  after the game *)
(*                                                                         *)
(* error is an error returned through Run to main, crash an exception that *)
(* nothing catches; both end the process and with it every connection.     *)
(*                                                                         *)
(* The clients and the network are the environment: any client may send    *)
(* any message, leave, or be slow.                                         *)
(***************************************************************************)
EXTENDS Table, Store

CONSTANTS
    MaxBatch,       \* bound on the messages one poll reports
    MaxStored       \* bound on the messages waiting in playerMessages

ASSUME MessagesAssumption ==
    \A m \in ClientMessages :
        \/ m.type = "IAM" /\ m.seat \in Seats
        \/ m.type = "TRICK" /\ m.number \in 1 .. LastTrick /\ m.cards \in Seq(Card)
        \/ m.type = "JUNK"  \* any text Deserialize refuses or another message

VARIABLES
    candidates,     \* Server::candidates, connections that have no seat yet,
                    \* each with its deadline: overdue or not
    candidateMap,   \* Server::candidateMap, from their fds to their indices
    seatFd,         \* Player::fd by seat
    playerMap,      \* Server::playerMap, from fds to seats
    playerMessages, \* Server::playerMessages
    trickOverdue,   \* Server::trickDeadline has passed
    inbox,          \* the local copy msgs of Update and HandlePlayerMessages
    isTrickReceived,\* the local of HandlePlayerMessages
    pc              \* where the thread is

gameState   == tableVars
candidacy   == <<candidates, candidateMap>>
seating     == <<candidacy, seatFd, playerMap>>
vars == <<tableVars, seating, playerMessages, trickOverdue, updateData, inbox,
          isTrickReceived, store, pc>>

Players    == DOMAIN playerMap
Candidates == DOMAIN candidateMap
BugOneShort == Cardinality(Players) >= NSeats - 1
FullTable == Cardinality(Players) = NSeats
Started   == TrickOngoing \/ deals = <<>>

(* The messages the server sends. *)
MsgBusy     == [type |-> "BUSY", seats |-> {s \in Seats : seatFd[s] # NoFd}]
MsgDeal(d, s) == [type |-> "DEAL", deal |-> d.type, first |-> d.first,
                  hand |-> d.hands[s]]
MsgTaken(ts, k) == [type |-> "TAKEN", number |-> k, cards |-> ts[k].cards,
                    taker |-> ts[k].taker]
MsgTrick(t) == [type |-> "TRICK", number |-> t.number, cards |-> t.cards]
MsgWrong(t) == [type |-> "WRONG", number |-> t.number]
MsgPoints(header, points) == [type |-> header, points |-> points]

-----------------------------------------------------------------------------
Init ==
    /\ TableInit
    /\ deals # <<>>                     \* otherwise Run returns at once
    /\ candidates = <<>> /\ candidateMap = <<>>
    /\ seatFd = [s \in Seats |-> NoFd]
    /\ playerMap = <<>>
    /\ playerMessages = <<>> /\ inbox = <<>>
    /\ trickOverdue = FALSE /\ isTrickReceived = FALSE
    /\ updateData = NoUpdate
    /\ receiving = {} /\ sending = {}
    /\ pc = "update"

(* The process ends; the kernel closes its connections. *)
Stop(how) ==
    /\ pc' = how
    /\ candidates' = <<>> /\ candidateMap' = <<>>
    /\ seatFd' = [s \in Seats |-> NoFd] /\ playerMap' = <<>>
    /\ playerMessages' = <<>> /\ inbox' = <<>>
    /\ trickOverdue' = FALSE /\ isTrickReceived' = FALSE
    /\ updateData' = NoUpdate
    /\ receiving' = {} /\ sending' = {}
    /\ UNCHANGED tableVars

(* PopConnection of a candidate: the last one moves into its place, with    *)
(* its deadline.                                                            *)
BugDeadlineStays(list, i) == [list EXCEPT ![i].fd = Last(list).fd]
WithLastAt(list, i)       == [list EXCEPT ![i] = Last(list)]
BugMapKept(list, map, fd) == [f \in DOMAIN map \ {fd} |-> map[f]]
MapWithout(list, map, fd) ==
    [f \in DOMAIN map \ {fd} |-> IF f = Last(list).fd THEN map[fd] ELSE map[f]]
PopCandidate(t, fd) ==
    IF fd \notin DOMAIN t.map THEN t
    ELSE [list |-> Front(WithLastAt(t.list, t.map[fd])),
          map  |-> MapWithout(t.list, t.map, fd)]

(* PopConnection, for every fd of a sequence: a candidate loses its entry,   *)
(* a player its entry and its seat.                                          *)
Known(fd) == fd \in Candidates \/ fd \in Players
CandidatesWithout(gone) ==
    LET after[n \in 0 .. Len(gone)] ==
            IF n = 0 THEN [list |-> candidates, map |-> candidateMap]
                     ELSE PopCandidate(after[n - 1], gone[n])
    IN  after[Len(gone)]
PlayersWithout(gone)    == [fd \in Players \ ToSet(gone) |-> playerMap[fd]]
BugSeatKept(gone) == seatFd
SeatsWithout(gone) ==
    [s \in Seats |-> IF \E fd \in (ToSet(gone) \cap Players) \ Candidates : playerMap[fd] = s
                     THEN NoFd ELSE seatFd[s]]

CandidatesAre(t) == candidates' = t.list /\ candidateMap' = t.map
PopConnections(gone) ==
    /\ CandidatesAre(CandidatesWithout(gone))
    /\ playerMap' = PlayersWithout(gone)
    /\ seatFd' = SeatsWithout(gone)

(* What a handler adds to updateData. *)
Send(data, out)   == [data EXCEPT !.msgs = @ \o out]
BugNotClosed(data, fd) == data
Close(data, fd)   == [data EXCEPT !.closed = Append(@, fd)]

(***************************************************************************)
(* Update, up to poll: close the overdue candidates, hand the outgoing     *)
(* messages and the closed fds to the store.                               *)
(***************************************************************************)
BugNoneOverdue    == <<>>
OverdueCandidates ==
    LET among[n \in 0 .. Len(candidates)] ==
            IF n = 0 THEN <<>>
            ELSE IF candidates[n].overdue THEN Append(among[n - 1], candidates[n].fd)
            ELSE among[n - 1]
    IN  among[Len(candidates)]

PrePoll ==
    /\ pc = "update"
    /\ LET data == [updateData EXCEPT !.closed = @ \o OverdueCandidates]
       IN  IF Refused(data)
           THEN Stop("error")
           ELSE /\ PopConnections(OverdueCandidates)
                /\ HandOver(data)
                /\ pc' = "poll"
                /\ UNCHANGED <<tableVars, playerMessages, trickOverdue, inbox,
                               isTrickReceived>>

(* poll returns, for an event or (with nothing to report) because the       *)
(* nearest deadline has passed.                                             *)
PollReturns ==
    /\ pc = "poll" /\ pc' = "apply"
    /\ UNCHANGED <<tableVars, seating, playerMessages, trickOverdue, inbox,
                   isTrickReceived>>

PollReady ==
    /\ PollReturns
    /\ Report(Min({MaxBatch, MaxStored - Len(playerMessages)}))

PollTimeout ==
    /\ PollReturns
    /\ OverdueCandidates # <<>> \/ (FullTable /\ trickOverdue)
    /\ ReportNothing

(* poll, read, write, accept or getpeername fails in a way not provided for. *)
PollFails ==
    /\ pc = "poll"
    /\ "SocketError" \in Faults
    /\ Stop("error")

(* Time passes while the thread is in poll; its other steps take no time. *)
TimePasses(fd) ==
    /\ pc = "poll"
    /\ fd \in Candidates
    /\ ~candidates[candidateMap[fd]].overdue
    /\ candidates' = [candidates EXCEPT ![candidateMap[fd]].overdue = TRUE]
    /\ UNCHANGED <<tableVars, candidateMap, seatFd, playerMap, playerMessages,
                   trickOverdue, updateData, inbox, isTrickReceived, store, pc>>

TrickTimePasses ==
    /\ pc = "poll"
    /\ TrickOngoing \/ FullTable       \* before that nothing reads the deadline
    /\ ~trickOverdue
    /\ trickOverdue' = TRUE
    /\ UNCHANGED <<tableVars, seating, playerMessages, updateData, inbox,
                   isTrickReceived, store, pc>>

(* Update, after poll: drop the connections the store reports as closed,    *)
(* then take in the new one, then go through the messages.                  *)
PushCandidate(t, new) ==
    IF new = NoFd THEN t
    ELSE [list |-> Append(t.list, [fd |-> new, overdue |-> FALSE]),
          map  |-> [fd \in DOMAIN t.map \cup {new} |->
                       IF fd = new THEN Len(t.list) + 1 ELSE t.map[fd]]]

Apply ==
    /\ pc = "apply"
    /\ LET gone == updateData.closed
           new  == updateData.opened
           left == CandidatesWithout(gone)
       IN  IF (\E fd \in ToSet(gone) : ~Known(fd)) \/ new \in DOMAIN left.map
           THEN Stop("error")
           ELSE /\ CandidatesAre(PushCandidate(left, new))
                /\ playerMap' = PlayersWithout(gone)
                /\ seatFd' = SeatsWithout(gone)
                /\ inbox' = updateData.msgs
                /\ updateData' = NoUpdate
                /\ pc' = "dispatch"
                /\ UNCHANGED <<tableVars, playerMessages, trickOverdue,
                               isTrickReceived, store>>

(***************************************************************************)
(* Update, one message of the batch.  A player's is kept for               *)
(* HandlePlayerMessages.  A candidate's must be IAM: it gets the seat, and *)
(* in an ongoing game the deal and the tricks taken so far, or it is told  *)
(* that the seat is busy and closed.                                       *)
(***************************************************************************)
BugNoTaken(s) == IF TrickOngoing THEN <<MsgDeal(Head(deals), s)>> ELSE <<>>

Recap(s) ==
    IF TrickOngoing
    THEN <<MsgDeal(Head(deals), s)>> \o [k \in DOMAIN tricks |-> MsgTaken(tricks, k)]
    ELSE <<>>

AllTo(fd, out) == [i \in DOMAIN out |-> To(fd, out[i])]

KeepForGame(msg) ==
    /\ msg.fd \in Players
    /\ playerMessages' = Append(playerMessages, msg)
    /\ UNCHANGED <<seating, updateData>>

RefuseSeat(msg) ==
    /\ msg.fd \notin Players
    /\ msg.content.type = "IAM"
    /\ seatFd[msg.content.seat] # NoFd
    /\ updateData' = Close(Send(updateData, <<To(msg.fd, MsgBusy)>>), msg.fd)
    /\ PopConnections(<<msg.fd>>)
    /\ UNCHANGED playerMessages

PromoteToPlayer(msg) ==
    LET fd == msg.fd  seat == msg.content.seat IN
    /\ fd \notin Players
    /\ msg.content.type = "IAM"
    /\ seatFd[seat] = NoFd
    /\ CandidatesAre(CandidatesWithout(<<fd>>))
    /\ seatFd' = [seatFd EXCEPT ![seat] = fd]
    /\ playerMap' = [f \in Players \cup {fd} |-> IF f = fd THEN seat ELSE playerMap[f]]
    /\ updateData' = Send(updateData, AllTo(fd, Recap(seat)))
    /\ UNCHANGED playerMessages

CloseCandidate(msg) ==
    /\ msg.fd \notin Players
    /\ msg.content.type # "IAM"
    /\ updateData' = Close(updateData, msg.fd)
    /\ PopConnections(<<msg.fd>>)
    /\ UNCHANGED playerMessages

Dispatch ==
    /\ pc = "dispatch"
    /\ inbox # <<>>
    /\ LET msg == Head(inbox) IN
       IF ~Known(msg.fd)
       THEN Stop("error")
       ELSE /\ \/ KeepForGame(msg) \/ RefuseSeat(msg)
               \/ PromoteToPlayer(msg) \/ CloseCandidate(msg)
            /\ inbox' = Tail(inbox)
            /\ UNCHANGED <<tableVars, trickOverdue, isTrickReceived, store, pc>>

(***************************************************************************)
(* SafeUpdate repeats Update while a seat is empty.  Then Run starts the   *)
(* game (NewDeal and SendTrick), goes on with it, or leaves the loop when  *)
(* the deals are used up.                                                  *)
(***************************************************************************)
UpdateAgain ==
    /\ pc = "dispatch" /\ inbox = <<>>
    /\ ~FullTable
    /\ pc' = "update"
    /\ UNCHANGED <<tableVars, seating, playerMessages, trickOverdue, updateData,
                   inbox, isTrickReceived, store>>

TakePlayerMessages ==
    /\ inbox' = playerMessages
    /\ playerMessages' = <<>>
    /\ pc' = "handle"

SeatOrder(k) == k - 1       \* the seats in the order of the array players
DealMsgs(d) == [k \in 1 .. NSeats |-> To(seatFd[SeatOrder(k)], MsgDeal(d, SeatOrder(k)))]

NewDealAndTrick ==
    /\ pc = "dispatch" /\ inbox = <<>>
    /\ FullTable /\ ~Started
    /\ IF \E s \in Seats : seatFd[s] = NoFd
       THEN Stop("error")
       ELSE /\ StartGame
            /\ updateData' = Send(updateData,
                    DealMsgs(Head(deals)) \o
                    <<To(seatFd[Head(deals).first], MsgTrick(trick'))>>)
            /\ trickOverdue' = FALSE
            /\ TakePlayerMessages
            /\ UNCHANGED <<seating, isTrickReceived, store>>

BeginHandling ==
    /\ pc = "dispatch" /\ inbox = <<>>
    /\ FullTable /\ TrickOngoing
    /\ IF \E s \in Seats : seatFd[s] = NoFd \/ seatFd[s] \notin Players
       THEN Stop("error")
       ELSE /\ TakePlayerMessages
            /\ UNCHANGED <<tableVars, seating, trickOverdue, updateData,
                           isTrickReceived, store>>

(***************************************************************************)
(* HandlePlayerMessages, one message.  After a player has been closed the  *)
(* rest of the batch is kept for the resumed game, if its sender is still  *)
(* there.  The lookup of the sender's seat (playerMap.at) throws when the  *)
(* sender is gone, outside the try block.                                  *)
(***************************************************************************)
KeepForResumedGame(msg) ==
    /\ ~FullTable
    /\ playerMessages' = IF msg.fd \in Players THEN Append(playerMessages, msg)
                                               ELSE playerMessages
    /\ UNCHANGED <<tableVars, seating, trickOverdue, updateData, isTrickReceived>>

ClosePlayer(msg) ==
    /\ FullTable
    /\ msg.content.type # "TRICK"
    /\ updateData' = Close(updateData, msg.fd)
    /\ PopConnections(<<msg.fd>>)
    /\ UNCHANGED <<tableVars, playerMessages, trickOverdue, isTrickReceived>>

(* When the last deal is over the code still reads the turn and the number  *)
(* of the empty currentTrick; whatever it finds there, IsMoveLegal refuses. *)
BugAnyCard(seat, m) ==
    seat = trick.turn /\ m.number = trick.number /\ Len(m.cards) = 1

MoveAccepted(seat, m) ==
    /\ seat = trick.turn
    /\ m.number = trick.number
    /\ Len(m.cards) = 1
    /\ IsMoveLegal(seat, m.cards[1])

AnswerWrong(msg) ==
    /\ FullTable
    /\ msg.content.type = "TRICK"
    /\ ~MoveAccepted(playerMap[msg.fd], msg.content)
    /\ updateData' = Send(updateData, <<To(msg.fd, MsgWrong(trick))>>)
    /\ trickOverdue' = FALSE
    /\ isTrickReceived' = TRUE
    /\ UNCHANGED <<tableVars, seating, playerMessages>>

(* To every seat: the finished trick, then after the deal its points and    *)
(* the totals (these to the fds read when the handler began), then the next *)
(* deal.                                                                    *)
ToSeats(m) == [k \in 1 .. NSeats |-> To(seatFd[SeatOrder(k)], m)]
BugNoPoints(points, totals) == <<>>
PointsMsgs(points, totals) ==
    [k \in 1 .. 2 * NSeats |->
        To(seatFd[(k - 1) \div 2], IF k % 2 = 1 THEN MsgPoints("SCORE", points)
                                               ELSE MsgPoints("TOTAL", totals))]

NewsOf(card) ==
    IF ~CompletesTrick(card) THEN <<>>
    ELSE LET done  == WithCard(card)
             taken == MsgTaken(Append(tricks, RecordOf(done)), done.number)
         IN  ToSeats(taken) \o
             IF ~CompletesDeal(card) THEN <<>>
             ELSE PointsMsgs(AddPoints(score, done), AddPoints(total, done)) \o
                  (IF Tail(deals) = <<>> THEN <<>> ELSE DealMsgs(Head(Tail(deals))))

AcceptCard(msg) ==
    /\ FullTable
    /\ msg.content.type = "TRICK"
    /\ MoveAccepted(playerMap[msg.fd], msg.content)
    /\ LET card == msg.content.cards[1] IN
       /\ PlayCard(card)
       /\ updateData' = Send(updateData, NewsOf(card))
    /\ isTrickReceived' = TRUE
    /\ UNCHANGED <<seating, playerMessages, trickOverdue>>

Handle ==
    /\ pc = "handle"
    /\ inbox # <<>>
    /\ LET msg == Head(inbox) IN
       IF FullTable /\ msg.fd \notin Players
       THEN Stop("crash")
       ELSE /\ \/ KeepForResumedGame(msg) \/ ClosePlayer(msg)
               \/ AnswerWrong(msg) \/ AcceptCard(msg)
            /\ inbox' = Tail(inbox)
            /\ UNCHANGED <<store, pc>>

(* The end of HandlePlayerMessages: (re)send TRICK to the player on turn.   *)
BugNotOverdue == FullTable /\ TrickOngoing /\ isTrickReceived
TrickIsDue    == FullTable /\ TrickOngoing /\ (isTrickReceived \/ trickOverdue)

EndHandling ==
    /\ pc = "handle" /\ inbox = <<>>
    /\ pc' = "update"
    /\ IF TrickIsDue
       THEN /\ updateData' = Send(updateData, <<To(seatFd[trick.turn], MsgTrick(trick))>>)
            /\ trickOverdue' = FALSE
       ELSE UNCHANGED <<updateData, trickOverdue>>
    /\ isTrickReceived' = FALSE         \* the local is gone
    /\ UNCHANGED <<tableVars, seating, playerMessages, inbox, store>>

(***************************************************************************)
(* After the game: ConnectionStore::Close, until everything is sent.  Any  *)
(* other change is an error.                                               *)
(***************************************************************************)
CloseStore ==
    /\ pc = "dispatch" /\ inbox = <<>>
    /\ FullTable /\ deals = <<>>
    /\ StopAll
    /\ pc' = "close"
    /\ UNCHANGED <<tableVars, seating, playerMessages, trickOverdue, updateData,
                   inbox, isTrickReceived>>

FlushAfterClose ==
    /\ pc = "close"
    /\ FlushMore
    /\ UNCHANGED <<tableVars, seating, playerMessages, trickOverdue, inbox,
                   isTrickReceived, pc>>

LostAfterClose ==
    /\ pc = "close"
    /\ sending # {}
    /\ {"LingeringLost", "SocketError"} \cap Faults # {}
    /\ Stop("error")

Closed ==
    /\ pc = "close" /\ sending = {}
    /\ Stop("done")

Stopped == pc \in {"done", "error", "crash"}
Terminated == Stopped /\ UNCHANGED vars

-----------------------------------------------------------------------------
ServerStep ==
    \/ PrePoll \/ PollReady \/ PollTimeout \/ PollFails
    \/ Apply \/ Dispatch \/ UpdateAgain \/ NewDealAndTrick \/ BeginHandling
    \/ Handle \/ EndHandling
    \/ CloseStore \/ FlushAfterClose \/ LostAfterClose \/ Closed

Next == \/ ServerStep
        \/ \E fd \in Fds : TimePasses(fd)
        \/ TrickTimePasses
        \/ Terminated

(***************************************************************************)
(* Fairness.  The thread goes on (poll returns once a deadline has passed   *)
(* or a connection is ready).  Time passes for a candidate even if the      *)
(* thread leaves and enters poll all the time, for nothing resets its       *)
(* deadline.  trickDeadline either passes or is reset.  Nothing is assumed  *)
(* of the clients.                                                          *)
(***************************************************************************)
AnswersWrong == Handle /\ AnswerWrong(Head(inbox))
Asks == EndHandling /\ updateData' # updateData
ResetsTrickDeadline == NewDealAndTrick \/ AnswersWrong \/ Asks

Fairness ==
    /\ WF_vars(ServerStep)
    /\ \A fd \in Fds : SF_vars(TimePasses(fd))
    /\ SF_vars(TrickTimePasses \/ ResetsTrickDeadline)

Spec     == Init /\ [][Next]_vars
FairSpec == Spec /\ Fairness

-----------------------------------------------------------------------------
(* The messages a queue may hold, each with the connection it is from or for. *)
ServerMessages ==
    [type : {"BUSY"}, seats : SUBSET Seats]
    \cup [type : {"DEAL"}, deal : DealTypes, first : Seats, hand : SUBSET Card]
    \cup [type : {"TAKEN"}, number : 1 .. LastTrick, cards : Seq(Card), taker : Seats]
    \cup [type : {"TRICK"}, number : 1 .. LastTrick, cards : Seq(Card)]
    \cup [type : {"WRONG"}, number : 0 .. LastTrick]
    \cup [type : {"SCORE", "TOTAL"}, points : [Seats -> Nat]]
Message == [fd : Fds, content : ClientMessages \cup ServerMessages]

Out == updateData.msgs
Between == pc \in {"update", "dispatch", "handle"}   \* updateData is outgoing

ServerTypeOK ==
    /\ TableTypeOK
    /\ candidates \in Seq([fd : Fds, overdue : BOOLEAN])
    /\ Candidates \subseteq Fds /\ candidateMap \in [Candidates -> DOMAIN candidates]
    /\ seatFd \in [Seats -> Fds \cup {NoFd}]
    /\ Players \subseteq Fds /\ playerMap \in [Players -> Seats]
    /\ trickOverdue \in BOOLEAN /\ isTrickReceived \in BOOLEAN
    /\ receiving \subseteq Fds /\ sending \subseteq Fds
    /\ updateData \in [msgs : Seq(Message), closed : Seq(Fds), opened : Fds \cup {NoFd}]
    /\ playerMessages \in Seq(Message) /\ inbox \in Seq(Message)
    /\ pc \in {"update", "poll", "apply", "dispatch", "handle", "close",
               "done", "error", "crash"}

(* The three views of who sits where agree: Player::fd and playerMap are     *)
(* inverse to each other, and nobody is candidate and player at once.  Two   *)
(* candidates asking for one seat in one batch, a player lost while another  *)
(* takes over, an fd that comes back: none may leave a seat with two         *)
(* connections or a connection without its seat.                             *)
SeatsConsistent ==
    /\ \A fd \in Players : seatFd[playerMap[fd]] = fd
    /\ \A s \in Seats : seatFd[s] # NoFd =>
                            seatFd[s] \in Players /\ playerMap[seatFd[s]] = s
    /\ Candidates \cap Players = {}

(* The server and its ConnectionStore agree on who is connected: when the    *)
(* thread waits, it reads from exactly the candidates and the players, and   *)
(* on the way there the difference is what updateData is about to close or   *)
(* reports as lost or new.                                                   *)
StoreAgrees ==
    LET gone == ToSet(updateData.closed)
        new  == {updateData.opened} \ {NoFd}
        known == Candidates \cup Players
    IN  /\ pc = "poll"  => receiving = known
        /\ pc = "apply" => receiving = (known \ gone) \cup new
        /\ Between      => /\ receiving = known \cup gone
                           /\ known \cap gone = {}
                           /\ IsInjective(updateData.closed)

(* The vector of candidates and the map of their indices stay in step,      *)
(* whichever of several candidates is removed, promoted or closed, first,   *)
(* last or in between.                                                      *)
CandidatesInStep ==
    /\ Len(candidates) = Cardinality(Candidates)
    /\ \A i \in DOMAIN candidates :
          candidates[i].fd \in Candidates /\ candidateMap[candidates[i].fd] = i

(* A candidate that is moved into the place of another keeps its own         *)
(* deadline: it is neither closed for the lateness of the one that left nor  *)
(* given its time.  Only time makes a candidate overdue.                     *)
IsOverdue(fd) == candidates[candidateMap[fd]].overdue
DeadlinesKept ==
    [][\A fd \in Candidates \cap Candidates' :
          pc = "poll" \/ fd = updateData.opened \/ IsOverdue(fd)' = IsOverdue(fd)]_vars

(* Whatever the server is about to send goes to a connection it still reads  *)
(* from, so the store never refuses it (GetClient) and no message goes to an *)
(* empty seat.                                                               *)
OutgoingAddressed ==
    Between => \A i \in DOMAIN Out : Out[i].fd \in receiving

(* The server stops with an error only for what poll reported to it (a lost   *)
(* connection or a message it cannot place); its own bookkeeping (addressing  *)
(* the store, seating, starting a deal, playing a card) never fails.          *)
NoInternalError ==
    [][pc' = "error" => \/ pc \in {"poll", "apply", "close"}
                        \/ pc = "dispatch" /\ inbox # <<>>]_vars

(* What a player is told in one go, at the start of a deal or when it        *)
(* rejoins, rebuilds its hand: the cards of the last DEAL less those of the  *)
(* TAKENs after it are the cards it holds and the one it has on the table.   *)
(* The client relies on it to offer only cards it has (Client.cpp).          *)
RejoinHand ==
    Between =>
        \A i \in DOMAIN Out :
            LET fd == Out[i].fd
                later(t) == {j \in i + 1 .. Len(Out) :
                                Out[j].fd = fd /\ Out[j].content.type = t}
                taken == UNION {CardsOf(Out[j].content.cards) : j \in later("TAKEN")}
            IN  (Out[i].content.type = "DEAL" /\ later("DEAL") = {} /\ fd \in Players)
                => Out[i].content.hand \ taken =
                     hands[playerMap[fd]]
                       \cup (Out[i].content.hand \cap CardsOf(trick.cards))

(* HandlePlayerMessages never throws (Server.cpp:236: "If the game has been  *)
(* halted, then store the message for when the game is resumed").            *)
NoCrash == pc # "crash"

(* ConnectionStore.h:34, of Update: "Don't return the same socket fds as on  *)
(* input."  No fd that the server asked to close comes back as closed.       *)
NotReturnedAsClosed ==
    [][pc = "poll" /\ pc' = "apply" =>
          ToSet(updateData.closed) \cap ToSet(updateData'.closed) = {}]_vars

(* A connection does not stay without a seat: it gets one, leaves, or is     *)
(* closed by its deadline, even if the other clients never stop sending.     *)
Lost(fd) == pc = "apply" /\ fd \in ToSet(updateData.closed)
CandidatesResolved ==
    \A fd \in Fds :
        (fd \in Candidates) ~> (fd \notin Candidates \/ Lost(fd) \/ Stopped)

(* While all are seated, the player on turn is asked for a card again and    *)
(* again, also one that joined in the middle of a trick.                     *)
Asked ==
    /\ pc = "update"
    /\ \E i \in DOMAIN Out : /\ Out[i].content = MsgTrick(trick)
                             /\ Out[i].fd = seatFd[trick.turn]
PlayerOnTurnAsked ==
    (TrickOngoing /\ FullTable /\ pc = "poll")
        ~> (Asked \/ ~FullTable \/ ~TrickOngoing \/ Stopped)
=============================================================================
