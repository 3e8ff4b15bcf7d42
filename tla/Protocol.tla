------------------------------ MODULE Protocol ------------------------------
(***************************************************************************)
(* The whole program: the server of module Server and the processes of     *)
(* module Client, joined by TCP connections.  Where Server lets any client *)
(* say anything, here poll reports what the processes have really sent,    *)
(* and what the server sends is what they read.                            *)
(*                                                                         *)
(* A process is killed at any time, a spare comes too early, the deadline  *)
(* of the player on turn passes while its answer is on the way, a user is   *)
(* wrong: these are upsets, and bounded.  poll is level triggered: it       *)
(* reports all there is.  Peers read and no system call fails, so what was  *)
(* handed over before poll is written when it returns.  Clients say IAM at  *)
(* once: the deadline of a candidate is left to Server.                     *)
(*                                                                         *)
(* While the server is not in poll it does not look at its clients.  A     *)
(* client's step at such a time stands with those it takes in the next.    *)
(***************************************************************************)
EXTENDS Server, Client

CONSTANTS
    Place,          \* the seat a process is started for, NoSeat for a spare,
                    \* which is started when a seat has been lost
    MaxUpsets       \* bound on the processes killed, the spares started too
                    \* early, the wrong cards typed and the deadlines that pass
                    \* while messages are on the way

ASSUME PlaceAssumption  == Place \in [Clients -> Seats \cup {NoSeat}]
ASSUME PeersAssumption  == Faults = {}
ASSUME SayAssumption ==     \* what processes say is among the messages
    /\ \A s \in Seats : MsgIam(s) \in ClientMessages
    /\ \A c \in Clients, n \in 1 .. LastTrick, card \in Card :
          MsgPlay(c, n, card) \in ClientMessages

VARIABLES
    fdOf,           \* the descriptor of a process's connection at the server,
                    \* NoFd before it is accepted and after it is closed
    incoming,       \* MessageBuffer::incoming at the server, by process
    upsets

network      == <<fdOf, incoming>>
protocolVars == <<vars, clientVars, network, upsets>>

ProtocolInit ==
    /\ Init
    /\ ClientInit /\ seat = Place
    /\ fdOf = [c \in Clients |-> NoFd]
    /\ incoming = [c \in Clients |-> <<>>]
    /\ upsets = 0

-----------------------------------------------------------------------------
(* The processes cs lose their connection: the server closes it.  Data it   *)
(* has not read is dropped, what it has written can still be read.          *)
HeldBy(fds) == {c \in Clients : fdOf[c] \in fds}
Cut(cs) ==
    /\ fdOf' = [c \in Clients |-> IF c \in cs THEN NoFd ELSE fdOf[c]]
    /\ incoming' = [c \in Clients |-> IF c \in cs THEN <<>> ELSE incoming[c]]
    /\ up' = [c \in Clients |-> IF c \in cs THEN <<>> ELSE up[c]]
    /\ link' = [c \in Clients |-> IF c \in cs /\ link[c] = "open"
                                  THEN "closed" ELSE link[c]]

(* A step of the server outside poll: connections that leave the store are  *)
(* closed, and with the process all of them.                                *)
ServerGoesOn ==
    /\ \/ PrePoll \/ Apply \/ Dispatch \/ UpdateAgain \/ NewDealAndTrick
       \/ BeginHandling \/ Handle \/ EndHandling \/ CloseStore \/ Closed
    /\ Cut(IF Stopped' THEN {c \in Clients : link[c] = "open"} \cup HeldBy(Fds)
                       ELSE HeldBy(Fds \ InStore'))
    /\ UNCHANGED <<seat, status, members, down, upsets>>

(* What poll has to report: input, the ends of connections, room to write,  *)
(* connections to accept.                                                   *)
Senders == {c \in HeldBy(receiving) : up[c] # <<>>}
Leavers == {c \in HeldBy(receiving) : up[c] = <<>> /\ HasEnded(c)}
Backlog == {c \in Clients : link[c] = "open" /\ fdOf[c] = NoFd}
Events  == Senders # {} \/ Leavers # {} \/ sending # {} \/ Backlog # {}

(* A read takes all that has arrived, and one message is popped. *)
Unread(c) == incoming[c] \o up[c]
Popped(c) == To(fdOf[c], Head(Unread(c)))

(* What is written to a connection: the contents of its messages, in order. *)
SentTo(fd, msgs) ==
    LET to[n \in 0 .. Len(msgs)] ==
            IF n = 0 THEN <<>>
            ELSE IF msgs[n].fd = fd THEN Append(to[n - 1], msgs[n].content)
            ELSE to[n - 1]
    IN  to[Len(msgs)]
Written(c) == SentTo(fdOf[c], updateData.msgs)

PollReports ==
    /\ Events
    /\ PollReturns
    /\ \E order \in SetToSeqs(Senders),
          new \in IF Backlog = {} THEN {{}} ELSE {{c} : c \in Backlog} :
       LET gone == {fdOf[c] : c \in Leavers}
           cut  == HeldBy(Fds \ (InStore' \ {updateData'.opened}))
       IN  /\ ReportOf([i \in DOMAIN order |-> Popped(order[i])], gone,
                       sending \ gone, new # {})
           /\ fdOf' = [c \in Clients |-> IF c \in new THEN updateData'.opened
                                         ELSE IF c \in cut THEN NoFd ELSE fdOf[c]]
           /\ incoming' = [c \in Clients |->
                              IF c \in cut THEN <<>>
                              ELSE IF c \in Senders THEN Tail(Unread(c))
                              ELSE incoming[c]]
           /\ up' = [c \in Clients |-> IF c \in Senders \cup cut THEN <<>> ELSE up[c]]
           /\ link' = [c \in Clients |-> IF c \in cut /\ link[c] = "open"
                                         THEN "closed" ELSE link[c]]
    /\ down' = [c \in Clients |->
                   IF fdOf[c] \in sending /\ status[c] = "up"
                   THEN down[c] \o Written(c) ELSE down[c]]
    /\ UNCHANGED <<seat, status, members, upsets>>

PollTimesOut ==
    /\ ~Events
    /\ PollTimeout
    /\ UNCHANGED <<clientVars, network, upsets>>

Upset == upsets < MaxUpsets /\ upsets' = upsets + 1

(* The deadline of the player on turn.  It passes whenever all is quiet,    *)
(* and a few times while messages are on the way.                           *)
Reading(c) == status[c] = "up" /\ (down[c] # <<>> \/ link[c] = "closed")
Quiet      == ~Events /\ \A c \in Clients : ~Reading(c)
DeadlinePasses ==
    /\ TrickTimePasses
    /\ \/ Quiet /\ UNCHANGED upsets
       \/ ~Quiet /\ Upset
    /\ UNCHANGED <<clientVars, network>>

-----------------------------------------------------------------------------
(* The processes. *)
Watched == pc = "poll" \/ Stopped

Process(c) ==
    /\ Watched
    /\ ClientStep(c)
    /\ UNCHANGED <<vars, network, upsets>>

(* A spare is started for a seat whose processes have all ended, or too     *)
(* early for one that is taken.  Found busy, it may try again.              *)
SeatLost(s)  == \A c \in Clients : seat[c] = s => HasEnded(c)
CanStart(c)  == \/ status[c] = "off"
                \/ /\ status[c] = "done" /\ Place[c] = NoSeat
                   /\ fdOf[c] = NoFd /\ ~Stopped
Choice(c, s) == \/ s = Place[c] /\ UNCHANGED upsets
                \/ Place[c] = NoSeat /\ SeatLost(s) /\ UNCHANGED upsets
                \/ Place[c] = NoSeat /\ ~SeatLost(s) /\ Upset

Start(c) ==
    /\ Watched
    /\ CanStart(c)
    /\ \E s \in Seats : Choice(c, s) /\ seat' = [seat EXCEPT ![c] = s]
    /\ IF Stopped THEN ConnectFails(c) ELSE Connect(c)
    /\ UNCHANGED <<vars, network>>

Kill(c) ==
    /\ Watched
    /\ status[c] = "up" /\ fdOf[c] # NoFd
    /\ Upset
    /\ Ends(c, "killed") /\ UNCHANGED up
    /\ UNCHANGED <<vars, network>>

(* The user follows the led color of the trick shown, or by mistake not.    *)
UserPlays(c) ==
    /\ Watched /\ IsAsked(c)
    /\ \E card \in Playable(cards[c], prompt[c]) : PlaysCard(c, card)
    /\ UNCHANGED <<vars, network, upsets>>

UserErrs(c) ==
    /\ Watched /\ IsAsked(c)
    /\ Upset
    /\ \E card \in Card \ Playable(cards[c], prompt[c]) : PlaysCard(c, card)
    /\ UNCHANGED <<vars, network>>

UserLate(c) ==
    /\ Watched
    /\ PlayTrickFails(c)
    /\ UNCHANGED <<vars, network, upsets>>

(* Nothing is left to happen: all have ended, or a seat stays empty. *)
Deserted == \E s \in Seats : SeatLost(s) /\ \A c \in Clients : ~CanStart(c)
Over     == (Stopped \/ Deserted) /\ UNCHANGED protocolVars

ProtocolNext ==
    \/ ServerGoesOn \/ PollReports \/ PollTimesOut \/ DeadlinePasses
    \/ \E c \in Clients : \/ Process(c) \/ Start(c) \/ Kill(c)
                          \/ UserPlays(c) \/ UserErrs(c) \/ UserLate(c)
    \/ Over

ProtocolSpec == ProtocolInit /\ [][ProtocolNext]_protocolVars

ProtocolFairness ==
    /\ WF_protocolVars(ServerGoesOn \/ PollReports \/ PollTimesOut)
    /\ WF_protocolVars(Quiet /\ DeadlinePasses)
    /\ SF_protocolVars(\E c \in Clients : Process(c) \/ Start(c))
    /\ SF_protocolVars(\E c \in Clients : UserPlays(c))

FairProtocolSpec == ProtocolSpec /\ ProtocolFairness
-----------------------------------------------------------------------------
(* What the process will have read when all that is handed over to it, in   *)
(* the buffer of its connection or on the way, has arrived.                 *)
HandedOver(c) == IF Between \/ pc = "poll" THEN Written(c) ELSE <<>>
OnTheWay(c)   == down[c] \o HandedOver(c)
Told(c)       == AllHandled(Members(c), OnTheWay(c))

(* The hand that server and client keep for the same player, each by its    *)
(* own rules, and the trick they are at: once a process has read what is on *)
(* its way it holds what the server thinks it holds, and the card it has on *)
(* the table, which it gives up only with TAKEN.  So for every process at a *)
(* seat, be it the third one there in the middle of the deal.               *)
HandsAgree ==
    \A c \in Clients :
        (status[c] = "up" /\ fdOf[c] \in Players /\ pc # "apply") =>
            LET s == playerMap[fdOf[c]] IN
            /\ Told(c).cards =
                  hands[s] \cup (IF TrickOngoing
                                 THEN Head(deals).hands[s] \cap CardsOf(trick.cards)
                                 ELSE {})
            /\ Told(c).next = trick.number

(* An automatic client is never told WRONG in its turn for a card of its    *)
(* own: what it plays for the current trick is a move the server accepts,   *)
(* although it answers a TRICK that may have been repeated, overtaken by a  *)
(* timeout, or recalled to it after it took the seat of another.  A card    *)
(* kept for the resumed game may be that of another process, which has left *)
(* and whose descriptor this one was given; then there may be a WRONG.      *)
AnswersFit ==
    (pc = "handle" /\ inbox # <<>> /\ FullTable /\ TrickOngoing) =>
        \A c \in HeldBy({Head(inbox).fd}) :
            LET m == Head(inbox).content IN
            (/\ status[c] = "up" /\ c \in Automatic /\ m.by = c
             /\ m.number = trick.number /\ playerMap[fdOf[c]] = trick.turn)
            => MoveAccepted(trick.turn, m)

(* When the server has ended the game, the end of the connection is an      *)
(* error ("Premature disconnection") only for a process that has read no    *)
(* DEAL, as it came after the last deal.  Whoever was dealt cards has read  *)
(* both lists of points by then, however the last TAKEN, SCORE and TOTAL,   *)
(* the deals before and the server's hanging up reached it.                 *)
EndsWell ==
    \A c \in Clients : (status[c] = "premature" /\ pc = "done") =>
        nDeals[c] = 0

(* The game comes to its normal end and with it every process, or a seat    *)
(* stays empty for ever because nobody is left to take it, and the server   *)
(* lives on.  A process killed, an answer after the deadline, a wrong card, *)
(* a busy seat neither stop the game nor end the server with an error, and  *)
(* neither does a player lost after the last trick, whom the server still   *)
(* waits for.                                                               *)
EveryoneFinishes ==
    <>[](\/ Deserted /\ ~Stopped
         \/ pc = "done" /\ \A c \in Clients : status[c] # "up")
=============================================================================
