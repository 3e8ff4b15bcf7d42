------------------------------- MODULE Client -------------------------------
(***************************************************************************)
(* The client program: class Client of src/src/Client.cpp and its main,    *)
(* one thread around poll, for a set of processes.  An automatic client    *)
(* answers a TRICK itself; the others ask the user and play what is typed. *)
(*                                                                         *)
(* A process and its messages meet in two queues, down and up.  Reading a  *)
(* message, handling it and writing the answer is one step: what the       *)
(* process does in between depends on nothing but the order of messages,   *)
(* and an answer that is late stands for a message that was read late.     *)
(* The server's side of the connection is in Protocol.                     *)
(***************************************************************************)
EXTENDS Cards, SequencesExt

CONSTANTS
    Clients,        \* processes; each connects once, unless its seat was busy
    Automatic,      \* those started with -a
    NoSeat          \* the seat of a process that has not been started

ASSUME ClientsAssumption == Automatic \subseteq Clients /\ NoSeat \notin Seats

VARIABLES
    seat,           \* Client::seat
    status,         \* "off", "up", or how the process ended
    link,           \* its socket: "none", "open", or "closed" by the server
    cards,          \* Client::cards, with the four color sets united
    nextTrickNumber,\* Client::nextTrickNumber, 0 when it is empty
    nPointMessagesReceived,
    nDeals,         \* the DEALs it has read on this connection.  No member of
                    \* Client: it lets a property tell who was at the table
    prompt,         \* the TRICK shown to the user, NoPrompt when
                    \* isUserTrickNeeded is false
    down,           \* what the server has sent and the process has not handled
    up              \* what the process has sent and the server has not read

members    == <<cards, nextTrickNumber, nPointMessagesReceived, nDeals, prompt>>
clientVars == <<seat, status, link, members, down, up>>

NoPrompt == [type |-> "NONE"]

(* "done": Run returned no error; the others are errors that main reports.  *)
(* "killed" is the end of a process by other means.                         *)
Endings == {"done", "premature", "notStarted", "refused", "killed"}
HasEnded(c) == status[c] \in Endings

(* The messages of a client.  by is not sent and nothing in the program     *)
(* reads it: it lets a property tell whose card it was.                     *)
MsgIam(s) == [type |-> "IAM", seat |-> s]
MsgPlay(c, n, card) ==
    [type |-> "TRICK", number |-> n, cards |-> <<card>>, by |-> c]

ClientInit ==
    /\ status = [c \in Clients |-> "off"] /\ link = [c \in Clients |-> "none"]
    /\ cards = [c \in Clients |-> {}]
    /\ nextTrickNumber = [c \in Clients |-> 0]
    /\ nPointMessagesReceived = [c \in Clients |-> 0]
    /\ nDeals = [c \in Clients |-> 0]
    /\ prompt = [c \in Clients |-> NoPrompt]
    /\ down = [c \in Clients |-> <<>>] /\ up = [c \in Clients |-> <<>>]

(* Connect succeeds and Run sends IAM; or it is refused. *)
Connect(c) ==
    /\ link' = [link EXCEPT ![c] = "open"]
    /\ status' = [status EXCEPT ![c] = "up"]
    /\ up' = [up EXCEPT ![c] = <<MsgIam(seat'[c])>>]
    /\ nextTrickNumber' = [nextTrickNumber EXCEPT ![c] = 0]
    /\ nPointMessagesReceived' = [nPointMessagesReceived EXCEPT ![c] = 0]
    /\ nDeals' = [nDeals EXCEPT ![c] = 0]
    /\ UNCHANGED <<cards, prompt, down>>

ConnectFails(c) ==
    /\ status' = [status EXCEPT ![c] = "refused"]
    /\ UNCHANGED <<link, members, down, up>>

(* The process ends, and with it what its members hold.  What it has        *)
(* written can still be read.                                               *)
Ends(c, how) ==
    /\ status' = [status EXCEPT ![c] = how]
    /\ link' = [link EXCEPT ![c] = "none"]
    /\ cards' = [cards EXCEPT ![c] = {}]
    /\ prompt' = [prompt EXCEPT ![c] = NoPrompt]
    /\ down' = [down EXCEPT ![c] = <<>>]
    /\ UNCHANGED <<seat, nextTrickNumber, nPointMessagesReceived, nDeals>>

-----------------------------------------------------------------------------
(* HandleServerMessage: what DEAL, TAKEN, SCORE and TOTAL make of the       *)
(* cards, of the number of the next trick and of the count of points lists. *)
BugTakenKept(hand, m) == IF m.type = "DEAL" THEN hand \cup m.hand ELSE hand
CardsAfter(hand, m) ==
    CASE m.type = "DEAL"  -> hand \cup m.hand
      [] m.type = "TAKEN" -> hand \ ToSet(m.cards)
      [] OTHER            -> hand

NumberAfter(number, m) ==
    CASE m.type = "DEAL"  -> 1
      [] m.type = "TAKEN" -> IF m.number = LastTrick THEN 0 ELSE m.number + 1
      [] OTHER            -> number

BugOneOfTwo(n, m) ==
    CASE m.type = "DEAL"  -> 0
      [] m.type = "TOTAL" -> n + 1
      [] OTHER            -> n
PointMessagesAfter(n, m) ==
    CASE m.type = "DEAL"              -> 0
      [] m.type \in {"SCORE", "TOTAL"} -> n + 1
      [] OTHER                        -> n

DealsAfter(n, m) == IF m.type = "DEAL" THEN n + 1 ELSE n

Members(c) == [cards |-> cards[c], next |-> nextTrickNumber[c],
               points |-> nPointMessagesReceived[c], dealt |-> nDeals[c]]
Handled(v, m) == [cards |-> CardsAfter(v.cards, m), next |-> NumberAfter(v.next, m),
                  points |-> PointMessagesAfter(v.points, m),
                  dealt |-> DealsAfter(v.dealt, m)]
AllHandled(v, q) ==
    LET after[n \in 0 .. Len(q)] == IF n = 0 THEN v ELSE Handled(after[n - 1], q[n])
    IN  after[Len(q)]

(* The automatic player: a card of the led color, the first of an unordered *)
(* set, so any.  Without one it takes the first color after it that it has, *)
(* which depends on the order of the colors: here any card.                 *)
BugAnyColor(hand, m) == hand
Playable(hand, m) ==
    IF m.cards # <<>> /\ OfColor(hand, m.cards[1].color) # {}
    THEN OfColor(hand, m.cards[1].color) ELSE hand

(* What is read at once is handled at once, up to the next TRICK. *)
IsNews(m) == m.type \notin {"BUSY", "TRICK"}
News(c)   == LET stop == {i \in DOMAIN down[c] : ~IsNews(down[c][i])}
             IN  SubSeq(down[c], 1, IF stop = {} THEN Len(down[c]) ELSE Min(stop) - 1)

TakesNews(c) ==
    /\ status[c] = "up"
    /\ News(c) # <<>>
    /\ down' = [down EXCEPT ![c] = SubSeq(@, Len(News(c)) + 1, Len(@))]
    /\ LET after == AllHandled(Members(c), News(c)) IN
       /\ cards' = [cards EXCEPT ![c] = after.cards]
       /\ nextTrickNumber' = [nextTrickNumber EXCEPT ![c] = after.next]
       /\ nPointMessagesReceived' = [nPointMessagesReceived EXCEPT ![c] = after.points]
       /\ nDeals' = [nDeals EXCEPT ![c] = after.dealt]
    /\ UNCHANGED <<seat, status, link, prompt, up>>

(* The next message of the server, and an answer, which is lost when the    *)
(* server has closed the connection.                                        *)
Reads(c, m) ==
    /\ status[c] = "up" /\ down[c] # <<>> /\ m = Head(down[c])
    /\ down' = [down EXCEPT ![c] = Tail(@)]
Writes(c, m) ==
    up' = IF link[c] = "open" THEN [up EXCEPT ![c] = Append(@, m)] ELSE up

AnswersTrick(c) == \E m \in ToSet(down[c]) :
    /\ Reads(c, m)
    /\ c \in Automatic
    /\ m.type = "TRICK" /\ m.number = nextTrickNumber[c]
    /\ IF cards[c] = {} THEN UNCHANGED up
       ELSE \E card \in Playable(cards[c], m) :
               Writes(c, MsgPlay(c, m.number, card))
    /\ UNCHANGED <<seat, status, link, members>>

AsksUser(c) == \E m \in ToSet(down[c]) :
    /\ Reads(c, m)
    /\ c \notin Automatic
    /\ m.type = "TRICK" /\ m.number = nextTrickNumber[c]
    /\ prompt' = [prompt EXCEPT ![c] = m]
    /\ UNCHANGED <<seat, status, link, cards, nextTrickNumber,
                   nPointMessagesReceived, nDeals, up>>

IgnoresTrick(c) == \E m \in ToSet(down[c]) :
    /\ Reads(c, m)
    /\ m.type = "TRICK" /\ m.number # nextTrickNumber[c]
    /\ UNCHANGED <<seat, status, link, members, up>>

(* BUSY: the socket is closed and Run returns without error. *)
LeavesBusy(c) ==
    /\ status[c] = "up" /\ down[c] # <<>> /\ Head(down[c]).type = "BUSY"
    /\ Ends(c, "done") /\ UNCHANGED up

(* The end of the stream, when everything before it has been handled: good  *)
(* after the two lists of points, else "Premature disconnection".           *)
ReadsEnd(c) ==
    /\ status[c] = "up" /\ link[c] = "closed" /\ down[c] = <<>>
    /\ Ends(c, IF nPointMessagesReceived[c] = 2 THEN "done" ELSE "premature")
    /\ UNCHANGED up

(***************************************************************************)
(* The user types a card.  Without a prompt it is turned away.  PlayTrick   *)
(* refuses when no trick is due, and Run returns that error.                *)
(***************************************************************************)
IsAsked(c) == status[c] = "up" /\ prompt[c] # NoPrompt

PlaysCard(c, card) ==
    /\ IsAsked(c)
    /\ nextTrickNumber[c] # 0
    /\ Writes(c, MsgPlay(c, nextTrickNumber[c], card))
    /\ prompt' = [prompt EXCEPT ![c] = NoPrompt]
    /\ UNCHANGED <<seat, status, link, cards, nextTrickNumber,
                   nPointMessagesReceived, nDeals, down>>

PlayTrickFails(c) ==
    /\ IsAsked(c)
    /\ nextTrickNumber[c] = 0
    /\ Ends(c, "notStarted") /\ UNCHANGED up

(* A step in which the process, or the end of the connection, goes on. *)
ClientStep(c) ==
    \/ TakesNews(c) \/ AnswersTrick(c) \/ AsksUser(c) \/ IgnoresTrick(c)
    \/ LeavesBusy(c) \/ ReadsEnd(c)
=============================================================================
