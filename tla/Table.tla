------------------------------- MODULE Table --------------------------------
(***************************************************************************)
(* The card table: the game as the server keeps it (the members game,      *)
(* deals, tricks and players' points of class Server), with no network.    *)
(* A player plays any card the rules allow.  Server extends this module    *)
(* with connections, messages and deadlines and is shown to implement      *)
(* TableSpec: whatever the clients and the network do, the table only ever *)
(* takes the steps below.                                                  *)
(***************************************************************************)
EXTENDS Game

CONSTANT Schedules      \* the lists of deals a game may be configured with

(* GameConfig::Set reads a deal as LastTrick cards for each seat, no card   *)
(* twice.  It assumes the file has this format (GameConfig.h:9) and the    *)
(* rules of the game need it.                                               *)
WellFormedDeal(d) ==
    /\ d \in DealConfig
    /\ \A s \in Seats : /\ IsFiniteSet(d.hands[s])
                        /\ Cardinality(d.hands[s]) = LastTrick
    /\ \A s, t \in Seats : s # t => d.hands[s] \cap d.hands[t] = {}

ASSUME SchedulesAssumption ==
    \A ds \in Schedules : /\ ds \in Seq(DealConfig)
                          /\ \A i \in DOMAIN ds : WellFormedDeal(ds[i])

VARIABLES
    deals,      \* Server::deals.  The vector is reversed and used as a stack;
                \* its back, the current deal, is the Head of this sequence
    tricks,     \* Server::tricks, the finished tricks of the current deal
    score,      \* Player::score by seat, the points in the current deal
    total       \* Player::total by seat, the points in the game

tableVars == <<trick, hands, judge, deals, tricks, score, total>>

TrickRecord == [cards : Seq(Card), taker : Seats]

-----------------------------------------------------------------------------
TableInit ==
    /\ GameInit
    /\ deals \in Schedules
    /\ tricks = <<>>
    /\ score = [s \in Seats |-> 0]
    /\ total = [s \in Seats |-> 0]

(* Run deals once the first players have gathered. *)
StartGame ==
    /\ deals # <<>>
    /\ Deal(Head(deals))
    /\ UNCHANGED <<deals, tricks, score, total>>

(* A card that does not complete its trick. *)
ContinueTrick(card) ==
    /\ ~CompletesTrick(card)
    /\ Play(card)
    /\ UNCHANGED <<deals, tricks, score, total>>

(* The trick is recorded and its points go to the taker. *)
RecordOf(t)      == [cards |-> t.cards, taker |-> Taker(t)]
BugPointsToLeader(sum, t) == [sum EXCEPT ![t.turn] = @ + Points(judge, t)]
AddPoints(sum, t) == [sum EXCEPT ![Taker(t)] = @ + Points(judge, t)]

BugTotalAtEnd(card) ==
    /\ CompletesTrick(card) /\ ~CompletesDeal(card)
    /\ Play(card)
    /\ tricks' = Append(tricks, RecordOf(WithCard(card)))
    /\ score' = AddPoints(score, WithCard(card))
    /\ UNCHANGED <<total, deals>>

FinishTrick(card) ==
    /\ CompletesTrick(card) /\ ~CompletesDeal(card)
    /\ Play(card)
    /\ tricks' = Append(tricks, RecordOf(WithCard(card)))
    /\ score' = AddPoints(score, WithCard(card))
    /\ total' = AddPoints(total, WithCard(card))
    /\ UNCHANGED deals

(* The last trick of the deal: the scores restart, the deal is popped, and  *)
(* in the same handler the next one, if any, is dealt.                      *)
FinishDeal(card) ==
    /\ CompletesDeal(card)
    /\ CanPlay(card)
    /\ tricks' = <<>>
    /\ score' = [s \in Seats |-> 0]
    /\ total' = AddPoints(total, WithCard(card))
    /\ deals' = Tail(deals)
    /\ IF deals' = <<>>
       THEN /\ trick' = NoTrick
            /\ hands' = HandsWithout(card)
            /\ UNCHANGED judge
       ELSE /\ trick' = FirstTrick(Head(deals'))
            /\ hands' = HandsDealt(HandsWithout(card), Head(deals'))
            /\ judge' = Head(deals').type

PlayCard(card) == ContinueTrick(card) \/ FinishTrick(card) \/ FinishDeal(card)

PlayLegalCard == \E card \in Card : /\ IsMoveLegal(trick.turn, card)
                                    /\ PlayCard(card)

(* The game may only stop when every deal has been played. *)
GameOver == deals = <<>> /\ UNCHANGED tableVars

TableNext == StartGame \/ PlayLegalCard \/ GameOver

TableSpec     == TableInit /\ [][TableNext]_tableVars
FairTableSpec == TableSpec /\ WF_tableVars(TableNext)

-----------------------------------------------------------------------------
(* Who leads the current trick, and where its cards come from. *)
Leader     == IF tricks = <<>> THEN Head(deals).first
                               ELSE tricks[Len(tricks)].taker
TrickLeader(k) == IF k = 1 THEN Head(deals).first ELSE tricks[k - 1].taker

CardsOf(seq)   == {seq[i] : i \in DOMAIN seq}
TakenCards     == UNION {CardsOf(tricks[k].cards) : k \in DOMAIN tricks}
PlayedCards    == TakenCards \cup CardsOf(trick.cards)

(* The cards of the deal as played so far: trick k, k = Len(tricks) + 1     *)
(* being the current one, and the seat that played card i of trick k.       *)
AllTricks      == Append([k \in DOMAIN tricks |-> tricks[k].cards], trick.cards)
PlayedBy(k, i) == SeatAfter(TrickLeader(k), i - 1)

-----------------------------------------------------------------------------
(* Types: every variable holds a value of its C++ type; the current trick   *)
(* is never full between two messages, and the taken tricks are.            *)
TableTypeOK ==
    /\ trick \in Trick /\ Len(trick.cards) < NSeats
    /\ hands \in [Seats -> SUBSET Card]
    /\ judge \in DealTypes \cup {NoJudge}
    /\ TrickOngoing => judge \in DealTypes
    /\ deals \in Seq(DealConfig)
    /\ tricks \in Seq(TrickRecord)
    /\ \A k \in DOMAIN tricks : Len(tricks[k].cards) = NSeats
    /\ score \in [Seats -> Nat] /\ total \in [Seats -> Nat]

(* The trick number, the record of finished tricks and the leader chain     *)
(* stay together: number counts the tricks, and the turn has moved on from  *)
(* the leader, the taker of the last trick, by one seat for each card.      *)
(* Every use of tricks (SendTaken) and of GetTaker relies on it.            *)
TurnFollowsLeader ==
    TrickOngoing =>
        /\ trick.number = Len(tricks) + 1
        /\ trick.turn = SeatAfter(Leader, Len(trick.cards))

(* A rejoining player gets its DEAL again and a TAKEN for each finished      *)
(* trick, and must rebuild its hand from them: the cards it was dealt less   *)
(* those played.  No card is lost, duplicated or left over from the last     *)
(* deal.                                                                     *)
CardsAccounted ==
    TrickOngoing =>
        \A s \in Seats : hands[s] = Head(deals).hands[s] \ PlayedCards

(* Everyone has played the same number of cards, give or take the current   *)
(* trick.  So every hand is empty when Deal adds the next one.              *)
HandSizes ==
    IF TrickOngoing
    THEN \A i \in 0 .. NSeats - 1 :
            Cardinality(hands[SeatAfter(Leader, i)]) =
                LastTrick - Len(tricks) - (IF i < Len(trick.cards) THEN 1 ELSE 0)
    ELSE \A s \in Seats : hands[s] = {}

(* Whoever is asked for a card has one it may play.                          *)
NeverStuck == TrickOngoing => \E card \in Card : IsMoveLegal(trick.turn, card)

(* Nobody revokes: a seat that discards on a trick (another color than the  *)
(* led one) never again in the deal plays or holds the color it failed.     *)
NoRevoke ==
    \A k \in DOMAIN AllTricks : \A i \in DOMAIN AllTricks[k] :
        LET led == AllTricks[k][1].color
            seat == PlayedBy(k, i)
        IN  AllTricks[k][i].color # led =>
              /\ OfColor(hands[seat], led) = {}
              /\ \A l \in k + 1 .. Len(AllTricks) : \A j \in DOMAIN AllTricks[l] :
                    PlayedBy(l, j) = seat => AllTricks[l][j].color # led

(* The points of the deal so far are the points of the tricks taken, and    *)
(* went to their takers.                                                    *)
PointsOf(k) == Points(judge, [cards |-> tricks[k].cards, number |-> k,
                              turn |-> tricks[k].taker])
ScoresMatchTricks ==
    TrickOngoing =>
        \A s \in Seats :
            score[s] = MapThenSumSet(PointsOf,
                          {k \in DOMAIN tricks : tricks[k].taker = s})

(* The points a whole deal distributes, from its cards alone. *)
Stake(d) ==
    LET dealt == UNION {d.hands[s] : s \in Seats}
        n(S)  == Cardinality(S)
        gents == {c \in dealt : c.value \in {Jack, King}}
        worth == [TricksBad       |-> LastTrick,
                  HeartsBad       |-> n(OfColor(dealt, Hearts)),
                  QueensBad       |-> 5 * n({c \in dealt : c.value = Queen}),
                  GentlemenBad    |-> 2 * n(gents),
                  KingOfHeartsBad |->
                    18 * n(OfColor({c \in dealt : c.value = King}, Hearts)),
                  SeventhAndLastTrickBad |->
                    10 * n({SeventhTrick, LastTrick} \cap 1 .. LastTrick)]
    IN  IF d.type = "Robber"
        THEN MapThenSumSet(LAMBDA type : worth[type], DOMAIN worth)
        ELSE worth[d.type]

SumOf(f) == MapThenSumSet(LAMBDA s : f[s], Seats)

(* A deal that ends has handed out its whole stake, no more and no less,    *)
(* whatever was played and whoever took it.  Until then score and total     *)
(* grow by the same amounts, so that TOTAL has what SCORE has.  No total    *)
(* ever decreases, and at most one player's changes at a time.              *)
StakeDistributed ==
    [][/\ IF deals' # deals
          THEN SumOf(total') - SumOf(total) + SumOf(score) = Stake(Head(deals))
          ELSE \A s \in Seats : total'[s] - total[s] = score'[s] - score[s]
       /\ \A s \in Seats : total'[s] >= total[s]
       /\ \E taker \in Seats : \A s \in Seats \ {taker} : total'[s] = total[s]
      ]_tableVars

(* Played fairly, the game ends. *)
GameEnds == <>(deals = <<>> /\ ~TrickOngoing)

(* The reference rule of a trick-taking game (README.md:4, "an              *)
(* implementation of the Hearts card game"): the highest card of the led    *)
(* color takes the trick.                                                   *)
HighestOfLedColorTakes ==
    \A k \in DOMAIN tricks : \E i \in 1 .. NSeats :
        LET cards == tricks[k].cards IN
        /\ tricks[k].taker = PlayedBy(k, i)
        /\ cards[i].color = cards[1].color
        /\ \A j \in 1 .. NSeats : cards[j].color = cards[1].color =>
                                      cards[j].value <= cards[i].value
=============================================================================
