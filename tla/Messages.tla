------------------------------ MODULE Messages ------------------------------
(***************************************************************************)
(* The messages as text: what Message::Str prints and what                 *)
(* Message::Deserialize makes of it.  A text is a sequence of characters;  *)
(* only the word a message starts with is one symbol, and so is the mark   *)
(* of a card the user types.                                               *)
(*                                                                         *)
(* Numbers and cards stand side by side without a separator ("TRICK110C"   *)
(* is the ten of clubs in trick 1, or nothing in trick 11), so what the    *)
(* patterns of the messages match matters.  They are modelled by the ways  *)
(* in which they can cut a text.                                           *)
(***************************************************************************)
EXTENDS Cards, SequencesExt

SeatChars  == <<"N", "E", "S", "W">>
ValueChars == <<"2", "3", "4", "5", "6", "7", "8", "9", "10", "J", "Q", "K", "A">>
Digits     == <<"0", "1", "2", "3", "4", "5", "6", "7", "8", "9">>
TypesInOrder == <<"TricksBad", "HeartsBad", "QueensBad", "GentlemenBad",
                  "KingOfHeartsBad", "SeventhAndLastTrickBad", "Robber">>

IndexOf(x, seq) == CHOOSE i \in DOMAIN seq : seq[i] = x
IsSeatChar(x)   == x \in ToSet(SeatChars)
IsDigit(x)      == x \in ToSet(Digits)

-----------------------------------------------------------------------------
(* Printing.  The colors are written as the characters they print as.      *)
NumberStr[n \in Nat] ==
    IF n < 10 THEN <<Digits[n + 1]>> ELSE Append(NumberStr[n \div 10], Digits[(n % 10) + 1])
SeatStr(s) == <<SeatChars[s + 1]>>
CardStr(c) == IF ValueChars[c.value + 1] = "10" THEN <<"1", "0", c.color>>
              ELSE <<ValueChars[c.value + 1], c.color>>
HandStr(cards)   == FlattenSeq([i \in DOMAIN cards |-> CardStr(cards[i])])
PointsStr(points) ==
    FlattenSeq([i \in 1 .. NSeats |-> SeatStr(i - 1) \o NumberStr[points[i - 1]]])

(* What follows the word. *)
Body(m) ==
    CASE m.type = "BUSY"  -> FlattenSeq([i \in DOMAIN m.seats |-> SeatStr(m.seats[i])])
      [] m.type = "DEAL"  -> NumberStr[IndexOf(m.deal, TypesInOrder)]
                                \o SeatStr(m.first) \o HandStr(m.cards)
      [] m.type = "IAM"   -> SeatStr(m.seat)
      [] m.type = "TAKEN" -> NumberStr[m.number] \o HandStr(m.cards) \o SeatStr(m.taker)
      [] m.type = "TRICK" -> NumberStr[m.number] \o HandStr(m.cards)
      [] m.type = "WRONG" -> NumberStr[m.number]
      [] m.type = "!"     -> HandStr(m.cards)
      [] m.type \in {"SCORE", "TOTAL"} -> PointsStr(m.points)
Str(m) == <<m.type>> \o Body(m)

-----------------------------------------------------------------------------
(* Utilities::ParseNumber of a text that is all digits. *)
ParseNumber(text) == FoldLeft(LAMBDA n, d : 10 * n + IndexOf(d, Digits) - 1, 0, text)

(* Hand::Parse: the cards found in a text from left to right.  The first   *)
(* alternative for the value is 10; what is no card is passed over.        *)
BugTenLast(text, i) ==
    IF i < Len(text) /\ text[i + 1] \in Colors /\ text[i] \in ToSet(ValueChars)
    THEN 2 ELSE 0
CardLen(text, i) ==
    CASE /\ i + 2 <= Len(text) /\ text[i] = "1" /\ text[i + 1] = "0"
         /\ text[i + 2] \in Colors              -> 3
      [] /\ i + 1 <= Len(text) /\ text[i] \in ToSet(ValueChars)
         /\ text[i + 1] \in Colors              -> 2
      [] OTHER                                  -> 0
CardAt(text, i) ==
    LET n == CardLen(text, i)
    IN  [color |-> text[i + n - 1],
         value |-> IndexOf(IF n = 3 THEN "10" ELSE text[i], ValueChars) - 1]
ParseHand(text) ==
    LET from[i \in 1 .. Len(text) + 1] ==
          CASE i > Len(text)         -> <<>>
            [] CardLen(text, i) # 0  -> <<CardAt(text, i)>> \o from[i + CardLen(text, i)]
            [] OTHER                 -> from[i + 1]
    IN  from[1]

(* The pattern (?:(?:10|[2-9]|[JQKA])[CDHS]){n}, n one of the numbers.     *)
IsHand(text, numbers) ==
    LET hand == ParseHand(text) IN Len(hand) \in numbers /\ HandStr(hand) = text

(* ([1-9]|1[0-3]) and a hand: the first way to cut the text into the two,  *)
(* 0 if there is none.                                                     *)
TrickNumbers == 1 .. LastTrick
Cut(text, numbers) ==
    LET ways == {k \in 1 .. Len(text) :
                    /\ \A i \in 1 .. k : IsDigit(text[i])
                    /\ text[1] # "0"
                    /\ ParseNumber(SubSeq(text, 1, k)) \in TrickNumbers
                    /\ IsHand(SubSeq(text, k + 1, Len(text)), numbers)}
    IN  IF ways = {} THEN 0 ELSE Min(ways)

(* A list of points: each seat once, with a number that has no zero before *)
(* it.  The text is cut at the seats.                                      *)
SeatsAt(text)    == {i \in DOMAIN text : IsSeatChar(text[i])}
NumberAt(text, i) ==
    LET later == {j \in SeatsAt(text) : j > i}
    IN  SubSeq(text, i + 1, IF later = {} THEN Len(text) ELSE Min(later) - 1)
IsPoints(text) ==
    /\ text # <<>> /\ IsSeatChar(text[1])
    /\ Cardinality(SeatsAt(text)) = NSeats
    /\ \A s \in Seats : \E i \in SeatsAt(text) : text[i] = SeatChars[s + 1]
    /\ \A i \in SeatsAt(text) :
          LET n == NumberAt(text, i) IN
          /\ n # <<>> /\ \A j \in DOMAIN n : IsDigit(n[j])
          /\ n[1] = "0" => Len(n) = 1
ParsePoints(text) ==
    [s \in Seats |-> ParseNumber(NumberAt(text,
                        CHOOSE i \in SeatsAt(text) : text[i] = SeatChars[s + 1]))]

-----------------------------------------------------------------------------
(* Message::Deserialize: by the first word, then the pattern of the type;  *)
(* nullptr (NoMessage) when it does not match.                             *)
NoMessage == [type |-> "none"]

OneSeat(text)  == Len(text) = 1 /\ IsSeatChar(text[1])
SeatOf(x)      == IndexOf(x, SeatChars) - 1
TypeDigits     == {Digits[t + 1] : t \in DOMAIN TypesInOrder}
ParseBusy(b)   == IF b # <<>> /\ \A i \in DOMAIN b : IsSeatChar(b[i])
                  THEN [type |-> "BUSY", seats |-> [i \in DOMAIN b |-> SeatOf(b[i])]]
                  ELSE NoMessage
ParseIam(b)    == IF OneSeat(b) THEN [type |-> "IAM", seat |-> SeatOf(b[1])] ELSE NoMessage
ParseDeal(b)   == IF /\ Len(b) > 2 /\ b[1] \in TypeDigits /\ IsSeatChar(b[2])
                     /\ IsHand(SubSeq(b, 3, Len(b)), {LastTrick})
                  THEN [type |-> "DEAL", deal |-> TypesInOrder[ParseNumber(<<b[1]>>)],
                        first |-> SeatOf(b[2]), cards |-> ParseHand(SubSeq(b, 3, Len(b)))]
                  ELSE NoMessage
ParseTrick(b)  == LET k == Cut(b, 0 .. NSeats - 1)
                  IN  IF k = 0 THEN NoMessage
                      ELSE [type |-> "TRICK", number |-> ParseNumber(SubSeq(b, 1, k)),
                            cards |-> ParseHand(SubSeq(b, k + 1, Len(b)))]
ParseTaken(b)  == LET k == IF b = <<>> THEN 0 ELSE Cut(Front(b), {NSeats})
                  IN  IF k = 0 \/ ~IsSeatChar(Last(b)) THEN NoMessage
                      ELSE [type |-> "TAKEN", number |-> ParseNumber(SubSeq(b, 1, k)),
                            cards |-> ParseHand(SubSeq(b, k + 1, Len(b) - 1)),
                            taker |-> SeatOf(Last(b))]
ParseWrong(b)  == IF Cut(b, {0}) = 0 THEN NoMessage
                  ELSE [type |-> "WRONG", number |-> ParseNumber(b)]
ParseUser(b)   == IF IsHand(b, {1}) THEN [type |-> "!", cards |-> ParseHand(b)]
                  ELSE NoMessage
ParseList(word, b) == IF IsPoints(b) THEN [type |-> word, points |-> ParsePoints(b)]
                      ELSE NoMessage

Deserialize(text) ==
    IF text = <<>> THEN NoMessage ELSE
    LET word == Head(text)  body == Tail(text) IN
    CASE word = "BUSY"  -> ParseBusy(body)
      [] word = "DEAL"  -> ParseDeal(body)
      [] word = "IAM"   -> ParseIam(body)
      [] word = "TAKEN" -> ParseTaken(body)
      [] word = "TRICK" -> ParseTrick(body)
      [] word = "WRONG" -> ParseWrong(body)
      [] word = "!"     -> ParseUser(body)
      [] word \in {"SCORE", "TOTAL"} -> ParseList(word, body)
      [] OTHER          -> NoMessage
=============================================================================
