-------------------------- MODULE Blackjack_proofs --------------------------
(***************************************************************************)
(* The games of blackjack, for any decks, stakes, multipliers, games and   *)
(* number of starts at once: the wallet follows the stakes, no card is     *)
(* dealt twice, a game can always be played on, and it is paid once, by    *)
(* the rules.                                                              *)
(***************************************************************************)
EXTENDS Blackjack, Ledgers_proofs, SequenceTheorems

-----------------------------------------------------------------------------
(***************************************************************************)
(* The inductive invariant.                                                *)
(***************************************************************************)

HandRows ==
  [cards : Seq(Faces), stake : Nat, doubled : BOOLEAN, stood : BOOLEAN, busted : BOOLEAN,
   blackjack : BOOLEAN]

GameRows ==
  [status : {"ACTIVE", "WON", "PUSH", "LOST"}, key : Keys, bet : Nat, pairs : Nat, plus3 : Nat,
   insurance : Nat, staked : Nat, hold : {"HELD", "CAPTURED"}, amount : Nat,
   canSplit : BOOLEAN, canInsurance : BOOLEAN, hands : Seq(HandRows), active : {1, 2},
   dealer : Seq(Faces), deck : Decks, cursor : Nat, payout : Nat]

\* One hand, or two after a split; a hand has two cards or more and is marked
\* bust only when it is.
HandsInOrder(hands) ==
  /\ Len(hands) \in {1, 2}
  /\ \A i \in DOMAIN hands :
       /\ Len(hands[i].cards) >= 2
       /\ hands[i].busted => HandValue(hands[i].cards) > 21

\* The cards on the table are the first n of the deck, each of them once.
OnTable(row, n) ==
  /\ n \in 1..Len(row.deck)
  /\ HandCards(row.hands) \cup CardsIn(row.dealer) = {row.deck[i] : i \in 1..n}
  /\ HandSizes(row.hands) + Len(row.dealer) = n

Backed(row) == row.amount = row.pairs + row.plus3 + row.insurance + HandStakes(row.hands)

\* A game between the deal and its settlement.
Dealing(row) ==
  /\ row \in GameRows
  /\ HandsInOrder(row.hands) /\ row.active \in DOMAIN row.hands
  /\ OnTable(row, row.cursor) /\ Len(row.dealer) = 2
  /\ Backed(row)
  /\ row.status = "ACTIVE" /\ row.hold = "HELD" /\ row.payout = 0

Running(row) ==
  /\ Dealing(row)
  /\ \A i \in DOMAIN row.hands : ~row.hands[i].blackjack
  /\ \A i \in DOMAIN row.hands : i < row.active => Resolved(row.hands[i])

InPlay(row) == Running(row) /\ ~Resolved(row.hands[row.active])

\* What a settled game was paid, apart from the rows posted.
ByRules(hands, insurance, sideBets, dealer, payout) ==
  LET main == Total([i \in DOMAIN hands |-> Returns(hands[i], dealer)], DOMAIN hands)
      insured == IF IsNatural(dealer) THEN 3 * insurance ELSE 0
      sides == payout - main - insured
  IN /\ sides >= 0 /\ (sideBets = 0 => sides = 0)
     /\ HandValue(dealer) >= 17
     /\ Len(dealer) > 2 => HandValue(SubSeq(dealer, 1, Len(dealer) - 1)) < 17

PaidByRules(row) ==
  ByRules(row.hands, row.insurance, row.pairs + row.plus3, row.dealer, row.payout)

Ended(row) ==
  /\ row \in GameRows /\ row.status # "ACTIVE"
  /\ row.hold = IF row.hands[1].blackjack THEN "HELD" ELSE "CAPTURED"
  /\ \E n \in 1..Len(row.deck) : OnTable(row, n)
  /\ Backed(row)
  /\ PaidByRules(row)

GamesInOrder == \A g \in Games : game[g] = NoGame \/ InPlay(game[g]) \/ Ended(game[g])

\* A game has the payout it was paid posted, and the stake that was captured.
RowsInOrder ==
  \A g \in Games :
    /\ RowsOf(g, "BET_PAYOUT") = PayoutRows(g, game[g].payout)
    /\ RowsOf(g, "BET_CAPTURE") =
         IF game[g].hold = "CAPTURED"
           THEN {Row(<<g, "capture">>, "BET_CAPTURE", g, game[g].amount)} ELSE {}

WalletInOrder ==
  /\ wallet \in [balance : Nat, locked : Nat]
  /\ wallet.locked = Staked("HELD")
  /\ wallet.balance + Staked("HELD") + Staked("CAPTURED") = Balance + Paid

IInv ==
  /\ req \in [Requests -> Keys \cup {NoKey}]
  /\ DOMAIN game = Games
  /\ GamesInOrder /\ RowsInOrder /\ WalletInOrder

-----------------------------------------------------------------------------
(***************************************************************************)
(* What hands are worth and are paid.                                      *)
(***************************************************************************)

\* A sequence has finitely many positions.
LEMMA Positions ==
  ASSUME NEW S, NEW seq \in Seq(S)
  PROVE  /\ Len(seq) \in Nat /\ DOMAIN seq = 1..Len(seq) /\ IsFiniteSet(DOMAIN seq)
         /\ \A i \in DOMAIN seq : seq[i] \in S
<1>1. Len(seq) \in Nat /\ DOMAIN seq = 1..Len(seq) /\ \A i \in DOMAIN seq : seq[i] \in S
  OBVIOUS
<1>2. IsFiniteSet(1..Len(seq))
  BY <1>1, FS_Interval
<1>3. QED  BY <1>1, <1>2

LEMMA HandValueType == ASSUME NEW cards \in Seq(Faces) PROVE HandValue(cards) \in Nat
<1>1. IsFiniteSet(DOMAIN cards) /\ \A i \in DOMAIN cards : cards[i] \in Faces
  BY Positions
<1>2. \A i \in DOMAIN cards : [j \in DOMAIN cards |-> Hard(cards[j])][i] \in Nat
  BY <1>1 DEF Hard, Faces
<1>3. HardTotal(cards) \in Nat
  BY <1>1, <1>2, TotalType DEF HardTotal
<1>4. QED  BY <1>3 DEF HandValue

\* A natural of the dealer is worth 21.
LEMMA NaturalIs21 == ASSUME NEW cards, IsNatural(cards) PROVE HandValue(cards) = 21
BY DEF IsNatural

\* payoutForMainHand pays what the rules say, for any hand and dealer.
LEMMA HandPays ==
  ASSUME NEW hand \in HandRows, NEW dealer \in Seq(Faces),
         hand.busted => HandValue(hand.cards) > 21
  PROVE  /\ HandPayout(hand, dealer) \in Nat
         /\ HandPayout(hand, dealer) = Returns(hand, dealer)
<1> DEFINE value == HandValue(hand.cards)
           bank == HandValue(dealer)
           natural == IsNatural(dealer)
<1>1. value \in Nat /\ bank \in Nat /\ hand.stake \in Nat
  BY HandValueType DEF HandRows
<1>2. natural => bank = 21
  BY NaturalIs21
<1>3. (hand.stake * 25) \div 10 = (hand.stake * 5) \div 2 /\ (hand.stake * 5) \div 2 \in Nat
  <2>1. \A s \in Nat : (s * 25) \div 10 = (s * 5) \div 2 /\ (s * 5) \div 2 \in Nat
    OBVIOUS
  <2>2. QED  BY <1>1, <2>1
<1>4. HandPayout(hand, dealer) =
        IF hand.busted \/ value > 21 THEN 0
        ELSE IF hand.blackjack /\ ~natural THEN (hand.stake * 25) \div 10
        ELSE IF bank > 21 THEN 2 * hand.stake
        ELSE IF natural /\ ~hand.blackjack THEN 0
        ELSE IF value > bank THEN 2 * hand.stake
        ELSE IF value = bank THEN hand.stake ELSE 0
  BY DEF HandPayout
<1>5. Returns(hand, dealer) =
        IF value > 21 \/ (natural /\ ~hand.blackjack) THEN 0
        ELSE IF bank > 21 \/ value > bank \/ (hand.blackjack /\ ~natural)
          THEN IF hand.blackjack THEN (hand.stake * 5) \div 2 ELSE 2 * hand.stake
        ELSE IF value = bank THEN hand.stake ELSE 0
  BY <1>1 DEF Returns
<1> HIDE DEF value, bank, natural
<1> DEFINE half == (hand.stake * 5) \div 2
<1>6. HandPayout(hand, dealer) =
        IF hand.busted \/ value > 21 THEN 0
        ELSE IF hand.blackjack /\ ~natural THEN half
        ELSE IF bank > 21 THEN 2 * hand.stake
        ELSE IF natural /\ ~hand.blackjack THEN 0
        ELSE IF value > bank THEN 2 * hand.stake
        ELSE IF value = bank THEN hand.stake ELSE 0
  BY <1>3, <1>4, Zenon
<1>7. half \in Nat
  BY <1>3
<1>8. hand.busted => value > 21
  BY DEF value
<1>9. hand.blackjack \in BOOLEAN
  BY DEF HandRows
<1> HIDE DEF half
<1>10. HandPayout(hand, dealer) \in Nat
  BY <1>1, <1>6, <1>7
<1>11. Returns(hand, dealer) = HandPayout(hand, dealer)
  BY <1>1, <1>2, <1>5, <1>6, <1>7, <1>8, <1>9 DEF half
<1>12. QED  BY <1>10, <1>11

\* So does the sum over a player's hands.
LEMMA MainPays ==
  ASSUME NEW hands \in Seq(HandRows), HandsInOrder(hands), NEW dealer \in Seq(Faces)
  PROVE  /\ MainPayout(hands, dealer) \in Nat
         /\ MainPayout(hands, dealer) =
              Total([i \in DOMAIN hands |-> Returns(hands[i], dealer)], DOMAIN hands)
<1> DEFINE f == [i \in DOMAIN hands |-> HandPayout(hands[i], dealer)]
           g == [i \in DOMAIN hands |-> Returns(hands[i], dealer)]
<1>1. IsFiniteSet(DOMAIN hands) /\ \A i \in DOMAIN hands : hands[i] \in HandRows
  BY Positions
<1>2. \A i \in DOMAIN hands : f[i] \in Nat /\ f[i] = g[i]
  BY <1>1, HandPays DEF HandsInOrder
<1> HIDE DEF f, g
<1>3. Total(f, DOMAIN hands) \in Nat /\ Total(f, DOMAIN hands) = Total(g, DOMAIN hands)
  BY <1>1, <1>2, TotalType, TotalSame
<1>4. QED  BY <1>3 DEF MainPayout, f, g

-----------------------------------------------------------------------------
(***************************************************************************)
(* The settlement of a game.                                               *)
(***************************************************************************)

\* The deck of a game has a position for every card, each card once.
LEMMA DeckOfGame ==
  ASSUME NEW row \in GameRows
  PROVE  /\ row.deck \in Seq(Faces) /\ Len(row.deck) \in Nat
         /\ DOMAIN row.deck = 1..Len(row.deck)
         /\ \A i \in DOMAIN row.deck : row.deck[i] \in Faces
         /\ \A i, j \in DOMAIN row.deck : row.deck[i] = row.deck[j] => i = j
<1>1. row.deck \in Decks
  BY DEF GameRows
<1>2. /\ row.deck \in Seq(Faces)
      /\ \A i, j \in DOMAIN row.deck : row.deck[i] = row.deck[j] => i = j
  BY <1>1, BlackjackAssumption
<1>3. QED  BY <1>2, Positions

\* The dealer's hand with the next n cards of the deck.
LEMMA DealerWithIs ==
  ASSUME NEW row \in GameRows, row.cursor \in 1..Len(row.deck), NEW n \in 0..CardsLeft(row)
  PROVE  /\ DealerWith(row, n) \in Seq(Faces)
         /\ Len(DealerWith(row, n)) = Len(row.dealer) + n
         /\ \A i \in 1..(Len(row.dealer) + n) :
              DealerWith(row, n)[i] = IF i <= Len(row.dealer) THEN row.dealer[i]
                                      ELSE row.deck[row.cursor + (i - Len(row.dealer))]
<1> DEFINE lo == row.cursor + 1
           hi == row.cursor + n
           next == SubSeq(row.deck, lo, hi)
<1>1. row.dealer \in Seq(Faces) /\ Len(row.dealer) \in Nat
  BY DEF GameRows
<1>2. /\ Len(row.deck) \in Nat /\ DOMAIN row.deck = 1..Len(row.deck)
      /\ \A i \in DOMAIN row.deck : row.deck[i] \in Faces
  BY DeckOfGame
<1>3. row.cursor \in Nat /\ n \in Nat /\ row.cursor + n <= Len(row.deck)
  BY <1>2 DEF CardsLeft
<1>4. /\ lo \in Int /\ hi \in Int /\ hi - lo + 1 = n /\ (lo <= hi <=> n >= 1)
      /\ \A i \in 1..n : lo + i - 1 = row.cursor + i
  BY <1>3
<1>5. \A i \in lo..hi : row.deck[i] \in Faces
  BY <1>2, <1>3
<1> HIDE DEF lo, hi
<1>6. /\ next \in Seq(Faces)
      /\ Len(next) = IF lo <= hi THEN hi - lo + 1 ELSE 0
      /\ \A i \in 1..(hi - lo + 1) : next[i] = row.deck[lo + i - 1]
  BY <1>4, <1>5, SubSeqProperties
<1> HIDE DEF next
<1>7. Len(next) = n /\ \A i \in 1..n : next[i] = row.deck[row.cursor + i]
  BY <1>3, <1>4, <1>6
<1>8. /\ row.dealer \o next \in Seq(Faces)
      /\ Len(row.dealer \o next) = Len(row.dealer) + Len(next)
      /\ \A i \in 1..(Len(row.dealer) + Len(next)) :
           (row.dealer \o next)[i] = IF i <= Len(row.dealer) THEN row.dealer[i]
                                     ELSE next[i - Len(row.dealer)]
  BY <1>1, <1>6, ConcatProperties
<1>9. DealerWith(row, n) = row.dealer \o next
  BY DEF DealerWith, next, lo, hi
<1>10. \A i \in 1..(Len(row.dealer) + n) : i > Len(row.dealer) =>
         next[i - Len(row.dealer)] = row.deck[row.cursor + (i - Len(row.dealer))]
  BY <1>1, <1>3, <1>7
<1>11. QED  BY <1>1, <1>3, <1>7, <1>8, <1>9, <1>10

LEMMA DealerWithTwo ==
  ASSUME NEW row \in GameRows, row.cursor \in 1..Len(row.deck), Len(row.dealer) = 2,
         NEW n \in 0..CardsLeft(row)
  PROVE  /\ DealerWith(row, n) \in Seq(Faces)
         /\ Len(DealerWith(row, n)) = 2 + n
         /\ \A i \in 1..(2 + n) :
              DealerWith(row, n)[i] = IF i <= 2 THEN row.dealer[i]
                                      ELSE row.deck[row.cursor + (i - 2)]
<1> DEFINE two == Len(row.dealer)
           hand == DealerWith(row, n)
<1>1. /\ hand \in Seq(Faces)
      /\ Len(hand) = two + n
      /\ \A i \in 1..(two + n) :
           hand[i] = IF i <= two THEN row.dealer[i] ELSE row.deck[row.cursor + (i - two)]
  BY DealerWithIs
<1>2. two = 2
  OBVIOUS
<1> HIDE DEF two, hand
<1>3. QED  BY <1>1, <1>2 DEF hand

\* settleDealer draws the next cards of the deck, to 17 and no further.
LEMMA DealerDraws ==
  ASSUME NEW row \in GameRows, row.cursor \in 1..Len(row.deck), Len(row.dealer) = 2,
         DealerStops(row) # {}
  PROVE  \E n \in 0..CardsLeft(row) :
           /\ DealerHand(row) \in Seq(Faces) /\ Len(DealerHand(row)) = 2 + n
           /\ CardsIn(DealerHand(row)) =
                CardsIn(row.dealer) \cup {row.deck[i] : i \in (row.cursor + 1)..(row.cursor + n)}
           /\ HandValue(DealerHand(row)) >= 17
           /\ Len(DealerHand(row)) > 2 =>
                HandValue(SubSeq(DealerHand(row), 1, Len(DealerHand(row)) - 1)) < 17
<1> DEFINE n == Min(DealerStops(row))
           dealer == DealerHand(row)
<1>1. n \in DealerStops(row) /\ \A m \in DealerStops(row) : n <= m
  <2>1. DealerStops(row) \subseteq Nat
    BY DEF DealerStops
  <2>2. \E x \in DealerStops(row) : \A y \in DealerStops(row) : x =< y
    BY <2>1, LeastNumber
  <2>3. QED  BY <2>2 DEF Min
<1>2. dealer = DealerWith(row, n)
  BY DEF DealerHand
<1> HIDE DEF n, dealer
<1>3. n \in 0..CardsLeft(row) /\ HandValue(dealer) >= 17
  BY <1>1, <1>2 DEF DealerStops
<1>4. /\ row.dealer \in Seq(Faces) /\ DOMAIN row.dealer = 1..2
      /\ row.cursor \in Nat /\ n \in Nat
  BY <1>3 DEF GameRows
<1>5. /\ dealer \in Seq(Faces) /\ Len(dealer) = 2 + n
      /\ \A i \in 1..(2 + n) : dealer[i] = IF i <= 2 THEN row.dealer[i]
                                           ELSE row.deck[row.cursor + (i - 2)]
  BY <1>2, <1>3, DealerWithTwo
<1>6. DOMAIN dealer = 1..(2 + n)
  BY <1>5
<1>7. CardsIn(dealer) =
        CardsIn(row.dealer) \cup {row.deck[i] : i \in (row.cursor + 1)..(row.cursor + n)}
  <2>1. ASSUME NEW c \in CardsIn(dealer)
        PROVE  c \in CardsIn(row.dealer)
                 \cup {row.deck[i] : i \in (row.cursor + 1)..(row.cursor + n)}
    <3>1. PICK i \in 1..(2 + n) : c = dealer[i]
      BY <1>6 DEF CardsIn
    <3>2. CASE i <= 2
      BY <1>4, <1>5, <3>1, <3>2 DEF CardsIn
    <3>3. CASE i > 2
      <4>1. row.cursor + (i - 2) \in (row.cursor + 1)..(row.cursor + n)
        BY <1>4, <3>3
      <4>2. c = row.deck[row.cursor + (i - 2)]
        BY <1>5, <3>1, <3>3
      <4>3. QED  BY <4>1, <4>2
    <3>4. QED  BY <3>2, <3>3
  <2>2. ASSUME NEW c \in CardsIn(row.dealer) PROVE c \in CardsIn(dealer)
    BY <1>4, <1>5, <1>6 DEF CardsIn
  <2>3. ASSUME NEW i \in (row.cursor + 1)..(row.cursor + n) PROVE row.deck[i] \in CardsIn(dealer)
    <3>1. i - row.cursor + 2 \in 1..(2 + n) /\ i - row.cursor + 2 > 2
          /\ row.cursor + ((i - row.cursor + 2) - 2) = i
      BY <1>4
    <3>2. dealer[i - row.cursor + 2] = row.deck[i]
      BY <1>5, <3>1
    <3>3. QED  BY <1>6, <3>1, <3>2 DEF CardsIn
  <2>4. QED  BY <2>1, <2>2, <2>3
<1>8. ASSUME Len(dealer) > 2 PROVE HandValue(SubSeq(dealer, 1, Len(dealer) - 1)) < 17
  <2>1. n - 1 \in 0..CardsLeft(row) /\ n > n - 1
    BY <1>3, <1>4, <1>5, <1>8 DEF CardsLeft
  <2>2. /\ DealerWith(row, n - 1) \in Seq(Faces) /\ Len(DealerWith(row, n - 1)) = 2 + (n - 1)
        /\ \A i \in 1..(2 + (n - 1)) :
             DealerWith(row, n - 1)[i] = IF i <= 2 THEN row.dealer[i]
                                         ELSE row.deck[row.cursor + (i - 2)]
    BY <2>1, DealerWithTwo
  <2> DEFINE shorter == SubSeq(dealer, 1, Len(dealer) - 1)
  <2>3. /\ shorter \in Seq(Faces) /\ Len(shorter) = 1 + n
        /\ \A i \in 1..(1 + n) : shorter[i] = dealer[i]
    <3>1. Len(dealer) - 1 = 1 + n /\ 1 + n \in Int /\ 1 <= 1 + n
      BY <1>4, <1>5
    <3>2. \A i \in 1..(1 + n) : dealer[i] \in Faces
      BY <1>4, <1>5
    <3>3. QED  BY <3>1, <3>2, SubSeqProperties
  <2> HIDE DEF shorter
  <2>4. shorter = DealerWith(row, n - 1)
    <3>1. 2 + (n - 1) = 1 + n /\ \A i \in 1..(1 + n) : i \in 1..(2 + n)
      BY <1>4
    <3>2. \A i \in 1..(1 + n) : shorter[i] = DealerWith(row, n - 1)[i]
      BY <1>5, <2>2, <2>3, <3>1
    <3>3. QED  BY <2>2, <2>3, <3>1, <3>2, SeqEqual
  <2>5. ~(HandValue(DealerWith(row, n - 1)) >= 17)
    <3>1. n - 1 \notin DealerStops(row)
      BY <1>1, <1>4, <2>1
    <3>2. QED  BY <2>1, <3>1 DEF DealerStops
  <2>6. HandValue(shorter) \in Nat
    BY <2>3, HandValueType
  <2>7. ~(HandValue(shorter) >= 17)
    BY <2>4, <2>5, Zenon
  <2>8. HandValue(shorter) < 17
    BY <2>6, <2>7
  <2>9. QED  BY <2>8 DEF shorter
<1>9. QED  BY <1>3, <1>5, <1>7, <1>8 DEF dealer

\* What resolveCurrentGame pays is a natural number, by the rules.
LEMMA PayoutRight ==
  ASSUME NEW row \in GameRows, HandsInOrder(row.hands), NEW dealer \in Seq(Faces),
         NEW table \in Paytables
  PROVE  LET main == Total([i \in DOMAIN row.hands |-> Returns(row.hands[i], dealer)],
                           DOMAIN row.hands)
             insured == IF IsNatural(dealer) THEN 3 * row.insurance ELSE 0
             sides == Payout(row, dealer, table) - main - insured
         IN /\ Payout(row, dealer, table) \in Nat
            /\ sides >= 0 /\ (row.pairs + row.plus3 = 0 => sides = 0)
<1> DEFINE main == Total([i \in DOMAIN row.hands |-> Returns(row.hands[i], dealer)],
                         DOMAIN row.hands)
           insured == IF IsNatural(dealer) THEN 3 * row.insurance ELSE 0
           first == row.hands[1].cards
           pairs == IF IsPair(first) THEN row.pairs * table.pairs ELSE 0
           plus3 == IF Is21Plus3(<<first[1], first[2], dealer[1]>>)
                      THEN row.plus3 * table.plus3 ELSE 0
<1>1. row.hands \in Seq(HandRows) /\ row.insurance \in Nat /\ row.pairs \in Nat /\ row.plus3 \in Nat
  BY DEF GameRows
<1>2. table.pairs \in Nat /\ table.plus3 \in Nat
  BY BlackjackAssumption
<1>3. MainPayout(row.hands, dealer) \in Nat /\ MainPayout(row.hands, dealer) = main
  BY <1>1, MainPays
<1>4. insured \in Nat
  BY <1>1
<1>5. /\ pairs \in Nat /\ (row.pairs = 0 => pairs = 0)
      /\ plus3 \in Nat /\ (row.plus3 = 0 => plus3 = 0)
  <2>1. \A a, b \in Nat : a * b \in Nat /\ (a = 0 => a * b = 0)
    OBVIOUS
  <2>2. /\ row.pairs * table.pairs \in Nat /\ (row.pairs = 0 => row.pairs * table.pairs = 0)
        /\ row.plus3 * table.plus3 \in Nat /\ (row.plus3 = 0 => row.plus3 * table.plus3 = 0)
    BY <1>1, <1>2, <2>1
  <2>3. QED  BY <2>2
<1>6. Payout(row, dealer, table) = MainPayout(row.hands, dealer) + insured + pairs + plus3
  BY DEF Payout
<1> HIDE DEF main, insured, pairs, plus3
<1>7. /\ Payout(row, dealer, table) \in Nat
      /\ Payout(row, dealer, table) - main - insured = pairs + plus3
  BY <1>3, <1>4, <1>5, <1>6
<1>8. pairs + plus3 >= 0 /\ (row.pairs + row.plus3 = 0 => pairs + plus3 = 0)
  BY <1>1, <1>5
<1>9. QED  BY <1>7, <1>8 DEF main, insured

EndRow(held, dealer, payout, status) ==
  [held EXCEPT !.dealer = dealer, !.payout = payout, !.status = status]

EndsAs(held, dealer, payout, status, end) ==
  /\ end \in GameRows /\ end.status = status /\ end.hold = held.hold
  /\ end.hands = held.hands /\ end.dealer = dealer /\ end.deck = held.deck
  /\ end.amount = held.amount /\ end.pairs = held.pairs /\ end.plus3 = held.plus3
  /\ end.insurance = held.insurance /\ end.payout = payout

LEMMA RowEnded ==
  ASSUME NEW held \in GameRows, NEW dealer \in Seq(Faces), NEW payout \in Nat,
         NEW status \in {"WON", "PUSH", "LOST"}, NEW end,
         end = EndRow(held, dealer, payout, status)
  PROVE  EndsAs(held, dealer, payout, status, end)
BY DEF GameRows, EndRow, EndsAs

\* finalizeGameInTx ends a game that was dealt, as the rules say.
LEMMA SettledEnds ==
  ASSUME NEW held \in GameRows, HandsInOrder(held.hands), OnTable(held, held.cursor),
         Len(held.dealer) = 2, Backed(held),
         held.hold = IF held.hands[1].blackjack THEN "HELD" ELSE "CAPTURED",
         DealerStops(held) # {}, NEW table \in Paytables
  PROVE  LET end == Settled(held, table)
         IN Ended(end) /\ end.amount = held.amount /\ end.hold = held.hold /\ end.payout \in Nat
<1> DEFINE dealer == DealerHand(held)
           payout == Payout(held, dealer, table)
           end == Settled(held, table)
<1>1. held.cursor \in 1..Len(held.deck)
  BY DEF OnTable
<1>2. PICK n \in 0..CardsLeft(held) :
        /\ dealer \in Seq(Faces) /\ Len(dealer) = 2 + n
        /\ CardsIn(dealer) = CardsIn(held.dealer)
             \cup {held.deck[i] : i \in (held.cursor + 1)..(held.cursor + n)}
        /\ HandValue(dealer) >= 17
        /\ Len(dealer) > 2 => HandValue(SubSeq(dealer, 1, Len(dealer) - 1)) < 17
  BY <1>1, DealerDraws
<1> HIDE DEF dealer
<1>3. LET main == Total([i \in DOMAIN held.hands |-> Returns(held.hands[i], dealer)],
                        DOMAIN held.hands)
          insured == IF IsNatural(dealer) THEN 3 * held.insurance ELSE 0
          sides == payout - main - insured
      IN /\ payout \in Nat
         /\ sides >= 0 /\ (held.pairs + held.plus3 = 0 => sides = 0)
  BY <1>2, PayoutRight
<1> HIDE DEF payout
<1>4. PICK status \in {"WON", "PUSH", "LOST"} :
        end = EndRow(held, dealer, payout, status)
  BY DEF Settled, EndRow, dealer, payout
<1> HIDE DEF end
<1>5. /\ end \in GameRows /\ end.status = status /\ end.hold = held.hold
      /\ end.hands = held.hands /\ end.dealer = dealer /\ end.deck = held.deck
      /\ end.amount = held.amount /\ end.pairs = held.pairs /\ end.plus3 = held.plus3
      /\ end.insurance = held.insurance /\ end.payout = payout
  <2>1. dealer \in Seq(Faces) /\ payout \in Nat
    BY <1>2, <1>3
  <2>2. EndsAs(held, dealer, payout, status, end)
    BY <1>4, <2>1, RowEnded, Zenon
  <2>3. QED  BY <2>2 DEF EndsAs
<1>6. PaidByRules(end)
  <2>1. ByRules(held.hands, held.insurance, held.pairs + held.plus3, dealer, payout)
    BY <1>2, <1>3 DEF ByRules
  <2>2. QED  BY <1>5, <2>1 DEF PaidByRules
<1>7. Backed(end)
  BY <1>5 DEF Backed
<1>8. OnTable(end, held.cursor + n) /\ held.cursor + n \in 1..Len(end.deck)
  <2>1. /\ HandCards(held.hands) \cup CardsIn(held.dealer) = {held.deck[i] : i \in 1..held.cursor}
        /\ HandSizes(held.hands) + 2 = held.cursor
    BY DEF OnTable
  <2>2. Len(held.deck) \in Nat
    BY DeckOfGame
  <2>3. held.cursor \in Nat /\ n \in Nat /\ held.cursor + n \in 1..Len(held.deck)
    BY <1>1, <2>2 DEF CardsLeft
  <2>4. HandCards(held.hands) \cup CardsIn(dealer) = {held.deck[i] : i \in 1..(held.cursor + n)}
    <3>1. 1..(held.cursor + n) = 1..held.cursor \cup (held.cursor + 1)..(held.cursor + n)
      BY <2>3
    <3>2. HandCards(held.hands) \cup CardsIn(dealer)
            = {held.deck[i] : i \in 1..held.cursor}
                \cup {held.deck[i] : i \in (held.cursor + 1)..(held.cursor + n)}
      BY <1>2, <2>1
    <3>3. QED  BY <3>1, <3>2
  <2>5. HandSizes(held.hands) + Len(dealer) = held.cursor + n
    <3>1. HandSizes(held.hands) \in Nat
      <4>1. /\ IsFiniteSet(DOMAIN held.hands)
            /\ \A i \in DOMAIN held.hands : held.hands[i] \in HandRows
        BY Positions DEF GameRows
      <4>2. \A i \in DOMAIN held.hands :
              [j \in DOMAIN held.hands |-> Len(held.hands[j].cards)][i] \in Nat
        BY <4>1 DEF HandRows
      <4>3. QED  BY <4>1, <4>2, TotalType DEF HandSizes
    <3>2. Len(dealer) = 2 + n /\ HandSizes(held.hands) + 2 = held.cursor
      BY <1>2, <2>1
    <3>3. QED  BY <2>3, <3>1, <3>2
  <2>6. QED  BY <1>5, <2>3, <2>4, <2>5 DEF OnTable
<1>9. Ended(end)
  BY <1>4, <1>5, <1>6, <1>7, <1>8 DEF Ended
<1>10. QED  BY <1>3, <1>5, <1>9 DEF end

Captured(row) == [row EXCEPT !.hold = "CAPTURED"]

LEMMA RowCaptured ==
  ASSUME NEW row \in GameRows, NEW held, held = Captured(row)
  PROVE  /\ held \in GameRows /\ held.hold = "CAPTURED" /\ held.amount = row.amount
         /\ held.hands = row.hands /\ held.dealer = row.dealer /\ held.deck = row.deck
         /\ held.cursor = row.cursor /\ held.pairs = row.pairs /\ held.plus3 = row.plus3
         /\ held.insurance = row.insurance
BY DEF GameRows, Captured

\* A running game is captured and settled.
LEMMA CapturedEnds ==
  ASSUME NEW row \in GameRows, Running(row), DealerStops(row) # {}, NEW table \in Paytables
  PROVE  LET end == Settled(Captured(row), table)
         IN Ended(end) /\ end.amount = row.amount /\ end.hold = "CAPTURED" /\ end.payout \in Nat
<1> DEFINE held == Captured(row)
<1>1. /\ held \in GameRows /\ held.hold = "CAPTURED" /\ held.amount = row.amount
      /\ held.hands = row.hands /\ held.dealer = row.dealer /\ held.deck = row.deck
      /\ held.cursor = row.cursor /\ held.pairs = row.pairs /\ held.plus3 = row.plus3
      /\ held.insurance = row.insurance
  BY RowCaptured
<1> HIDE DEF held
<1>2. /\ HandsInOrder(row.hands) /\ OnTable(row, row.cursor) /\ Len(row.dealer) = 2
      /\ Backed(row) /\ ~row.hands[1].blackjack
  <2>1. 1 \in DOMAIN row.hands
    BY DEF Running, Dealing, HandsInOrder, GameRows
  <2>2. QED  BY <2>1 DEF Running, Dealing
<1>3. HandsInOrder(held.hands) /\ Len(held.dealer) = 2
  BY <1>1, <1>2
<1>4. OnTable(held, held.cursor)
  BY <1>1, <1>2 DEF OnTable
<1>5. Backed(held)
  BY <1>1, <1>2 DEF Backed
<1>6. held.hold = IF held.hands[1].blackjack THEN "HELD" ELSE "CAPTURED"
  BY <1>1, <1>2
<1>7. DealerStops(held) # {}
  BY <1>1 DEF DealerStops, DealerWith, CardsLeft
<1>8. LET end == Settled(held, table)
      IN Ended(end) /\ end.amount = held.amount /\ end.hold = held.hold /\ end.payout \in Nat
  BY <1>1, <1>3, <1>4, <1>5, <1>6, <1>7, SettledEnds
<1>9. QED  BY <1>1, <1>8 DEF held

-----------------------------------------------------------------------------
(***************************************************************************)
(* The funds and the rows posted, when the row of one game is written.     *)
(***************************************************************************)

Share(row, hold) == IF row.hold = hold THEN row.amount ELSE 0

Holding(rows, hold) == Total([g \in Games |-> Share(rows[g], hold)], Games)

Paying(rows) == Total([g \in Games |-> rows[g].payout], Games)

\* Staked, for any rows.
HeldOf(rows, hold) == Total([g \in Games |-> rows[g].amount], {g \in Games : rows[g].hold = hold})

LEMMA StakedIs ==
  ASSUME NEW rows, NEW hold PROVE HeldOf(rows, hold) = Holding(rows, hold)
<1> DEFINE f == [g \in Games |-> rows[g].amount]
           h == [g \in Games |-> Share(rows[g], hold)]
           T == {g \in Games : rows[g].hold = hold}
<1>1. \A g \in Games : h[g] = IF g \in T THEN f[g] ELSE 0
  BY DEF Share
<1>2. T \subseteq Games
  OBVIOUS
<1> HIDE DEF f, h, T
<1>3. Total(h, Games) = Total(f, T)
  BY <1>1, <1>2, TotalWhere
<1>4. QED  BY <1>3 DEF HeldOf, Holding, f, h, T

LEMMA FundsMove ==
  ASSUME NEW rows, DOMAIN rows = Games, NEW new, NEW g \in Games, DOMAIN new = Games,
         \A x \in Games : rows[x].amount \in Nat /\ rows[x].payout \in Nat,
         new[g].amount \in Nat, new[g].payout \in Nat,
         \A x \in Games \ {g} : new[x] = rows[x]
  PROVE  /\ \A hold : /\ Holding(rows, hold) \in Nat /\ Holding(new, hold) \in Nat
                      /\ Holding(new, hold) + Share(rows[g], hold)
                           = Holding(rows, hold) + Share(new[g], hold)
         /\ Paying(rows) \in Nat /\ Paying(new) \in Nat
         /\ Paying(new) + rows[g].payout = Paying(rows) + new[g].payout
<1>0. IsFiniteSet(Games)
  BY BlackjackAssumption
<1>1. ASSUME NEW hold
      PROVE  /\ Holding(rows, hold) \in Nat /\ Holding(new, hold) \in Nat
             /\ Holding(new, hold) + Share(rows[g], hold)
                  = Holding(rows, hold) + Share(new[g], hold)
  <2> DEFINE f == [x \in Games |-> Share(rows[x], hold)]
             h == [x \in Games |-> Share(new[x], hold)]
  <2>1. /\ \A x \in Games : f[x] \in Nat /\ h[x] \in Nat
        /\ \A x \in Games \ {g} : h[x] = f[x]
        /\ f[g] = Share(rows[g], hold) /\ h[g] = Share(new[g], hold)
    BY DEF Share
  <2> HIDE DEF f, h
  <2>2. /\ Total(f, Games) \in Nat /\ Total(h, Games) \in Nat
        /\ Total(h, Games) + f[g] = Total(f, Games) + h[g]
    BY <1>0, <2>1, TotalChange
  <2>3. QED  BY <2>1, <2>2 DEF Holding, f, h
<1>2. /\ Paying(rows) \in Nat /\ Paying(new) \in Nat
      /\ Paying(new) + rows[g].payout = Paying(rows) + new[g].payout
  <2> DEFINE f == [x \in Games |-> rows[x].payout]
             h == [x \in Games |-> new[x].payout]
  <2>1. /\ \A x \in Games : f[x] \in Nat /\ h[x] \in Nat
        /\ \A x \in Games \ {g} : h[x] = f[x]
    OBVIOUS
  <2>0. f[g] = rows[g].payout /\ h[g] = new[g].payout
    OBVIOUS
  <2> HIDE DEF f, h
  <2>2. /\ Total(f, Games) \in Nat /\ Total(h, Games) \in Nat
        /\ Total(h, Games) + f[g] = Total(f, Games) + h[g]
    BY <1>0, <2>1, TotalChange
  <2>3. QED  BY <2>0, <2>2 DEF Paying, f, h
<1>3. QED  BY <1>1, <1>2

LEMMA PostedGrow ==
  ASSUME NEW g \in Games, NEW added, posted' = posted \cup added,
         \A x \in added : x.game = g
  PROVE  /\ \A h \in Games \ {g} : \A reason : RowsOf(h, reason)' = RowsOf(h, reason)
         /\ \A reason : RowsOf(g, reason)'
                          = RowsOf(g, reason) \cup {x \in added : x.reason = reason}
BY DEF RowsOf

\* What a game counts for in the funds.
LEMMA RowNumbers ==
  ASSUME NEW row, row = NoGame \/ InPlay(row) \/ Ended(row)
  PROVE  /\ row.amount \in Nat /\ row.payout \in Nat
         /\ Share(row, "HELD") + Share(row, "CAPTURED") = row.amount
         /\ Share(row, "HELD") \in Nat /\ Share(row, "CAPTURED") \in Nat
<1>1. CASE row = NoGame
  BY <1>1 DEF NoGame, Share
<1>2. CASE row \in GameRows
  BY <1>2 DEF GameRows, Share
<1>3. QED  BY <1>1, <1>2 DEF InPlay, Running, Dealing, Ended

\* A transaction that writes the row of a game that is in order, and posts and
\* pays what the change of the row says, keeps the invariant.
LEMMA Written ==
  ASSUME IInv, NEW g \in Games, NEW row, InPlay(row) \/ Ended(row),
         game' = [game EXCEPT ![g] = row],
         wallet' \in [balance : Nat, locked : Nat],
         wallet'.locked + Share(game[g], "HELD") = wallet.locked + Share(row, "HELD"),
         wallet'.balance + row.amount + game[g].payout
           = wallet.balance + game[g].amount + row.payout,
         NEW added, posted' = posted \cup added, \A x \in added : x.game = g,
         RowsOf(g, "BET_PAYOUT") \cup {x \in added : x.reason = "BET_PAYOUT"}
           = PayoutRows(g, row.payout),
         RowsOf(g, "BET_CAPTURE") \cup {x \in added : x.reason = "BET_CAPTURE"}
           = IF row.hold = "CAPTURED"
               THEN {Row(<<g, "capture">>, "BET_CAPTURE", g, row.amount)} ELSE {},
         req' \in [Requests -> Keys \cup {NoKey}]
  PROVE  IInv'
<1>1. /\ DOMAIN game = Games /\ DOMAIN game' = Games /\ game'[g] = row
      /\ \A h \in Games \ {g} : game'[h] = game[h]
  BY DEF IInv
<1>2. GamesInOrder'
  <2>1. ASSUME NEW h \in Games
        PROVE  game'[h] = NoGame \/ InPlay(game'[h]) \/ Ended(game'[h])
    <3>1. CASE h = g
      BY <1>1, <3>1
    <3>2. CASE h # g
      BY <1>1, <3>2 DEF IInv, GamesInOrder
    <3>3. QED  BY <3>1, <3>2
  <2>2. QED  BY <2>1 DEF GamesInOrder
<1>3. RowsInOrder'
  <2>1. ASSUME NEW h \in Games, h # g
        PROVE  /\ RowsOf(h, "BET_PAYOUT")' = PayoutRows(h, game'[h].payout)
               /\ RowsOf(h, "BET_CAPTURE")' =
                    IF game'[h].hold = "CAPTURED"
                      THEN {Row(<<h, "capture">>, "BET_CAPTURE", h, game'[h].amount)} ELSE {}
    <3>1. RowsOf(h, "BET_PAYOUT")' = RowsOf(h, "BET_PAYOUT")
          /\ RowsOf(h, "BET_CAPTURE")' = RowsOf(h, "BET_CAPTURE")
      BY <2>1, PostedGrow
    <3>2. game'[h] = game[h]
      BY <1>1, <2>1
    <3>3. QED  BY <3>1, <3>2 DEF IInv, RowsInOrder
  <2>2. /\ RowsOf(g, "BET_PAYOUT")' = PayoutRows(g, game'[g].payout)
        /\ RowsOf(g, "BET_CAPTURE")' =
             IF game'[g].hold = "CAPTURED"
               THEN {Row(<<g, "capture">>, "BET_CAPTURE", g, game'[g].amount)} ELSE {}
    <3>1. /\ RowsOf(g, "BET_PAYOUT")'
               = RowsOf(g, "BET_PAYOUT") \cup {x \in added : x.reason = "BET_PAYOUT"}
          /\ RowsOf(g, "BET_CAPTURE")'
               = RowsOf(g, "BET_CAPTURE") \cup {x \in added : x.reason = "BET_CAPTURE"}
      BY PostedGrow
    <3>2. /\ RowsOf(g, "BET_PAYOUT")' = PayoutRows(g, row.payout)
          /\ RowsOf(g, "BET_CAPTURE")' =
               IF row.hold = "CAPTURED"
                 THEN {Row(<<g, "capture">>, "BET_CAPTURE", g, row.amount)} ELSE {}
      BY <3>1, Zenon
    <3>3. QED  BY <1>1, <3>2, Zenon
  <2>3. QED  BY <2>1, <2>2 DEF RowsInOrder
<1>4. WalletInOrder'
  <2> DEFINE H == Holding(game, "HELD")
             C == Holding(game, "CAPTURED")
             P == Paying(game)
             Hn == Holding(game', "HELD")
             Cn == Holding(game', "CAPTURED")
             Pn == Paying(game')
             h == Share(game[g], "HELD")
             c == Share(game[g], "CAPTURED")
             hn == Share(row, "HELD")
             cn == Share(row, "CAPTURED")
  <2>1. \A x \in Games : game[x] = NoGame \/ InPlay(game[x]) \/ Ended(game[x])
    BY DEF IInv, GamesInOrder
  <2>2. \A x \in Games : game[x].amount \in Nat /\ game[x].payout \in Nat
    BY <2>1, RowNumbers
  <2>3. /\ row.amount \in Nat /\ row.payout \in Nat /\ hn + cn = row.amount
        /\ hn \in Nat /\ cn \in Nat
    BY RowNumbers
  <2>4. h + c = game[g].amount /\ h \in Nat /\ c \in Nat
    BY <2>1, RowNumbers
  <2>5. /\ \A hold : /\ Holding(game, hold) \in Nat /\ Holding(game', hold) \in Nat
                     /\ Holding(game', hold) + Share(game[g], hold)
                          = Holding(game, hold) + Share(game'[g], hold)
        /\ P \in Nat /\ Pn \in Nat
        /\ Pn + game[g].payout = P + game'[g].payout
    <3>1. game'[g].amount \in Nat /\ game'[g].payout \in Nat
      BY <1>1, <2>3
    <3>2. PICK new : new = game'
      OBVIOUS
    <3>3. /\ DOMAIN new = Games /\ \A x \in Games \ {g} : new[x] = game[x]
          /\ new[g].amount \in Nat /\ new[g].payout \in Nat
      BY <1>1, <3>1, <3>2
    <3>4. /\ \A hold : /\ Holding(game, hold) \in Nat /\ Holding(new, hold) \in Nat
                       /\ Holding(new, hold) + Share(game[g], hold)
                            = Holding(game, hold) + Share(new[g], hold)
          /\ Paying(game) \in Nat /\ Paying(new) \in Nat
          /\ Paying(new) + game[g].payout = Paying(game) + new[g].payout
      BY <1>1, <2>2, <3>3, FundsMove
    <3>5. QED  BY <3>2, <3>4
  <2>6. /\ H \in Nat /\ Hn \in Nat /\ Hn + h = H + hn
        /\ C \in Nat /\ Cn \in Nat /\ Cn + c = C + cn
        /\ P \in Nat /\ Pn \in Nat /\ Pn + game[g].payout = P + row.payout
    BY <1>1, <2>5
  <2>7. Staked("HELD")' = Hn /\ Staked("CAPTURED")' = Cn /\ Paid' = Pn
    <3>1. PICK new : new = game'
      OBVIOUS
    <3>2. \A hold : HeldOf(new, hold) = Holding(new, hold)
      BY StakedIs
    <3>3. /\ Staked("HELD")' = HeldOf(new, "HELD")
          /\ Staked("CAPTURED")' = HeldOf(new, "CAPTURED")
      BY <3>1 DEF HeldOf, Staked
    <3>4. Paid' = Pn
      BY DEF Paid, Paying
    <3>5. QED  BY <3>1, <3>2, <3>3, <3>4
  <2>8. wallet.locked = H /\ wallet.balance + H + C = Balance + P
    <3>1. \A hold : HeldOf(game, hold) = Holding(game, hold)
      BY StakedIs
    <3>2. QED  BY <3>1 DEF HeldOf, Staked, Paid, Paying, IInv, WalletInOrder
  <2>9. wallet.locked \in Nat /\ wallet.balance \in Nat
        /\ wallet'.locked \in Nat /\ wallet'.balance \in Nat
    BY DEF IInv, WalletInOrder
  <2>10. game[g].amount \in Nat /\ game[g].payout \in Nat
    BY <2>2
  <2>11. Balance \in Nat
    BY BlackjackAssumption
  <2> HIDE DEF H, C, P, Hn, Cn, Pn, h, c, hn, cn
  <2>12. wallet'.locked = Hn
    <3>1. wallet'.locked + h = wallet.locked + hn
      BY DEF h, hn
    <3>2. /\ h \in Nat /\ hn \in Nat /\ H \in Nat /\ Hn \in Nat /\ Hn + h = H + hn
          /\ wallet.locked = H /\ wallet'.locked \in Nat
      BY ONLY <2>3, <2>4, <2>6, <2>8, <2>9
    <3>3. PICK locked \in Nat : locked = wallet'.locked
      BY <3>2
    <3>4. locked + h = H + hn
      BY ONLY <3>1, <3>2, <3>3
    <3>5. locked = Hn
      BY ONLY <3>2, <3>4, locked \in Nat
    <3>6. QED  BY <3>3, <3>5
  <2>13. wallet'.balance + Hn + Cn = Balance + Pn
    <3>1. wallet'.balance + row.amount + game[g].payout
            = wallet.balance + game[g].amount + row.payout
      OBVIOUS
    <3>2. PICK old \in Nat, new \in Nat : old = wallet.balance /\ new = wallet'.balance
      BY ONLY <2>9
    <3>3. PICK a \in Nat, an \in Nat, p \in Nat, pn \in Nat :
            a = game[g].amount /\ an = row.amount /\ p = game[g].payout /\ pn = row.payout
      BY ONLY <2>3, <2>10
    <3>4. /\ new + an + p = old + a + pn /\ old + H + C = Balance + P
          /\ hn + cn = an /\ h + c = a /\ Pn + p = P + pn
      BY ONLY <2>3, <2>4, <2>6, <2>8, <3>1, <3>2, <3>3
    <3>5. /\ H \in Nat /\ Hn \in Nat /\ Hn + h = H + hn
          /\ C \in Nat /\ Cn \in Nat /\ Cn + c = C + cn
          /\ P \in Nat /\ Pn \in Nat
          /\ h \in Nat /\ c \in Nat /\ hn \in Nat /\ cn \in Nat
      BY ONLY <2>3, <2>4, <2>6
    <3>6. new + Hn + Cn = Balance + Pn
      BY ONLY <2>11, <3>4, <3>5, old \in Nat, new \in Nat, a \in Nat, an \in Nat,
              p \in Nat, pn \in Nat
    <3>7. QED  BY ONLY <3>2, <3>6
  <2>14. QED  BY <2>7, <2>12, <2>13 DEF WalletInOrder
<1>5. QED  BY <1>1, <1>2, <1>3, <1>4 DEF IInv

-----------------------------------------------------------------------------
(***************************************************************************)
(* The moves of a player.                                                  *)
(***************************************************************************)

LEMMA PlusZero == \A x \in Nat : \A y : y = x => y = x + 0
OBVIOUS

\* What no move of a hand changes.
SameGame(held, row) ==
  /\ row.status = held.status /\ row.hold = held.hold /\ row.payout = held.payout
  /\ row.pairs = held.pairs /\ row.plus3 = held.plus3 /\ row.insurance = held.insurance
  /\ row.dealer = held.dealer /\ row.deck = held.deck

\* A row with cards drawn by the hand that plays, and a stake raised on it.
HandMoved(held, row, drawn, extra) ==
  /\ SameGame(held, row) /\ row.active = held.active
  /\ row.cursor = held.cursor + drawn /\ row.amount = held.amount + extra
  /\ Len(row.hands) = Len(held.hands)
  /\ \A i \in DOMAIN held.hands : i # held.active => row.hands[i] = held.hands[i]
  /\ LET old == held.hands[held.active]
         new == row.hands[held.active]
     IN /\ new.cards = IF drawn = 0 THEN old.cards
                       ELSE Append(old.cards, held.deck[held.cursor + 1])
        /\ new.stake = old.stake + extra /\ new.blackjack = old.blackjack
        /\ new.busted => HandValue(new.cards) > 21

LEMMA CardsAppended ==
  ASSUME NEW cards \in Seq(Faces), NEW card \in Faces
  PROVE  /\ Append(cards, card) \in Seq(Faces) /\ Len(Append(cards, card)) = Len(cards) + 1
         /\ CardsIn(Append(cards, card)) = CardsIn(cards) \cup {card}
<1> DEFINE new == Append(cards, card)
<1>1. /\ new \in Seq(Faces) /\ Len(new) = Len(cards) + 1 /\ Len(cards) \in Nat
      /\ DOMAIN cards = 1..Len(cards) /\ DOMAIN new = 1..(Len(cards) + 1)
      /\ \A i \in 1..Len(cards) : new[i] = cards[i]
      /\ new[Len(cards) + 1] = card
  BY AppendProperties
<1> HIDE DEF new
<1>2. ASSUME NEW i \in DOMAIN new PROVE new[i] = card \/ (i \in DOMAIN cards /\ new[i] = cards[i])
  <2>1. i \in 1..Len(cards) \/ i = Len(cards) + 1
    BY <1>1
  <2>2. QED  BY <1>1, <2>1
<1>3. \A i \in DOMAIN cards : i \in DOMAIN new /\ new[i] = cards[i]
  BY <1>1
<1>4. Len(cards) + 1 \in DOMAIN new
  BY <1>1
<1>5. CardsIn(new) = CardsIn(cards) \cup {card}
  BY <1>1, <1>2, <1>3, <1>4 DEF CardsIn
<1>6. QED  BY <1>1, <1>5 DEF new

LEMMA HandMoves ==
  ASSUME NEW held \in GameRows, Running(held), NEW row \in GameRows,
         NEW drawn \in {0, 1}, drawn <= CardsLeft(held), NEW extra \in Nat,
         HandMoved(held, row, drawn, extra)
  PROVE  Running(row)
<1> DEFINE a == held.active
           old == held.hands[a]
           new == row.hands[a]
           card == held.deck[held.cursor + 1]
<1>1. /\ held.hands \in Seq(HandRows) /\ row.hands \in Seq(HandRows)
      /\ DOMAIN held.hands = 1..Len(held.hands) /\ DOMAIN row.hands = DOMAIN held.hands
      /\ IsFiniteSet(DOMAIN held.hands) /\ Len(held.hands) \in Nat
      /\ \A i \in DOMAIN held.hands : held.hands[i] \in HandRows /\ row.hands[i] \in HandRows
  <2>1. held.hands \in Seq(HandRows) /\ row.hands \in Seq(HandRows)
    BY DEF GameRows
  <2>2. Len(row.hands) = Len(held.hands)
    BY DEF HandMoved
  <2>3. QED  BY <2>1, <2>2, Positions
<1>2. /\ a \in DOMAIN held.hands /\ Len(held.hands) \in {1, 2}
      /\ \A i \in DOMAIN held.hands :
           /\ Len(held.hands[i].cards) >= 2 /\ ~held.hands[i].blackjack
           /\ held.hands[i].busted => HandValue(held.hands[i].cards) > 21
      /\ \A i \in DOMAIN held.hands : i < a => Resolved(held.hands[i])
      /\ OnTable(held, held.cursor) /\ Len(held.dealer) = 2 /\ Backed(held)
      /\ held.status = "ACTIVE" /\ held.hold = "HELD" /\ held.payout = 0
  BY DEF Running, Dealing, HandsInOrder
<1>3. /\ new.cards = IF drawn = 0 THEN old.cards ELSE Append(old.cards, card)
      /\ new.stake = old.stake + extra /\ new.blackjack = old.blackjack
      /\ new.busted => HandValue(new.cards) > 21
      /\ \A i \in DOMAIN held.hands \ {a} : row.hands[i] = held.hands[i]
      /\ row.cursor = held.cursor + drawn /\ row.amount = held.amount + extra /\ row.active = a
      /\ Len(row.hands) = Len(held.hands)
      /\ SameGame(held, row)
  BY DEF HandMoved
<1>4. /\ old.cards \in Seq(Faces) /\ new.cards \in Seq(Faces) /\ Len(old.cards) \in Nat
      /\ old.stake \in Nat /\ new.stake \in Nat
  <2>1. old \in HandRows /\ new \in HandRows
    BY <1>1, <1>2
  <2>2. QED  BY <2>1 DEF HandRows
<1>5. /\ Len(new.cards) = Len(old.cards) + drawn
      /\ CardsIn(new.cards) = CardsIn(old.cards) \cup (IF drawn = 0 THEN {} ELSE {card})
  <2>1. CASE drawn = 0
    BY <1>3, <1>4, <2>1
  <2>2. CASE drawn = 1
    <3>1. card \in Faces
      <4>1. /\ Len(held.deck) \in Nat /\ DOMAIN held.deck = 1..Len(held.deck)
            /\ \A i \in DOMAIN held.deck : held.deck[i] \in Faces
        BY DeckOfGame
      <4>2. held.cursor \in Nat
        BY DEF GameRows
      <4>3. held.cursor + 1 \in DOMAIN held.deck
        BY <2>2, <4>1, <4>2 DEF CardsLeft
      <4>4. QED  BY <4>1, <4>3
    <3> HIDE DEF card
    <3>2. QED  BY <1>3, <1>4, <2>2, <3>1, CardsAppended
  <2>3. QED  BY <2>1, <2>2
<1> HIDE DEF card, old, new, a
<1>6. HandsInOrder(row.hands)
  <2>1. ASSUME NEW i \in DOMAIN row.hands
        PROVE  /\ Len(row.hands[i].cards) >= 2
               /\ row.hands[i].busted => HandValue(row.hands[i].cards) > 21
    <3>1. CASE i = a
      <4>1. row.hands[i] = new /\ Len(old.cards) >= 2
        BY <1>2, <3>1 DEF new, old
      <4>2. Len(new.cards) >= 2
        BY <1>4, <1>5, <4>1
      <4>3. QED  BY <1>3, <4>1, <4>2
    <3>2. CASE i # a
      BY <1>1, <1>2, <1>3, <3>2
    <3>3. QED  BY <3>1, <3>2
  <2>2. QED  BY <1>2, <1>3, <2>1 DEF HandsInOrder
<1>7. HandCards(row.hands) = HandCards(held.hands) \cup (IF drawn = 0 THEN {} ELSE {card})
  <2>1. \A i \in DOMAIN held.hands :
          CardsIn(row.hands[i].cards)
            = CardsIn(held.hands[i].cards) \cup (IF i = a /\ drawn # 0 THEN {card} ELSE {})
    BY <1>3, <1>5 DEF new, old
  <2>2. HandCards(row.hands) = UNION {CardsIn(row.hands[i].cards) : i \in DOMAIN held.hands}
    BY <1>1 DEF HandCards
  <2>3. ASSUME NEW c \in HandCards(row.hands)
        PROVE  c \in HandCards(held.hands) \/ (drawn # 0 /\ c = card)
    <3>1. PICK i \in DOMAIN held.hands : c \in CardsIn(row.hands[i].cards)
      BY <2>2
    <3>2. QED  BY <2>1, <3>1 DEF HandCards
  <2>4. ASSUME NEW c \in HandCards(held.hands) PROVE c \in HandCards(row.hands)
    <3>1. PICK i \in DOMAIN held.hands : c \in CardsIn(held.hands[i].cards)
      BY DEF HandCards
    <3>2. QED  BY <2>1, <2>2, <3>1
  <2>5. ASSUME drawn # 0 PROVE card \in HandCards(row.hands)
    <3>1. card \in CardsIn(row.hands[a].cards)
      BY <1>2, <2>1, <2>5
    <3>2. QED  BY <1>2, <2>2, <3>1
  <2>6. QED  BY <2>3, <2>4, <2>5
<1>8. /\ HandSizes(held.hands) \in Nat /\ HandSizes(row.hands) = HandSizes(held.hands) + drawn
  <2> DEFINE f == [i \in DOMAIN held.hands |-> Len(held.hands[i].cards)]
             g == [i \in DOMAIN held.hands |-> Len(row.hands[i].cards)]
             D == DOMAIN held.hands
  <2>1. ASSUME NEW i \in D PROVE f[i] \in Nat /\ g[i] \in Nat
    <3>1. held.hands[i].cards \in Seq(Faces) /\ row.hands[i].cards \in Seq(Faces)
      BY <1>1 DEF HandRows
    <3>2. QED  BY <3>1
  <2>2. \A i \in D \ {a} : g[i] = f[i]
    BY <1>3
  <2>8. a \in D
    BY <1>2
  <2>3. f[a] = Len(old.cards) /\ g[a] = Len(old.cards) + drawn
    BY <1>2, <1>5 DEF old, new
  <2>4. HandSizes(held.hands) = Total(f, D) /\ HandSizes(row.hands) = Total(g, D)
    BY <1>1 DEF HandSizes
  <2>5. IsFiniteSet(D)
    BY <1>1
  <2> HIDE DEF f, g, D
  <2>6. Total(f, D) \in Nat /\ Total(g, D) \in Nat /\ Total(g, D) + f[a] = Total(f, D) + g[a]
    BY <2>1, <2>2, <2>5, <2>8, TotalChange
  <2>7. \A x, y, z, e \in Nat : y + z = x + (z + e) => y = x + e
    OBVIOUS
  <2>9. Total(g, D) + Len(old.cards) = Total(f, D) + (Len(old.cards) + drawn)
    BY <2>3, <2>6
  <2>10. Total(g, D) = Total(f, D) + drawn
    BY ONLY <1>4, <2>6, <2>7, <2>9, drawn \in Nat
  <2>11. QED  BY <2>4, <2>6, <2>10
<1>9. HandStakes(held.hands) \in Nat /\ HandStakes(row.hands) = HandStakes(held.hands) + extra
  <2> DEFINE f == [i \in DOMAIN held.hands |-> held.hands[i].stake]
             g == [i \in DOMAIN held.hands |-> row.hands[i].stake]
             D == DOMAIN held.hands
  <2>1. \A i \in D : f[i] \in Nat /\ g[i] \in Nat
    BY <1>1 DEF HandRows
  <2>2. \A i \in D \ {a} : g[i] = f[i]
    BY <1>3
  <2>8. a \in D
    BY <1>2
  <2>3. f[a] = old.stake /\ g[a] = old.stake + extra
    BY <1>2, <1>3 DEF old, new
  <2>4. HandStakes(held.hands) = Total(f, D) /\ HandStakes(row.hands) = Total(g, D)
    BY <1>1 DEF HandStakes
  <2>5. IsFiniteSet(D)
    BY <1>1
  <2> HIDE DEF f, g, D
  <2>6. Total(f, D) \in Nat /\ Total(g, D) \in Nat /\ Total(g, D) + f[a] = Total(f, D) + g[a]
    BY <2>1, <2>2, <2>5, <2>8, TotalChange
  <2>7. \A x, y, z, e \in Nat : y + z = x + (z + e) => y = x + e
    OBVIOUS
  <2>9. Total(g, D) + old.stake = Total(f, D) + (old.stake + extra)
    BY <2>3, <2>6
  <2>10. Total(g, D) = Total(f, D) + extra
    BY ONLY <1>4, <2>6, <2>7, <2>9, extra \in Nat
  <2>11. QED  BY <2>4, <2>6, <2>10
<1>10. OnTable(row, row.cursor)
  <2>1. /\ held.cursor \in 1..Len(held.deck)
        /\ HandCards(held.hands) \cup CardsIn(held.dealer) = {held.deck[i] : i \in 1..held.cursor}
        /\ HandSizes(held.hands) + Len(held.dealer) = held.cursor
    BY <1>2 DEF OnTable
  <2>2. Len(held.deck) \in Nat /\ held.cursor \in Nat /\ Len(held.dealer) = 2
    BY <1>2, DeckOfGame DEF GameRows
  <2>3. row.dealer = held.dealer /\ row.deck = held.deck /\ row.cursor = held.cursor + drawn
    BY <1>3 DEF SameGame
  <2>4. row.cursor \in 1..Len(row.deck)
    BY <2>1, <2>2, <2>3 DEF CardsLeft
  <2>5. {held.deck[i] : i \in 1..(held.cursor + drawn)}
          = {held.deck[i] : i \in 1..held.cursor} \cup (IF drawn = 0 THEN {} ELSE {card})
    <3>1. 1..(held.cursor + drawn)
            = 1..held.cursor \cup (IF drawn = 0 THEN {} ELSE {held.cursor + 1})
      BY <2>2
    <3>2. QED  BY <3>1 DEF card
  <2>6. HandCards(row.hands) \cup CardsIn(row.dealer) = {row.deck[i] : i \in 1..row.cursor}
    BY <1>7, <2>1, <2>3, <2>5
  <2>7. HandSizes(row.hands) + Len(row.dealer) = row.cursor
    <3>1. \A x, c, n \in Nat : x + 2 = c => (x + n) + 2 = c + n
      OBVIOUS
    <3>2. HandSizes(held.hands) + 2 = held.cursor
      BY <2>1, <2>2
    <3>3. (HandSizes(held.hands) + drawn) + 2 = held.cursor + drawn
      BY ONLY <1>8, <2>2, <3>1, <3>2, drawn \in Nat
    <3>4. QED  BY <1>8, <2>2, <2>3, <3>3
  <2>8. QED  BY <2>4, <2>6, <2>7 DEF OnTable
<1>11. Backed(row)
  <2>1. /\ held.amount = held.pairs + held.plus3 + held.insurance + HandStakes(held.hands)
        /\ held.pairs \in Nat /\ held.plus3 \in Nat /\ held.insurance \in Nat
    BY <1>2 DEF Backed, GameRows
  <2>2. /\ row.pairs = held.pairs /\ row.plus3 = held.plus3 /\ row.insurance = held.insurance
        /\ row.amount = held.amount + extra
    BY <1>3 DEF SameGame
  <2>3. QED  BY <1>9, <2>1, <2>2 DEF Backed
<1>12. \A i \in DOMAIN row.hands : ~row.hands[i].blackjack
  BY <1>1, <1>2, <1>3 DEF old, new
<1>13. \A i \in DOMAIN row.hands : i < row.active => Resolved(row.hands[i])
  <2>1. \A i \in DOMAIN held.hands : i < a => i # a
    BY <1>1, <1>2
  <2>2. QED  BY <1>1, <1>2, <1>3, <2>1
<1>14. /\ row.active \in DOMAIN row.hands /\ Len(row.dealer) = 2
       /\ row.status = "ACTIVE" /\ row.hold = "HELD" /\ row.payout = 0
  BY <1>1, <1>2, <1>3 DEF SameGame
<1>15. QED  BY <1>6, <1>10, <1>11, <1>12, <1>13, <1>14 DEF Running, Dealing

\* What two rows share beyond SameGame when only hands differ.
SameHands(row, new, i) ==
  /\ Len(new.hands) = Len(row.hands) /\ DOMAIN new.hands = DOMAIN row.hands
  /\ \A j \in DOMAIN row.hands : j # i => new.hands[j] = row.hands[j]

WithHands(held, hands, cursor) == [held EXCEPT !.hands = hands, !.cursor = cursor]

LEMMA RowWithHands ==
  ASSUME NEW held \in GameRows, NEW hands \in Seq(HandRows), NEW cursor \in Nat
  PROVE  WithHands(held, hands, cursor) \in GameRows
BY DEF WithHands, GameRows

LEMMA RowDrawn ==
  ASSUME NEW held \in GameRows, held.active \in DOMAIN held.hands,
         held.deck[held.cursor + 1] \in Faces
  PROVE  LET row == Drawn(held)
             old == held.hands[held.active]
             new == row.hands[held.active]
         IN /\ row \in GameRows /\ SameGame(held, row) /\ row.active = held.active
            /\ row.cursor = held.cursor + 1 /\ row.amount = held.amount
            /\ SameHands(held, row, held.active)
            /\ new.cards = Append(old.cards, held.deck[held.cursor + 1])
            /\ new.stake = old.stake /\ new.blackjack = old.blackjack
<1> DEFINE a == held.active
           old == held.hands[a]
           card == held.deck[held.cursor + 1]
           new == [old EXCEPT !.cards = Append(@, card)]
           hands == [held.hands EXCEPT ![a] = new]
           row == Drawn(held)
<1>1. held.hands \in Seq(HandRows) /\ a \in 1..Len(held.hands) /\ held.cursor \in Nat
  BY DEF GameRows
<1>2. old \in HandRows
  BY <1>1
<1>3. /\ new \in HandRows /\ new.cards = Append(old.cards, card)
      /\ new.stake = old.stake /\ new.blackjack = old.blackjack
  <2>1. old.cards \in Seq(Faces) /\ card \in Faces
    BY <1>2 DEF HandRows
  <2>2. Append(old.cards, card) \in Seq(Faces)
    BY <2>1, AppendProperties
  <2>3. QED  BY <1>2, <2>2 DEF HandRows
<1> HIDE DEF new, old
<1>4. /\ hands \in Seq(HandRows) /\ Len(hands) = Len(held.hands)
      /\ DOMAIN hands = DOMAIN held.hands /\ hands[a] = new
      /\ \A j \in DOMAIN held.hands : j # a => hands[j] = held.hands[j]
  BY <1>1, <1>3
<1>5. row.hands = hands
  BY DEF Drawn, GameRows, new, old
<1> HIDE DEF hands
<1>6. /\ SameGame(held, row) /\ row.active = held.active
      /\ row.cursor = held.cursor + 1 /\ row.amount = held.amount
  BY DEF Drawn, GameRows, SameGame
<1>9. row \in GameRows
  <2>1. row = WithHands(held, row.hands, held.cursor + 1)
    BY DEF Drawn, WithHands, GameRows
  <2>2. row.hands \in Seq(HandRows) /\ held.cursor + 1 \in Nat
    BY <1>1, <1>4, <1>5
  <2>3. WithHands(held, row.hands, held.cursor + 1) \in GameRows
    BY <2>2, RowWithHands
  <2>4. QED  BY <2>1, <2>3
<1> HIDE DEF row
<1>7. SameHands(held, row, a)
  BY <1>4, <1>5 DEF SameHands
<1>8. QED  BY <1>3, <1>4, <1>5, <1>6, <1>7, <1>9 DEF old, row, card

WithHand(row, hand) == [row EXCEPT !.hands[row.active] = hand]

LEMMA HandWritten ==
  ASSUME NEW row \in GameRows, row.active \in DOMAIN row.hands, NEW hand \in HandRows
  PROVE  LET new == WithHand(row, hand)
         IN /\ new \in GameRows /\ SameGame(row, new) /\ new.active = row.active
            /\ new.cursor = row.cursor /\ new.amount = row.amount
            /\ SameHands(row, new, row.active) /\ new.hands[row.active] = hand
<1> DEFINE a == row.active
           hands == [row.hands EXCEPT ![a] = hand]
           new == WithHand(row, hand)
<1>1. row.hands \in Seq(HandRows) /\ a \in 1..Len(row.hands) /\ row.cursor \in Nat
  BY DEF GameRows
<1>2. /\ hands \in Seq(HandRows) /\ Len(hands) = Len(row.hands)
      /\ DOMAIN hands = DOMAIN row.hands /\ hands[a] = hand
      /\ \A j \in DOMAIN row.hands : j # a => hands[j] = row.hands[j]
  BY <1>1
<1>3. new.hands = hands
  BY DEF WithHand, GameRows
<1> HIDE DEF hands
<1>4. /\ SameGame(row, new) /\ new.active = row.active
      /\ new.cursor = row.cursor /\ new.amount = row.amount
  BY DEF WithHand, GameRows, SameGame
<1>5. new \in GameRows
  <2>1. new = WithHands(row, new.hands, row.cursor)
    BY DEF WithHand, WithHands, GameRows
  <2>2. WithHands(row, new.hands, row.cursor) \in GameRows
    BY <1>1, <1>2, <1>3, RowWithHands
  <2>3. QED  BY <2>1, <2>2
<1> HIDE DEF new
<1>6. SameHands(row, new, a) /\ new.hands[a] = hand
  BY <1>2, <1>3 DEF SameHands
<1>7. QED  BY <1>4, <1>5, <1>6 DEF new

\* What hit, stand and double make of the hand that plays.
Busted(row) ==
  [row EXCEPT !.hands[row.active].busted = Bust(row), !.hands[row.active].stood = Bust(row)]

Stood(row) == [row EXCEPT !.hands[row.active].stood = TRUE]

Doubled(row, extra) ==
  [row EXCEPT !.hands[row.active] =
     [row.hands[row.active] EXCEPT !.stake = @ + extra, !.doubled = TRUE, !.stood = TRUE,
                                   !.busted = Bust(row)]]

BustedHand(hand, bust) == [hand EXCEPT !.busted = bust, !.stood = bust]

StoodHand(hand) == [hand EXCEPT !.stood = TRUE]

DoubledHand(hand, extra, bust) ==
  [hand EXCEPT !.stake = @ + extra, !.doubled = TRUE, !.stood = TRUE, !.busted = bust]

LEMMA HandsWritten ==
  ASSUME NEW row \in GameRows, row.active \in DOMAIN row.hands, NEW extra \in Nat
  PROVE  LET old == row.hands[row.active]
         IN /\ Busted(row) = WithHand(row, BustedHand(old, Bust(row)))
            /\ Stood(row) = WithHand(row, StoodHand(old))
            /\ Doubled(row, extra) = WithHand(row, DoubledHand(old, extra, Bust(row)))
<1>1. row.hands \in Seq(HandRows) /\ row.active \in 1..Len(row.hands)
  BY DEF GameRows
<1>2. Stood(row) = WithHand(row, StoodHand(row.hands[row.active]))
  BY DEF Stood, WithHand, StoodHand
<1>3. Doubled(row, extra) = WithHand(row, DoubledHand(row.hands[row.active], extra, Bust(row)))
  BY Zenon DEF Doubled, WithHand, DoubledHand
<1>4. Busted(row) = WithHand(row, BustedHand(row.hands[row.active], Bust(row)))
  <2> DEFINE a == row.active
             old == row.hands[a]
             b == Bust(row)
             one == [row EXCEPT !.hands[a].busted = b]
  <2>1. /\ one.hands = [row.hands EXCEPT ![a] = [old EXCEPT !.busted = b]]
        /\ Busted(row) = [one EXCEPT !.hands = [one.hands EXCEPT ![a] = [@ EXCEPT !.stood = b]]]
    BY DEF GameRows, Busted
  <2> HIDE DEF b
  <2>2. [one.hands EXCEPT ![a] = [@ EXCEPT !.stood = b]]
          = [row.hands EXCEPT ![a] = [old EXCEPT !.busted = b, !.stood = b]]
    BY <1>1, <2>1
  <2>3. QED  BY <2>1, <2>2 DEF GameRows, WithHand, BustedHand, b
<1>5. QED  BY <1>2, <1>3, <1>4

LEMMA HandBusted ==
  ASSUME NEW hand \in HandRows, NEW bust \in BOOLEAN
  PROVE  LET new == BustedHand(hand, bust)
         IN /\ new \in HandRows /\ new.cards = hand.cards /\ new.stake = hand.stake
            /\ new.blackjack = hand.blackjack /\ new.busted = bust
BY DEF HandRows, BustedHand

LEMMA HandStood ==
  ASSUME NEW hand \in HandRows
  PROVE  LET new == StoodHand(hand)
         IN /\ new \in HandRows /\ new.cards = hand.cards /\ new.stake = hand.stake
            /\ new.blackjack = hand.blackjack /\ new.busted = hand.busted
BY DEF HandRows, StoodHand

LEMMA HandDoubled ==
  ASSUME NEW hand \in HandRows, NEW extra \in Nat, NEW bust \in BOOLEAN
  PROVE  LET new == DoubledHand(hand, extra, bust)
         IN /\ new \in HandRows /\ new.cards = hand.cards /\ new.stake = hand.stake + extra
            /\ new.blackjack = hand.blackjack /\ new.busted = bust
<1> DEFINE stake == hand.stake + extra
           new == [hand EXCEPT !.stake = stake, !.doubled = TRUE, !.stood = TRUE, !.busted = bust]
<1>1. stake \in Nat
  BY DEF HandRows
<1> HIDE DEF stake
<1>2. /\ new \in HandRows /\ new.cards = hand.cards /\ new.stake = stake
      /\ new.blackjack = hand.blackjack /\ new.busted = bust
  BY <1>1 DEF HandRows
<1>3. QED  BY <1>2 DEF DoubledHand, stake

\* The stake of a row grows.
RaisedBet(held, extra) == Raised([held EXCEPT !.bet = @ + extra], extra)

LEMMA RowRaised ==
  ASSUME NEW held \in GameRows, NEW extra \in Nat
  PROVE  LET row == RaisedBet(held, extra)
         IN /\ row \in GameRows /\ SameGame(held, row) /\ row.active = held.active
            /\ row.cursor = held.cursor /\ row.amount = held.amount + extra
            /\ row.hands = held.hands
<1> DEFINE bet == held.bet + extra
           staked == held.staked + extra
           amount == held.amount + extra
           row == [held EXCEPT !.bet = bet, !.staked = staked, !.amount = amount]
<1>1. bet \in Nat /\ staked \in Nat /\ amount \in Nat
  BY DEF GameRows
<1> HIDE DEF bet, staked, amount
<1>2. /\ row \in GameRows /\ SameGame(held, row) /\ row.active = held.active
      /\ row.cursor = held.cursor /\ row.amount = amount /\ row.hands = held.hands
  BY <1>1 DEF GameRows, SameGame
<1>3. RaisedBet(held, extra) = row
  BY DEF RaisedBet, Raised, GameRows, bet, staked, amount
<1> HIDE DEF row
<1>4. QED  BY <1>2, <1>3 DEF amount

\* A hit draws a card.
LEMMA HitMoves ==
  ASSUME NEW held \in GameRows, Running(held), CardsLeft(held) > 0
  PROVE  LET row == Busted(Drawn(held))
         IN row \in GameRows /\ Running(row) /\ row.amount = held.amount
<1> DEFINE a == held.active
           mid == Drawn(held)
           hand == BustedHand(mid.hands[a], Bust(mid))
           row == WithHand(mid, hand)
<1>1. a \in DOMAIN held.hands
  BY DEF Running, Dealing
<1>2. held.deck[held.cursor + 1] \in Faces /\ 1 <= CardsLeft(held)
  <2>1. /\ Len(held.deck) \in Nat /\ DOMAIN held.deck = 1..Len(held.deck)
        /\ \A i \in DOMAIN held.deck : held.deck[i] \in Faces /\ held.cursor \in Nat
    BY DeckOfGame DEF GameRows
  <2>2. held.cursor \in Nat
    BY DEF GameRows
  <2>3. held.cursor + 1 \in DOMAIN held.deck /\ 1 <= CardsLeft(held)
    BY <2>1, <2>2 DEF CardsLeft
  <2>4. QED  BY <2>1, <2>3
<1>3. /\ mid \in GameRows /\ SameGame(held, mid) /\ mid.active = a
      /\ mid.cursor = held.cursor + 1 /\ mid.amount = held.amount
      /\ SameHands(held, mid, a)
      /\ mid.hands[a].cards = Append(held.hands[a].cards, held.deck[held.cursor + 1])
      /\ mid.hands[a].stake = held.hands[a].stake
      /\ mid.hands[a].blackjack = held.hands[a].blackjack
  BY <1>1, <1>2, RowDrawn
<1> HIDE DEF mid
<1>4. a \in DOMAIN mid.hands /\ mid.hands[a] \in HandRows
  BY <1>1, <1>3 DEF SameHands, GameRows
<1>5. /\ hand \in HandRows /\ hand.cards = mid.hands[a].cards
      /\ hand.stake = mid.hands[a].stake
      /\ hand.blackjack = mid.hands[a].blackjack /\ hand.busted = Bust(mid)
  <2>1. Bust(mid) \in BOOLEAN
    BY DEF Bust
  <2>2. QED  BY <1>4, <2>1, HandBusted
<1>6. Busted(mid) = row
  BY <1>3, <1>4, HandsWritten
<1> HIDE DEF hand
<1>7. /\ row \in GameRows /\ SameGame(mid, row) /\ row.active = a
      /\ row.cursor = mid.cursor /\ row.amount = mid.amount
      /\ SameHands(mid, row, a) /\ row.hands[a] = hand
  <2>1. mid.active \in DOMAIN mid.hands
    BY <1>3, <1>4
  <2>2. /\ row \in GameRows /\ SameGame(mid, row) /\ row.active = mid.active
        /\ row.cursor = mid.cursor /\ row.amount = mid.amount
        /\ SameHands(mid, row, mid.active) /\ row.hands[mid.active] = hand
    BY <1>3, <1>5, <2>1, HandWritten
  <2>3. QED  BY <1>3, <2>2
<1> HIDE DEF row
<1>8. HandMoved(held, row, 1, 0)
  <2>1. SameGame(held, row) /\ row.active = a /\ row.cursor = held.cursor + 1
    BY <1>3, <1>7 DEF SameGame
  <2>2. row.amount = held.amount + 0
    <3>1. held.amount \in Nat /\ row.amount = held.amount
      BY <1>3, <1>7 DEF GameRows
    <3>2. QED  BY <3>1, PlusZero, Zenon
  <2>3. /\ Len(row.hands) = Len(held.hands)
        /\ \A i \in DOMAIN held.hands : i # a => row.hands[i] = held.hands[i]
    BY <1>3, <1>7 DEF SameHands
  <2>4. /\ row.hands[a].cards = Append(held.hands[a].cards, held.deck[held.cursor + 1])
        /\ row.hands[a].blackjack = held.hands[a].blackjack
    BY <1>3, <1>5, <1>7
  <2>5. row.hands[a].stake = held.hands[a].stake + 0
    <3>1. held.hands[a].stake \in Nat
      <4>1. held.hands[a] \in HandRows
        BY <1>1 DEF GameRows
      <4>2. QED  BY <4>1 DEF HandRows
    <3>2. row.hands[a].stake = held.hands[a].stake
      BY <1>3, <1>5, <1>7
    <3>3. QED  BY <3>1, <3>2, PlusZero, Zenon
  <2>6. row.hands[a].busted => HandValue(row.hands[a].cards) > 21
    BY <1>3, <1>5, <1>7 DEF Bust
  <2>7. QED  BY <2>1, <2>2, <2>3, <2>4, <2>5, <2>6 DEF HandMoved
<1>9. Running(row)
  BY <1>2, <1>7, <1>8, HandMoves
<1>10. QED  BY <1>3, <1>6, <1>7, <1>9 DEF mid

\* A stand draws none.
LEMMA StandMoves ==
  ASSUME NEW held \in GameRows, Running(held)
  PROVE  LET row == Stood(held)
         IN row \in GameRows /\ Running(row) /\ row.amount = held.amount
<1> DEFINE a == held.active
           hand == StoodHand(held.hands[a])
           row == WithHand(held, hand)
<1>1. a \in DOMAIN held.hands /\ held.hands[a] \in HandRows
  BY DEF Running, Dealing, GameRows
<1>2. /\ hand \in HandRows /\ hand.cards = held.hands[a].cards
      /\ hand.stake = held.hands[a].stake
      /\ hand.blackjack = held.hands[a].blackjack /\ hand.busted = held.hands[a].busted
  BY <1>1, HandStood
<1>3. Stood(held) = row
  BY <1>1, HandsWritten
<1> HIDE DEF hand
<1>4. /\ row \in GameRows /\ SameGame(held, row) /\ row.active = a
      /\ row.cursor = held.cursor /\ row.amount = held.amount
      /\ SameHands(held, row, a) /\ row.hands[a] = hand
  BY <1>1, <1>2, HandWritten
<1> HIDE DEF row
<1>5. HandMoved(held, row, 0, 0)
  <2>1. row.amount = held.amount + 0 /\ row.cursor = held.cursor + 0
    <3>1. held.amount \in Nat /\ held.cursor \in Nat
      BY DEF GameRows
    <3>2. row.amount = held.amount /\ row.cursor = held.cursor
      BY <1>4
    <3>3. QED  BY <3>1, <3>2, PlusZero, Zenon
  <2>2. /\ Len(row.hands) = Len(held.hands)
        /\ \A i \in DOMAIN held.hands : i # a => row.hands[i] = held.hands[i]
    BY <1>4 DEF SameHands
  <2>3. row.hands[a].stake = held.hands[a].stake + 0
    <3>1. held.hands[a].stake \in Nat
      BY <1>1 DEF HandRows
    <3>2. row.hands[a].stake = held.hands[a].stake
      BY <1>2, <1>4
    <3>3. QED  BY <3>1, <3>2, PlusZero, Zenon
  <2>4. row.hands[a].busted => HandValue(row.hands[a].cards) > 21
    BY <1>1, <1>2, <1>4 DEF Running, Dealing, HandsInOrder
  <2>5. QED  BY <1>2, <1>4, <2>1, <2>2, <2>3, <2>4 DEF HandMoved
<1>6. 0 <= CardsLeft(held)
  BY DeckOfGame DEF Running, Dealing, OnTable, CardsLeft
<1>7. Running(row)
  BY <1>4, <1>5, <1>6, HandMoves
<1>8. QED  BY <1>3, <1>4, <1>7

\* A double draws a card and doubles the stake.
LEMMA DoubleMoves ==
  ASSUME NEW held \in GameRows, Running(held), CardsLeft(held) > 0
  PROVE  LET extra == held.hands[held.active].stake
             row == Doubled(Drawn(RaisedBet(held, extra)), extra)
         IN extra \in Nat /\ row \in GameRows /\ Running(row) /\ row.amount = held.amount + extra
<1> DEFINE a == held.active
           extra == held.hands[a].stake
           raised == RaisedBet(held, extra)
           mid == Drawn(raised)
           hand == DoubledHand(mid.hands[a], extra, Bust(mid))
           row == WithHand(mid, hand)
<1>1. a \in DOMAIN held.hands /\ extra \in Nat
  <2>1. a \in DOMAIN held.hands /\ held.hands[a] \in HandRows
    BY DEF Running, Dealing, GameRows
  <2>2. QED  BY <2>1 DEF HandRows
<1> HIDE DEF extra
<1>2. held.deck[held.cursor + 1] \in Faces /\ 1 <= CardsLeft(held)
  <2>1. /\ Len(held.deck) \in Nat /\ DOMAIN held.deck = 1..Len(held.deck)
        /\ \A i \in DOMAIN held.deck : held.deck[i] \in Faces /\ held.cursor \in Nat
    BY DeckOfGame DEF GameRows
  <2>2. held.cursor \in Nat
    BY DEF GameRows
  <2>3. held.cursor + 1 \in DOMAIN held.deck /\ 1 <= CardsLeft(held)
    BY <2>1, <2>2 DEF CardsLeft
  <2>4. QED  BY <2>1, <2>3
<1>3. /\ raised \in GameRows /\ SameGame(held, raised) /\ raised.active = a
      /\ raised.cursor = held.cursor /\ raised.amount = held.amount + extra
      /\ raised.hands = held.hands
  BY <1>1, RowRaised
<1> HIDE DEF raised
<1>4. /\ mid \in GameRows /\ SameGame(raised, mid) /\ mid.active = a
      /\ mid.cursor = held.cursor + 1 /\ mid.amount = held.amount + extra
      /\ SameHands(held, mid, a)
      /\ mid.hands[a].cards = Append(held.hands[a].cards, held.deck[held.cursor + 1])
      /\ mid.hands[a].stake = held.hands[a].stake
      /\ mid.hands[a].blackjack = held.hands[a].blackjack
  <2>1. raised.deck = held.deck
    BY <1>3 DEF SameGame
  <2>2. /\ mid \in GameRows /\ SameGame(raised, mid) /\ mid.active = raised.active
        /\ mid.cursor = raised.cursor + 1 /\ mid.amount = raised.amount
        /\ SameHands(raised, mid, a)
        /\ mid.hands[a].cards = Append(raised.hands[a].cards, raised.deck[raised.cursor + 1])
        /\ mid.hands[a].stake = raised.hands[a].stake
        /\ mid.hands[a].blackjack = raised.hands[a].blackjack
    <3>1. /\ raised.active = a /\ raised.active \in DOMAIN raised.hands
          /\ raised.deck[raised.cursor + 1] \in Faces /\ raised \in GameRows
      BY <1>1, <1>2, <1>3, <2>1
    <3>2. /\ mid \in GameRows /\ SameGame(raised, mid) /\ mid.active = raised.active
          /\ mid.cursor = raised.cursor + 1 /\ mid.amount = raised.amount
          /\ SameHands(raised, mid, raised.active)
          /\ mid.hands[raised.active].cards
               = Append(raised.hands[raised.active].cards, raised.deck[raised.cursor + 1])
          /\ mid.hands[raised.active].stake = raised.hands[raised.active].stake
          /\ mid.hands[raised.active].blackjack = raised.hands[raised.active].blackjack
      BY <3>1, RowDrawn
    <3> HIDE DEF mid
    <3>3. QED  BY <3>1, <3>2
  <2> HIDE DEF mid
  <2>3. SameHands(held, mid, a)
    BY <1>3, <2>2 DEF SameHands
  <2>4. QED  BY <1>3, <2>1, <2>2, <2>3
<1> HIDE DEF mid
<1>5. a \in DOMAIN mid.hands /\ mid.hands[a] \in HandRows
  BY <1>1, <1>4 DEF SameHands, GameRows
<1>6. /\ hand \in HandRows /\ hand.cards = mid.hands[a].cards
      /\ hand.stake = mid.hands[a].stake + extra
      /\ hand.blackjack = mid.hands[a].blackjack /\ hand.busted = Bust(mid)
  <2>1. Bust(mid) \in BOOLEAN
    BY DEF Bust
  <2>2. QED  BY <1>1, <1>5, <2>1, HandDoubled
<1>7. Doubled(mid, extra) = row
  BY <1>1, <1>4, <1>5, HandsWritten
<1> HIDE DEF hand
<1>8. /\ row \in GameRows /\ SameGame(mid, row) /\ row.active = a
      /\ row.cursor = mid.cursor /\ row.amount = mid.amount
      /\ SameHands(mid, row, a) /\ row.hands[a] = hand
  <2>1. mid.active \in DOMAIN mid.hands
    BY <1>4, <1>5
  <2>2. /\ row \in GameRows /\ SameGame(mid, row) /\ row.active = mid.active
        /\ row.cursor = mid.cursor /\ row.amount = mid.amount
        /\ SameHands(mid, row, mid.active) /\ row.hands[mid.active] = hand
    BY <1>4, <1>6, <2>1, HandWritten
  <2>3. QED  BY <1>4, <2>2
<1> HIDE DEF row
<1>9. HandMoved(held, row, 1, extra)
  <2>1. /\ SameGame(held, row) /\ row.active = a /\ row.cursor = held.cursor + 1
        /\ row.amount = held.amount + extra
    BY <1>3, <1>4, <1>8 DEF SameGame
  <2>2. /\ Len(row.hands) = Len(held.hands)
        /\ \A i \in DOMAIN held.hands : i # a => row.hands[i] = held.hands[i]
    BY <1>4, <1>8 DEF SameHands
  <2>3. /\ row.hands[a].cards = Append(held.hands[a].cards, held.deck[held.cursor + 1])
        /\ row.hands[a].blackjack = held.hands[a].blackjack
        /\ row.hands[a].stake = held.hands[a].stake + extra
    BY <1>4, <1>6, <1>8
  <2>4. row.hands[a].busted => HandValue(row.hands[a].cards) > 21
    BY <1>4, <1>6, <1>8 DEF Bust
  <2>5. QED  BY <2>1, <2>2, <2>3, <2>4 DEF HandMoved
<1>10. Running(row)
  BY <1>1, <1>2, <1>8, <1>9, HandMoves
<1>11. row.amount = held.amount + extra
  BY <1>4, <1>8
<1>12. QED  BY <1>1, <1>7, <1>8, <1>10, <1>11 DEF mid, raised, extra

\* Insuring a hand, or not, changes what the game costs and no hand.
LEMMA HandsKept ==
  ASSUME NEW held \in GameRows, InPlay(held), NEW row \in GameRows,
         row.hands = held.hands, row.dealer = held.dealer, row.deck = held.deck,
         row.cursor = held.cursor, row.active = held.active, row.status = held.status,
         row.hold = held.hold, row.payout = held.payout, row.pairs = held.pairs,
         row.plus3 = held.plus3, row.amount + held.insurance = held.amount + row.insurance
  PROVE  InPlay(row)
<1>1. OnTable(row, row.cursor)
  <2>1. OnTable(held, held.cursor)
    BY DEF InPlay, Running, Dealing
  <2>2. /\ row.hands = held.hands /\ row.dealer = held.dealer /\ row.deck = held.deck
        /\ row.cursor = held.cursor
    OBVIOUS
  <2>3. QED  BY ONLY <2>1, <2>2 DEF OnTable
<1>2. Backed(row)
  <2>1. /\ held.amount = held.pairs + held.plus3 + held.insurance + HandStakes(held.hands)
        /\ HandStakes(held.hands) \in Nat
    <3>1. /\ IsFiniteSet(DOMAIN held.hands)
          /\ \A i \in DOMAIN held.hands : held.hands[i] \in HandRows
      BY Positions DEF GameRows
    <3>2. \A i \in DOMAIN held.hands :
            [j \in DOMAIN held.hands |-> held.hands[j].stake][i] \in Nat
      BY <3>1 DEF HandRows
    <3>3. QED  BY <3>1, <3>2, TotalType DEF HandStakes, InPlay, Running, Dealing, Backed
  <2>2. /\ held.pairs \in Nat /\ held.plus3 \in Nat /\ held.insurance \in Nat
        /\ row.insurance \in Nat /\ row.amount \in Nat /\ held.amount \in Nat
    BY DEF GameRows
  <2>3. PICK amount \in Nat : amount = row.amount
    BY <2>2
  <2>4. amount + held.insurance = held.amount + row.insurance
    BY <2>3
  <2>5. amount = held.pairs + held.plus3 + row.insurance + HandStakes(held.hands)
    BY ONLY <2>1, <2>2, <2>4, amount \in Nat
  <2>6. QED  BY <2>3, <2>5 DEF Backed
<1>3. QED  BY <1>1, <1>2 DEF InPlay, Running, Dealing

Insured(held, extra) ==
  [Raised(held, extra) EXCEPT !.insurance = extra, !.canInsurance = FALSE]

LEMMA InsureMoves ==
  ASSUME NEW held \in GameRows, InPlay(held), held.insurance = 0
  PROVE  LET extra == held.bet \div 2
             row == Insured(held, extra)
         IN extra \in Nat /\ row \in GameRows /\ InPlay(row) /\ row.amount = held.amount + extra
<1> DEFINE extra == held.bet \div 2
           staked == held.staked + extra
           amount == held.amount + extra
           row == [held EXCEPT !.staked = staked, !.amount = amount, !.insurance = extra,
                               !.canInsurance = FALSE]
<1>1. extra \in Nat
  <2>1. \A n \in Nat : n \div 2 \in Nat
    OBVIOUS
  <2>2. QED  BY <2>1 DEF GameRows
<1> HIDE DEF extra
<1>2. staked \in Nat /\ amount \in Nat
  BY <1>1 DEF GameRows
<1> HIDE DEF staked, amount
<1>3. /\ row \in GameRows /\ row.hands = held.hands /\ row.dealer = held.dealer
      /\ row.deck = held.deck /\ row.cursor = held.cursor /\ row.active = held.active
      /\ row.status = held.status /\ row.hold = held.hold /\ row.payout = held.payout
      /\ row.pairs = held.pairs /\ row.plus3 = held.plus3 /\ row.amount = amount
      /\ row.insurance = extra
  BY <1>1, <1>2 DEF GameRows
<1>4. Insured(held, extra) = row
  BY DEF Insured, Raised, GameRows, staked, amount
<1> HIDE DEF row
<1>5. row.amount + held.insurance = held.amount + row.insurance
  <2>1. held.amount \in Nat
    BY DEF GameRows
  <2>2. amount + 0 = held.amount + extra
    BY <1>1, <2>1 DEF amount
  <2>3. QED  BY <1>3, <2>2
<1>6. InPlay(row)
  BY <1>3, <1>5, HandsKept
<1>7. QED  BY <1>1, <1>3, <1>4, <1>6 DEF amount, extra

Declined(held) == [held EXCEPT !.canInsurance = FALSE]

LEMMA DeclineMoves ==
  ASSUME NEW held \in GameRows, InPlay(held)
  PROVE  LET row == Declined(held)
         IN row \in GameRows /\ InPlay(row) /\ row.amount = held.amount
<1> DEFINE row == Declined(held)
<1>1. /\ row \in GameRows /\ row.hands = held.hands /\ row.dealer = held.dealer
      /\ row.deck = held.deck /\ row.cursor = held.cursor /\ row.active = held.active
      /\ row.status = held.status /\ row.hold = held.hold /\ row.payout = held.payout
      /\ row.pairs = held.pairs /\ row.plus3 = held.plus3 /\ row.amount = held.amount
      /\ row.insurance = held.insurance
  BY DEF GameRows, Declined
<1> HIDE DEF row
<1>2. InPlay(row)
  BY <1>1, HandsKept
<1>3. QED  BY <1>1, <1>2 DEF row

LEMMA TotalFew ==
  ASSUME NEW f
  PROVE  /\ f[1] \in Nat => Total(f, {1}) = f[1]
         /\ f[1] \in Nat /\ f[2] \in Nat => Total(f, {1, 2}) = f[1] + f[2]
<1>1. IsFiniteSet({}) /\ Total(f, {}) = 0
  BY FS_EmptySet, TotalOfNothing
<1>2. ASSUME f[1] \in Nat PROVE IsFiniteSet({1}) /\ Total(f, {1}) = f[1]
  <2>1. Total(f, {} \cup {1}) = Total(f, {}) + f[1]
    BY <1>1, <1>2, TotalAdd
  <2>2. {} \cup {1} = {1}
    OBVIOUS
  <2>3. Total(f, {1}) = 0 + f[1]
    BY <1>1, <2>1, <2>2, Zenon
  <2>4. IsFiniteSet({1})
    BY FS_Singleton
  <2>5. QED  BY <1>2, <2>3, <2>4
<1>3. ASSUME f[1] \in Nat, f[2] \in Nat PROVE Total(f, {1, 2}) = f[1] + f[2]
  <2>1. Total(f, {1} \cup {2}) = Total(f, {1}) + f[2]
    <3>1. 2 \notin {1} /\ \A s \in {1} \cup {2} : f[s] \in Nat
      BY <1>3
    <3>2. QED  BY <1>2, <1>3, <3>1, TotalAdd
  <2>2. {1} \cup {2} = {1, 2}
    OBVIOUS
  <2>3. Total(f, {1, 2}) = Total(f, {1}) + f[2]
    BY <2>1, <2>2, Zenon
  <2>4. QED  BY <1>2, <1>3, <2>3
<1>4. QED  BY <1>2, <1>3

RaisedSplit(held, extra) == Raised([held EXCEPT !.bet = @ + extra, !.canSplit = FALSE], extra)

Halved(row, one, two) == [row EXCEPT !.hands = <<one, two>>, !.cursor = @ + 2]

LEMMA RowRaisedSplit ==
  ASSUME NEW held \in GameRows, NEW extra \in Nat
  PROVE  LET row == RaisedSplit(held, extra)
         IN /\ row \in GameRows /\ SameGame(held, row) /\ row.active = held.active
            /\ row.cursor = held.cursor /\ row.amount = held.amount + extra
            /\ row.hands = held.hands
<1> DEFINE bet == held.bet + extra
           staked == held.staked + extra
           amount == held.amount + extra
           row == [held EXCEPT !.bet = bet, !.canSplit = FALSE, !.staked = staked,
                               !.amount = amount]
<1>1. bet \in Nat /\ staked \in Nat /\ amount \in Nat
  BY DEF GameRows
<1> HIDE DEF bet, staked, amount
<1>2. /\ row \in GameRows /\ SameGame(held, row) /\ row.active = held.active
      /\ row.cursor = held.cursor /\ row.amount = amount /\ row.hands = held.hands
  BY <1>1 DEF GameRows, SameGame
<1>3. RaisedSplit(held, extra) = row
  BY DEF RaisedSplit, Raised, GameRows, bet, staked, amount
<1> HIDE DEF row
<1>4. QED  BY <1>2, <1>3 DEF amount

LEMMA RowHalved ==
  ASSUME NEW held \in GameRows, NEW one \in HandRows, NEW two \in HandRows
  PROVE  LET row == Halved(held, one, two)
         IN /\ row \in GameRows /\ SameGame(held, row) /\ row.active = held.active
            /\ row.cursor = held.cursor + 2 /\ row.amount = held.amount
            /\ row.hands = <<one, two>>
<1> DEFINE cursor == held.cursor + 2
           hands == <<one, two>>
           row == WithHands(held, hands, cursor)
<1>1. cursor \in Nat /\ hands \in Seq(HandRows)
  BY DEF GameRows
<1> HIDE DEF cursor, hands
<1>2. /\ SameGame(held, row) /\ row.active = held.active
      /\ row.cursor = cursor /\ row.amount = held.amount /\ row.hands = hands
  BY DEF WithHands, GameRows, SameGame
<1>3. row \in GameRows
  BY <1>1, RowWithHands
<1>4. Halved(held, one, two) = row
  BY DEF Halved, WithHands, GameRows, cursor, hands
<1> HIDE DEF row
<1>5. QED  BY <1>2, <1>3, <1>4 DEF cursor, hands

\* A hand of two cards.
Pair(x, y, stake) == Hand(<<x, y>>, stake)

LEMMA FreshHand ==
  ASSUME NEW x \in Faces, NEW y \in Faces, NEW stake \in Nat
  PROVE  LET hand == Pair(x, y, stake)
         IN /\ hand \in HandRows /\ hand.stake = stake /\ Len(hand.cards) = 2
            /\ CardsIn(hand.cards) = {x, y} /\ ~hand.busted /\ ~hand.blackjack /\ ~Resolved(hand)
<1> DEFINE hand == Pair(x, y, stake)
<1>1. <<x, y>> \in Seq(Faces) /\ Len(<<x, y>>) = 2 /\ DOMAIN <<x, y>> = {1, 2}
      /\ <<x, y>>[1] = x /\ <<x, y>>[2] = y
  OBVIOUS
<1>2. hand \in HandRows /\ hand.cards = <<x, y>>
  BY <1>1 DEF Pair, Hand, HandRows
<1>3. CardsIn(<<x, y>>) = {x, y}
  BY <1>1 DEF CardsIn
<1>4. hand.stake = stake /\ ~hand.busted /\ ~hand.blackjack /\ ~Resolved(hand)
  BY DEF Pair, Hand, Resolved
<1> HIDE DEF hand
<1>5. QED  BY <1>1, <1>2, <1>3, <1>4 DEF hand

\* A split deals a card to each half of the pair.
LEMMA SplitMoves ==
  ASSUME NEW held \in GameRows, InPlay(held), Len(held.hands) = 1,
         Len(held.hands[held.active].cards) = 2, CardsLeft(held) > 1
  PROVE  LET old == held.hands[held.active]
             raised == RaisedSplit(held, old.stake)
             half(i) == Hand(<<old.cards[i], raised.deck[raised.cursor + i]>>, old.stake)
             row == Halved(raised, half(1), half(2))
         IN /\ old.stake \in Nat /\ row \in GameRows /\ Running(row)
            /\ row.amount = held.amount + old.stake
<1> DEFINE old == held.hands[held.active]
           extra == old.stake
           raised == RaisedSplit(held, extra)
           c1 == old.cards[1]
           c2 == old.cards[2]
           d1 == held.deck[held.cursor + 1]
           d2 == held.deck[held.cursor + 2]
           one == Pair(c1, d1, extra)
           two == Pair(c2, d2, extra)
           row == Halved(raised, one, two)
<1>1. /\ held.hands \in Seq(HandRows) /\ DOMAIN held.hands = {1} /\ held.active = 1
      /\ Len(held.dealer) = 2 /\ OnTable(held, held.cursor) /\ Backed(held)
      /\ held.status = "ACTIVE" /\ held.hold = "HELD" /\ held.payout = 0
  BY DEF GameRows, InPlay, Running, Dealing
<1>2. old \in HandRows /\ old = held.hands[1] /\ extra \in Nat
  <2>1. old \in HandRows /\ old = held.hands[1]
    BY <1>1
  <2>2. QED  BY <2>1 DEF HandRows
<1>3. DOMAIN old.cards = {1, 2} /\ c1 \in Faces /\ c2 \in Faces
  <2>1. old.cards \in Seq(Faces) /\ Len(old.cards) = 2
    BY <1>2 DEF HandRows
  <2> HIDE DEF old
  <2>2. QED  BY <2>1
<1>4. d1 \in Faces /\ d2 \in Faces /\ held.cursor \in Nat /\ held.cursor + 2 <= Len(held.deck)
      /\ Len(held.deck) \in Nat
  <2>1. /\ Len(held.deck) \in Nat /\ DOMAIN held.deck = 1..Len(held.deck)
        /\ \A i \in DOMAIN held.deck : held.deck[i] \in Faces
    BY DeckOfGame
  <2>2. held.cursor \in Nat
    BY DEF GameRows
  <2>3. /\ held.cursor + 1 \in DOMAIN held.deck /\ held.cursor + 2 \in DOMAIN held.deck
        /\ held.cursor + 2 <= Len(held.deck)
    BY <2>1, <2>2 DEF CardsLeft
  <2>4. QED  BY <2>1, <2>2, <2>3
<1> HIDE DEF old, extra, c1, c2, d1, d2
<1>5. /\ one \in HandRows /\ one.stake = extra /\ Len(one.cards) = 2
      /\ CardsIn(one.cards) = {c1, d1} /\ ~one.busted /\ ~one.blackjack
  <2>1. PICK x \in Faces, y \in Faces, stake \in Nat : x = c1 /\ y = d1 /\ stake = extra
    BY <1>2, <1>3, <1>4
  <2>2. LET hand == Pair(x, y, stake)
        IN /\ hand \in HandRows /\ hand.stake = stake /\ Len(hand.cards) = 2
           /\ CardsIn(hand.cards) = {x, y} /\ ~hand.busted /\ ~hand.blackjack
    BY FreshHand
  <2>3. QED  BY <2>1, <2>2
<1>6. /\ two \in HandRows /\ two.stake = extra /\ Len(two.cards) = 2
      /\ CardsIn(two.cards) = {c2, d2} /\ ~two.busted /\ ~two.blackjack
  <2>1. PICK x \in Faces, y \in Faces, stake \in Nat : x = c2 /\ y = d2 /\ stake = extra
    BY <1>2, <1>3, <1>4
  <2>2. LET hand == Pair(x, y, stake)
        IN /\ hand \in HandRows /\ hand.stake = stake /\ Len(hand.cards) = 2
           /\ CardsIn(hand.cards) = {x, y} /\ ~hand.busted /\ ~hand.blackjack
    BY FreshHand
  <2>3. QED  BY <2>1, <2>2
<1>7. /\ raised \in GameRows /\ SameGame(held, raised) /\ raised.active = held.active
      /\ raised.cursor = held.cursor /\ raised.amount = held.amount + extra
  BY <1>2, RowRaisedSplit
<1> HIDE DEF one, two, raised
<1>8. /\ row \in GameRows /\ SameGame(raised, row) /\ row.active = raised.active
      /\ row.cursor = raised.cursor + 2 /\ row.amount = raised.amount
      /\ row.hands = <<one, two>>
  BY <1>5, <1>6, <1>7, RowHalved
<1> HIDE DEF row
<1>9. /\ DOMAIN row.hands = {1, 2} /\ Len(row.hands) = 2
      /\ row.hands[1] = one /\ row.hands[2] = two
  BY <1>8
<1>10. /\ SameGame(held, row) /\ row.active = 1 /\ row.cursor = held.cursor + 2
       /\ row.amount = held.amount + extra
  BY <1>1, <1>7, <1>8 DEF SameGame
<1>11. HandCards(row.hands) = {c1, c2, d1, d2} /\ HandCards(held.hands) = {c1, c2}
  <2>1. CardsIn(old.cards) = {c1, c2}
    BY <1>3 DEF CardsIn, c1, c2
  <2>2. HandCards(held.hands) = CardsIn(old.cards)
    BY <1>1, <1>2 DEF HandCards
  <2>3. HandCards(row.hands) = CardsIn(one.cards) \cup CardsIn(two.cards)
    BY <1>9 DEF HandCards
  <2>4. QED  BY <1>5, <1>6, <2>1, <2>2, <2>3
<1>12. HandSizes(row.hands) = 4 /\ HandSizes(held.hands) = 2
  <2> DEFINE f == [i \in DOMAIN held.hands |-> Len(held.hands[i].cards)]
             h == [i \in DOMAIN row.hands |-> Len(row.hands[i].cards)]
  <2>1. f[1] = 2 /\ h[1] = 2 /\ h[2] = 2
    BY <1>1, <1>5, <1>6, <1>9
  <2>2. HandSizes(held.hands) = Total(f, {1}) /\ HandSizes(row.hands) = Total(h, {1, 2})
    BY <1>1, <1>9 DEF HandSizes
  <2> HIDE DEF f, h
  <2>3. Total(f, {1}) = 2 /\ Total(h, {1, 2}) = 2 + 2
    BY <2>1, TotalFew
  <2>4. QED  BY <2>2, <2>3
<1>13. HandStakes(held.hands) = extra /\ HandStakes(row.hands) = extra + extra
  <2> DEFINE f == [i \in DOMAIN held.hands |-> held.hands[i].stake]
             h == [i \in DOMAIN row.hands |-> row.hands[i].stake]
  <2>1. f[1] = extra /\ h[1] = extra /\ h[2] = extra
    BY <1>1, <1>2, <1>5, <1>6, <1>9 DEF extra
  <2>2. HandStakes(held.hands) = Total(f, {1}) /\ HandStakes(row.hands) = Total(h, {1, 2})
    BY <1>1, <1>9 DEF HandStakes
  <2> HIDE DEF f, h
  <2>3. Total(f, {1}) = extra /\ Total(h, {1, 2}) = extra + extra
    BY <1>2, <2>1, TotalFew
  <2>4. QED  BY <2>2, <2>3
<1>14. HandsInOrder(row.hands)
  BY <1>5, <1>6, <1>9 DEF HandsInOrder
<1>15. OnTable(row, row.cursor)
  <2>1. /\ held.cursor \in 1..Len(held.deck)
        /\ HandCards(held.hands) \cup CardsIn(held.dealer) = {held.deck[i] : i \in 1..held.cursor}
        /\ HandSizes(held.hands) + 2 = held.cursor
    BY <1>1 DEF OnTable
  <2>2. row.dealer = held.dealer /\ row.deck = held.deck
    BY <1>10 DEF SameGame
  <2>3. row.cursor \in 1..Len(row.deck)
    BY <1>4, <1>10, <2>2
  <2>4. {held.deck[i] : i \in 1..(held.cursor + 2)}
          = {held.deck[i] : i \in 1..held.cursor} \cup {d1, d2}
    <3>1. 1..(held.cursor + 2) = 1..held.cursor \cup {held.cursor + 1, held.cursor + 2}
      BY <1>4
    <3>2. QED  BY <3>1 DEF d1, d2
  <2>5. HandCards(row.hands) \cup CardsIn(row.dealer) = {row.deck[i] : i \in 1..row.cursor}
    BY <1>10, <1>11, <2>1, <2>2, <2>4
  <2>6. HandSizes(row.hands) + Len(row.dealer) = row.cursor
    <3>1. Len(row.dealer) = 2 /\ held.cursor = 4 /\ row.cursor = 6
      BY <1>1, <1>4, <1>10, <1>12, <2>1, <2>2
    <3>2. QED  BY <1>12, <3>1
  <2>7. QED  BY <2>3, <2>5, <2>6 DEF OnTable
<1>16. Backed(row)
  <2>1. /\ held.amount = held.pairs + held.plus3 + held.insurance + HandStakes(held.hands)
        /\ held.pairs \in Nat /\ held.plus3 \in Nat /\ held.insurance \in Nat
    BY <1>1 DEF Backed, GameRows
  <2>2. row.pairs = held.pairs /\ row.plus3 = held.plus3 /\ row.insurance = held.insurance
    BY <1>10 DEF SameGame
  <2>3. QED  BY <1>2, <1>10, <1>13, <2>1, <2>2 DEF Backed
<1>17. Running(row)
  BY <1>1, <1>5, <1>6, <1>8, <1>9, <1>10, <1>14, <1>15, <1>16
     DEF Running, Dealing, SameGame
<1>18. raised.deck = held.deck
  BY <1>7 DEF SameGame
<1>19. QED  BY <1>2, <1>7, <1>8, <1>10, <1>17, <1>18
            DEF old, extra, one, two, raised, row, c1, c2, d1, d2, Pair

LEMMA TwoCards ==
  ASSUME NEW deck \in Seq(Faces), NEW n \in Nat, n >= 1, n + 1 <= Len(deck)
  PROVE  /\ SubSeq(deck, n, n + 1) \in Seq(Faces) /\ Len(SubSeq(deck, n, n + 1)) = 2
         /\ DOMAIN SubSeq(deck, n, n + 1) = {1, 2}
         /\ CardsIn(SubSeq(deck, n, n + 1)) = {deck[n], deck[n + 1]}
<1> DEFINE two == SubSeq(deck, n, n + 1)
           hi == n + 1
<1>1. hi \in Int /\ n \in Int /\ n <= hi /\ hi - n + 1 = 2 /\ n + 1 - 1 = n /\ n + 2 - 1 = hi
  OBVIOUS
<1>2. \A i \in n..hi : deck[i] \in Faces
  <2>1. DOMAIN deck = 1..Len(deck) /\ Len(deck) \in Nat /\ \A i \in DOMAIN deck : deck[i] \in Faces
    BY Positions
  <2>2. QED  BY <2>1
<1> HIDE DEF hi
<1>3. /\ SubSeq(deck, n, hi) \in Seq(Faces)
      /\ Len(SubSeq(deck, n, hi)) = IF n <= hi THEN hi - n + 1 ELSE 0
      /\ \A i \in 1..(hi - n + 1) : SubSeq(deck, n, hi)[i] = deck[n + i - 1]
  BY <1>1, <1>2, SubSeqProperties
<1>4. two = SubSeq(deck, n, hi)
  BY DEF hi
<1> HIDE DEF two
<1>5. two \in Seq(Faces) /\ Len(two) = 2 /\ two[1] = deck[n] /\ two[2] = deck[hi]
  BY <1>1, <1>3, <1>4
<1>6. DOMAIN two = {1, 2}
  BY <1>5
<1>7. CardsIn(two) = {deck[n], deck[hi]}
  BY <1>5, <1>6 DEF CardsIn
<1>8. QED  BY <1>5, <1>6, <1>7 DEF two, hi

\* A start deals a game, which is in play unless the player has a natural.
LEMMA DealMoves ==
  ASSUME NEW key \in Keys, NEW deck \in Decks, NEW bet \in Nat, NEW side \in Nat \X Nat
  PROVE  LET row == Dealt(key, deck, bet, side)
         IN row \in GameRows /\ Dealing(row) /\ (~row.hands[1].blackjack => InPlay(row))
<1> DEFINE cards == SubSeq(deck, 1, 2)
           dealer == SubSeq(deck, 3, 4)
           natural == IsNatural(cards)
           total == bet + side[1] + side[2]
           hand == [Hand(cards, bet) EXCEPT !.blackjack = natural]
           hands == <<hand>>
           row == Dealt(key, deck, bet, side)
<1>1. /\ deck \in Seq(Faces) /\ Len(deck) \in Nat /\ Len(deck) >= 4
      /\ side[1] \in Nat /\ side[2] \in Nat /\ total \in Nat
  BY BlackjackAssumption
<1>2. /\ cards \in Seq(Faces) /\ Len(cards) = 2 /\ DOMAIN cards = {1, 2}
      /\ CardsIn(cards) = {deck[1], deck[2]}
  <2>1. 1 + 1 = 2 /\ 1 >= 1 /\ 1 + 1 <= Len(deck)
    BY <1>1
  <2>2. /\ SubSeq(deck, 1, 1 + 1) \in Seq(Faces) /\ Len(SubSeq(deck, 1, 1 + 1)) = 2
        /\ DOMAIN SubSeq(deck, 1, 1 + 1) = {1, 2}
        /\ CardsIn(SubSeq(deck, 1, 1 + 1)) = {deck[1], deck[1 + 1]}
    BY <1>1, <2>1, TwoCards
  <2>3. QED  BY <2>2
<1>3. /\ dealer \in Seq(Faces) /\ Len(dealer) = 2 /\ CardsIn(dealer) = {deck[3], deck[4]}
  <2>1. 3 + 1 = 4 /\ 3 >= 1 /\ 3 + 1 <= Len(deck)
    BY <1>1
  <2>2. /\ SubSeq(deck, 3, 3 + 1) \in Seq(Faces) /\ Len(SubSeq(deck, 3, 3 + 1)) = 2
        /\ CardsIn(SubSeq(deck, 3, 3 + 1)) = {deck[3], deck[3 + 1]}
    BY <1>1, <2>1, TwoCards
  <2>3. QED  BY <2>2
<1>4. natural \in BOOLEAN /\ IsPair(cards) \in BOOLEAN
  BY DEF IsNatural, IsPair
<1> HIDE DEF cards, dealer, natural, total
<1>5. /\ hand \in HandRows /\ hand.cards = cards /\ hand.stake = bet /\ ~hand.busted
      /\ hand.blackjack = natural /\ ~Resolved(hand)
  BY <1>2, <1>4 DEF Hand, HandRows, Resolved
<1> HIDE DEF hand
<1>6. hands \in Seq(HandRows) /\ DOMAIN hands = {1} /\ Len(hands) = 1 /\ hands[1] = hand
  BY <1>5
<1> HIDE DEF hands
<1>7. /\ row = [status |-> "ACTIVE", key |-> key, bet |-> bet, pairs |-> side[1], plus3 |-> side[2],
                insurance |-> 0, staked |-> total, hold |-> "HELD", amount |-> total,
                canSplit |-> IsPair(cards), canInsurance |-> deck[3].rank = 1,
                hands |-> hands, active |-> 1,
                dealer |-> dealer, deck |-> deck, cursor |-> 4, payout |-> 0]
  BY DEF Dealt, total, cards, dealer, hands, hand, natural
<1> HIDE DEF row
<1>8. row \in GameRows
  BY <1>1, <1>3, <1>4, <1>6, <1>7 DEF GameRows
<1>9. /\ row.hands = hands /\ row.dealer = dealer /\ row.deck = deck /\ row.cursor = 4
      /\ row.status = "ACTIVE" /\ row.hold = "HELD" /\ row.payout = 0 /\ row.active = 1
      /\ row.amount = total /\ row.pairs = side[1] /\ row.plus3 = side[2] /\ row.insurance = 0
  BY <1>7
<1>10. HandsInOrder(hands)
  <2>1. ASSUME NEW i \in DOMAIN hands PROVE Len(hands[i].cards) >= 2 /\ ~hands[i].busted
    <3>1. hands[i] = hand
      BY <1>6
    <3>2. Len(hand.cards) = 2
      BY <1>2, <1>5, Zenon
    <3>3. ~hand.busted
      BY <1>5
    <3>4. QED  BY <3>1, <3>2, <3>3
  <2>2. QED  BY <1>6, <2>1 DEF HandsInOrder
<1>11. OnTable(row, row.cursor)
  <2>1. HandCards(hands) = {deck[1], deck[2]}
    BY <1>2, <1>5, <1>6 DEF HandCards
  <2>2. HandSizes(hands) = 2
    <3> DEFINE f == [i \in DOMAIN hands |-> Len(hands[i].cards)]
    <3>1. f[1] = 2 /\ HandSizes(hands) = Total(f, {1})
      BY <1>2, <1>5, <1>6 DEF HandSizes
    <3> HIDE DEF f
    <3>2. QED  BY <3>1, TotalFew
  <2>3. {deck[i] : i \in 1..4} = {deck[1], deck[2], deck[3], deck[4]}
    <3>1. 1..4 = {1, 2, 3, 4}
      OBVIOUS
    <3>2. QED  BY <3>1
  <2>4. HandCards(hands) \cup CardsIn(dealer) = {deck[i] : i \in 1..4}
    BY <1>3, <2>1, <2>3
  <2>5. HandSizes(hands) + Len(dealer) = 4 /\ 4 \in 1..Len(deck)
    BY <1>1, <1>3, <2>2
  <2>6. QED  BY <1>9, <2>4, <2>5 DEF OnTable
<1>12. Backed(row)
  <2>1. HandStakes(hands) = bet
    <3> DEFINE f == [i \in DOMAIN hands |-> hands[i].stake]
    <3>1. f[1] = bet /\ HandStakes(hands) = Total(f, {1})
      BY <1>5, <1>6 DEF HandStakes
    <3> HIDE DEF f
    <3>2. QED  BY <3>1, TotalFew
  <2>2. total = side[1] + side[2] + 0 + bet
    BY <1>1 DEF total
  <2>3. QED  BY <1>9, <2>1, <2>2 DEF Backed
<1>13. Dealing(row)
  BY <1>3, <1>6, <1>8, <1>9, <1>10, <1>11, <1>12 DEF Dealing
<1>14. row.hands[1].blackjack = natural
  BY <1>5, <1>6, <1>9
<1>15. ASSUME ~natural PROVE InPlay(row)
  <2>1. \A i \in DOMAIN row.hands : i = 1
    BY <1>6, <1>9
  <2>2. QED  BY <1>5, <1>6, <1>9, <1>13, <1>15, <2>1 DEF InPlay, Running
<1>16. QED  BY <1>8, <1>13, <1>14, <1>15 DEF row

-----------------------------------------------------------------------------
(***************************************************************************)
(* The end of a transaction that writes the row of a game.                 *)
(***************************************************************************)

\* The funds after a transaction has debited what row costs more than held.
FundsOf(funds, held, row) ==
  /\ funds \in [balance : Nat, locked : Nat]
  /\ funds.locked + held.amount = wallet.locked + row.amount
  /\ funds.balance + row.amount = wallet.balance + held.amount

HoldRows(g, rows) == \A x \in rows : x.game = g /\ x.reason = "BET_HOLD"

LEMMA InPlayIs ==
  ASSUME NEW row, Running(row)
  PROVE  /\ row \in GameRows /\ row.hold = "HELD" /\ row.payout = 0 /\ row.amount \in Nat
         /\ Share(row, "HELD") = row.amount /\ row.status = "ACTIVE"
         /\ ~row.hands[1].blackjack /\ 1 \in DOMAIN row.hands
<1>1. row \in GameRows /\ row.hold = "HELD" /\ row.payout = 0 /\ row.status = "ACTIVE"
  BY DEF Running, Dealing
<1>2. 1 \in DOMAIN row.hands
  BY DEF Running, Dealing, HandsInOrder, GameRows
<1>3. ~row.hands[1].blackjack
  BY <1>2 DEF Running
<1>4. QED  BY <1>1, <1>2, <1>3 DEF GameRows, Share

\* Nothing was paid or captured for a game in play.
LEMMA NothingPaid ==
  ASSUME IInv, NEW g \in Games, game[g] = NoGame \/ InPlay(game[g])
  PROVE  RowsOf(g, "BET_PAYOUT") = {} /\ RowsOf(g, "BET_CAPTURE") = {}
<1>1. game[g].payout = 0 /\ game[g].hold # "CAPTURED"
  BY InPlayIs DEF InPlay, NoGame
<1>2. PayoutRows(g, game[g].payout) = {}
  BY <1>1 DEF PayoutRows
<1>3. QED  BY <1>1, <1>2 DEF IInv, RowsInOrder

LEMMA GoesOn ==
  ASSUME IInv, NEW g \in Games, InPlay(game[g]), NEW row, InPlay(row), NEW funds,
         FundsOf(funds, game[g], row), NEW rows, HoldRows(g, rows),
         Continue(g, row, funds, rows), UNCHANGED req
  PROVE  IInv'
<1>1. /\ game[g].payout = 0 /\ game[g].amount \in Nat
      /\ Share(game[g], "HELD") = game[g].amount
      /\ row.hold = "HELD" /\ row.payout = 0 /\ row.amount \in Nat
      /\ Share(row, "HELD") = row.amount
  BY InPlayIs DEF InPlay
<1>2. game' = [game EXCEPT ![g] = row] /\ wallet' = funds /\ posted' = posted \cup rows
  BY DEF Continue
<1>3. wallet' \in [balance : Nat, locked : Nat]
  BY <1>2 DEF FundsOf
<1>4. wallet'.locked + Share(game[g], "HELD") = wallet.locked + Share(row, "HELD")
  BY <1>1, <1>2 DEF FundsOf
<1>5. wallet'.balance + row.amount + game[g].payout = wallet.balance + game[g].amount + row.payout
  BY <1>1, <1>2 DEF FundsOf, IInv, WalletInOrder
<1>6. RowsOf(g, "BET_PAYOUT") \cup {x \in rows : x.reason = "BET_PAYOUT"}
        = PayoutRows(g, row.payout)
  <2>1. {x \in rows : x.reason = "BET_PAYOUT"} = {}
    BY DEF HoldRows
  <2>2. PayoutRows(g, row.payout) = {}
    BY <1>1 DEF PayoutRows
  <2>3. QED  BY <2>1, <2>2, NothingPaid
<1>7. RowsOf(g, "BET_CAPTURE") \cup {x \in rows : x.reason = "BET_CAPTURE"}
        = IF row.hold = "CAPTURED"
            THEN {Row(<<g, "capture">>, "BET_CAPTURE", g, row.amount)} ELSE {}
  <2>1. {x \in rows : x.reason = "BET_CAPTURE"} = {}
    BY DEF HoldRows
  <2>2. QED  BY <1>1, <2>1, NothingPaid
<1>8. \A x \in rows : x.game = g
  BY DEF HoldRows
<1>9. req' \in [Requests -> Keys \cup {NoKey}]
  BY DEF IInv
<1>10. QED  BY <1>2, <1>3, <1>4, <1>5, <1>6, <1>7, <1>8, <1>9, Written

LEMMA Finishes ==
  ASSUME IInv, NEW g \in Games, InPlay(game[g]), NEW row, Running(row), NEW funds,
         FundsOf(funds, game[g], row), NEW rows, HoldRows(g, rows),
         Finish(g, row, funds, rows), UNCHANGED req
  PROVE  IInv'
<1>1. /\ game[g].payout = 0 /\ game[g].amount \in Nat
      /\ Share(game[g], "HELD") = game[g].amount
      /\ row \in GameRows /\ row.amount \in Nat
  BY InPlayIs DEF InPlay
<1>2. PICK table \in Paytables :
        LET over == Settled(Captured(row), table)
        IN /\ funds.locked >= row.amount /\ DealerStops(row) # {}
           /\ game' = [game EXCEPT ![g] = over]
           /\ wallet' = [balance |-> funds.balance + over.payout,
                         locked |-> funds.locked - row.amount]
           /\ posted' = posted \cup rows \cup {Row(<<g, "capture">>, "BET_CAPTURE", g, row.amount)}
                          \cup PayoutRows(g, over.payout)
  BY DEF Finish, Captured
<1> DEFINE over == Settled(Captured(row), table)
           capture == Row(<<g, "capture">>, "BET_CAPTURE", g, row.amount)
           added == rows \cup {capture} \cup PayoutRows(g, over.payout)
<1>3. Ended(over) /\ over.amount = row.amount /\ over.hold = "CAPTURED" /\ over.payout \in Nat
  BY <1>1, <1>2, CapturedEnds
<1>4. /\ funds.locked >= row.amount
      /\ game' = [game EXCEPT ![g] = over]
      /\ wallet' = [balance |-> funds.balance + over.payout,
                    locked |-> funds.locked - row.amount]
      /\ posted' = posted \cup added
  BY <1>2
<1> HIDE DEF over
<1>5. /\ funds.balance \in Nat /\ funds.locked \in Nat
      /\ funds.locked + game[g].amount = wallet.locked + row.amount
      /\ funds.balance + row.amount = wallet.balance + game[g].amount
      /\ wallet.locked \in Nat /\ wallet.balance \in Nat
  BY DEF FundsOf, IInv, WalletInOrder
<1>6. /\ wallet'.balance = funds.balance + over.payout
      /\ wallet'.locked = funds.locked - row.amount
      /\ wallet' \in [balance : Nat, locked : Nat]
  <2>1. funds.balance + over.payout \in Nat /\ funds.locked - row.amount \in Nat
    BY <1>1, <1>3, <1>4, <1>5
  <2>2. QED  BY <1>4, <2>1
<1>7. wallet'.locked + Share(game[g], "HELD") = wallet.locked + Share(over, "HELD")
  <2>1. Share(over, "HELD") = 0
    BY <1>3 DEF Share
  <2>2. (funds.locked - row.amount) + game[g].amount = wallet.locked + 0
    BY <1>1, <1>5
  <2>3. QED  BY <1>1, <1>6, <2>1, <2>2
<1>8. wallet'.balance + over.amount + game[g].payout
        = wallet.balance + game[g].amount + over.payout
  <2>1. (funds.balance + over.payout) + row.amount + 0
          = wallet.balance + game[g].amount + over.payout
    BY <1>1, <1>3, <1>5
  <2>2. QED  BY <1>1, <1>3, <1>6, <2>1
<1>9. /\ capture.game = g /\ capture.reason = "BET_CAPTURE"
      /\ \A x \in PayoutRows(g, over.payout) : x.game = g /\ x.reason = "BET_PAYOUT"
      /\ \A x \in rows : x.game = g /\ x.reason = "BET_HOLD"
  BY DEF Row, PayoutRows, HoldRows
<1> HIDE DEF capture
<1>10. {x \in added : x.reason = "BET_PAYOUT"} = PayoutRows(g, over.payout)
  BY <1>9
<1>11. {x \in added : x.reason = "BET_CAPTURE"} = {capture}
  BY <1>9
<1>12. \A x \in added : x.game = g
  BY <1>9
<1> HIDE DEF added
<1>13. RowsOf(g, "BET_PAYOUT") = {} /\ RowsOf(g, "BET_CAPTURE") = {}
  BY NothingPaid
<1>14. RowsOf(g, "BET_PAYOUT") \cup {x \in added : x.reason = "BET_PAYOUT"}
         = PayoutRows(g, over.payout)
  BY <1>10, <1>13
<1>15. RowsOf(g, "BET_CAPTURE") \cup {x \in added : x.reason = "BET_CAPTURE"}
         = IF over.hold = "CAPTURED"
             THEN {Row(<<g, "capture">>, "BET_CAPTURE", g, over.amount)} ELSE {}
  BY <1>3, <1>11, <1>13 DEF capture
<1>16. req' \in [Requests -> Keys \cup {NoKey}]
  BY DEF IInv
<1>17. QED  BY <1>3, <1>4, <1>6, <1>7, <1>8, <1>12, <1>14, <1>15, <1>16, Written

Advanced(row) == [row EXCEPT !.active = Min(Unresolved(row))]

LEMMA RowAdvanced ==
  ASSUME NEW row \in GameRows, Running(row), Resolved(row.hands[row.active]),
         Unresolved(row) # {}
  PROVE  InPlay(Advanced(row)) /\ Advanced(row).amount = row.amount
<1> DEFINE next == Min(Unresolved(row))
           new == Advanced(row)
<1>1. /\ row.hands \in Seq(HandRows) /\ DOMAIN row.hands = 1..Len(row.hands)
      /\ Len(row.hands) \in {1, 2} /\ row.active \in DOMAIN row.hands
      /\ \A i \in DOMAIN row.hands : i < row.active => Resolved(row.hands[i])
  BY DEF GameRows, Running, Dealing, HandsInOrder
<1>2. next \in Unresolved(row) /\ \A m \in Unresolved(row) : next <= m
  <2>1. Unresolved(row) \subseteq Nat
    BY <1>1 DEF Unresolved
  <2>2. \E x \in Unresolved(row) : \A y \in Unresolved(row) : x =< y
    BY <2>1, LeastNumber
  <2>3. QED  BY <2>2 DEF Min
<1> HIDE DEF next
<1>3. next \in DOMAIN row.hands /\ next > row.active /\ ~Resolved(row.hands[next])
  BY <1>2 DEF Unresolved
<1>4. ASSUME NEW i \in DOMAIN row.hands, i < next PROVE Resolved(row.hands[i])
  <2>1. i \notin Unresolved(row)
    BY <1>1, <1>2, <1>3, <1>4
  <2>2. CASE i > row.active
    BY <2>1, <2>2 DEF Unresolved
  <2>3. CASE i = row.active
    BY <2>3
  <2>4. CASE i < row.active
    BY <1>1, <2>4
  <2>5. QED  BY <1>1, <2>2, <2>3, <2>4
<1>5. next \in {1, 2}
  BY <1>1, <1>3
<1>6. /\ new \in GameRows /\ new.active = next /\ new.hands = row.hands
      /\ new.dealer = row.dealer /\ new.deck = row.deck /\ new.cursor = row.cursor
      /\ new.status = row.status /\ new.hold = row.hold /\ new.payout = row.payout
      /\ new.pairs = row.pairs /\ new.plus3 = row.plus3 /\ new.insurance = row.insurance
      /\ new.amount = row.amount
  BY <1>5 DEF GameRows, Advanced, next
<1> HIDE DEF new
<1>7. OnTable(new, new.cursor) /\ Backed(new)
  <2>1. OnTable(row, row.cursor) /\ Backed(row)
    BY DEF Running, Dealing
  <2>2. OnTable(new, new.cursor)
    BY ONLY <1>6, <2>1 DEF OnTable
  <2>3. Backed(new)
    BY ONLY <1>6, <2>1 DEF Backed
  <2>4. QED  BY <2>2, <2>3
<1>8. Dealing(new)
  BY <1>3, <1>6, <1>7 DEF Running, Dealing
<1>9. InPlay(new)
  BY <1>3, <1>4, <1>6, <1>8 DEF Running, InPlay
<1>10. QED  BY <1>6, <1>9 DEF new

LEMMA Proceeds ==
  ASSUME IInv, NEW g \in Games, InPlay(game[g]), NEW row, Running(row), NEW funds,
         FundsOf(funds, game[g], row), Proceed(g, row, funds)
  PROVE  IInv'
<1>1. row \in GameRows
  BY InPlayIs
<1>2. HoldRows(g, {}) /\ UNCHANGED req
  BY DEF HoldRows, Proceed
<1>3. CASE ~Resolved(row.hands[row.active])
  <2>1. Continue(g, row, funds, {}) /\ InPlay(row)
    BY <1>3 DEF Proceed, InPlay
  <2>2. QED  BY <1>2, <2>1, GoesOn
<1>4. CASE Resolved(row.hands[row.active]) /\ Unresolved(row) # {}
  <2>1. Continue(g, Advanced(row), funds, {})
    BY <1>4 DEF Proceed, Advanced
  <2>2. InPlay(Advanced(row)) /\ Advanced(row).amount = row.amount
    BY <1>1, <1>4, RowAdvanced
  <2>3. FundsOf(funds, game[g], Advanced(row))
    BY <2>2 DEF FundsOf
  <2>4. QED  BY <1>2, <2>1, <2>2, <2>3, GoesOn
<1>5. CASE Resolved(row.hands[row.active]) /\ Unresolved(row) = {}
  <2>1. Finish(g, row, funds, {})
    BY <1>5 DEF Proceed
  <2>2. QED  BY <1>2, <2>1, Finishes
<1>6. QED  BY <1>3, <1>4, <1>5

-----------------------------------------------------------------------------
(***************************************************************************)
(* Every step keeps the invariant.                                         *)
(***************************************************************************)

\* An active game is in play, and a game in play is active.
LEMMA ActiveIs ==
  ASSUME IInv, NEW g \in Games, Active(g)
  PROVE  InPlay(game[g]) /\ Running(game[g]) /\ game[g] \in GameRows
<1>1. game[g] # NoGame /\ ~Ended(game[g])
  BY DEF Active, NoGame, Ended
<1>2. InPlay(game[g])
  BY <1>1 DEF IInv, GamesInOrder
<1>3. QED  BY <1>2, InPlayIs DEF InPlay

\* The funds of a transaction that adds to the stake of a game.
LEMMA DebitedFunds ==
  ASSUME IInv, NEW held, NEW row, NEW extra \in Nat, held.amount \in Nat,
         row.amount = held.amount + extra, Covered(extra)
  PROVE  FundsOf(Debited(extra), held, row)
<1>1. wallet.balance \in Nat /\ wallet.locked \in Nat /\ wallet.balance >= extra
  BY DEF IInv, WalletInOrder, Covered
<1>2. /\ Debited(extra).balance = wallet.balance - extra
      /\ Debited(extra).locked = wallet.locked + extra
      /\ Debited(extra) \in [balance : Nat, locked : Nat]
  BY <1>1 DEF Debited
<1> DEFINE b == wallet.balance
           l == wallet.locked
           m == held.amount
<1>3. b \in Nat /\ l \in Nat /\ m \in Nat
  BY <1>1
<1> HIDE DEF b, l, m
<1>4. (l + extra) + m = l + (m + extra) /\ (b - extra) + (m + extra) = b + m
  BY <1>3
<1>5. QED  BY <1>2, <1>4 DEF FundsOf, b, l, m

LEMMA SameFunds ==
  ASSUME IInv, NEW held, NEW row, row.amount = held.amount
  PROVE  FundsOf(wallet, held, row)
BY DEF FundsOf, IInv, WalletInOrder

LEMMA IInvInit == Init => IInv
<1> SUFFICES ASSUME Init PROVE IInv
  OBVIOUS
<1>1. req \in [Requests -> Keys \cup {NoKey}] /\ DOMAIN game = Games
  BY DEF Init, Idle
<1>2. \A g \in Games : game[g] = NoGame
  BY DEF Init
<1>3. GamesInOrder
  BY <1>2 DEF GamesInOrder
<1>4. RowsInOrder
  <2>1. \A g \in Games : /\ game[g].payout = 0 /\ game[g].hold # "CAPTURED"
                         /\ RowsOf(g, "BET_PAYOUT") = {} /\ RowsOf(g, "BET_CAPTURE") = {}
    BY <1>2 DEF Init, NoGame, RowsOf
  <2>2. QED  BY <2>1 DEF RowsInOrder, PayoutRows
<1>5. WalletInOrder
  <2>1. Paid = 0
    <3>1. \A g \in Games : [x \in Games |-> game[x].payout][g] = 0
      BY <1>2 DEF NoGame
    <3>2. QED  BY <3>1, TotalOfNothing DEF Paid
  <2>2. \A hold : Staked(hold) = 0
    <3>1. ASSUME NEW hold PROVE Staked(hold) = 0
      <4>1. \A g \in {x \in Games : game[x].hold = hold} : [x \in Games |-> game[x].amount][g] = 0
        BY <1>2 DEF NoGame
      <4>2. QED  BY <4>1, TotalOfNothing DEF Staked
    <3>2. QED  BY <3>1
  <2>3. wallet = [balance |-> Balance, locked |-> 0] /\ Balance \in Nat
    BY BlackjackAssumption DEF Init
  <2>4. QED  BY <2>1, <2>2, <2>3 DEF WalletInOrder
<1>6. QED  BY <1>1, <1>3, <1>4, <1>5 DEF IInv

\* A step that only moves a request.
LEMMA IInvRequest ==
  ASSUME IInv, UNCHANGED <<wallet, game, posted>>, req' \in [Requests -> Keys \cup {NoKey}]
  PROVE  IInv'
<1>1. GamesInOrder'
  BY DEF IInv, GamesInOrder
<1>2. RowsInOrder'
  BY DEF IInv, RowsInOrder, RowsOf
<1>3. WalletInOrder'
  BY DEF IInv, WalletInOrder, Staked, Paid
<1>4. QED  BY <1>1, <1>2, <1>3 DEF IInv

LEMMA IInvStart ==
  ASSUME IInv, NEW r \in Requests, StartGame(r)
  PROVE  IInv'
<1>1. req[r] \in Keys /\ req' \in [Requests -> Keys \cup {NoKey}]
  BY BlackjackAssumption DEF IInv, StartGame, Idle
<1>2. PICK g \in {x \in Games : game[x] = NoGame}, deck \in Decks, bet \in Stakes,
           side \in SideBets, table \in Paytables :
        Start(g, Dealt(req[r], deck, bet, side), table)
  BY DEF StartGame
<1> DEFINE row == Dealt(req[r], deck, bet, side)
           natural == row.hands[1].blackjack
           over == IF natural THEN Settled(row, table) ELSE row
           stake == Row(row.key, "BET_HOLD", g, row.amount)
           added == {stake} \cup PayoutRows(g, over.payout)
<1>3. bet \in Nat /\ side \in Nat \X Nat
  BY BlackjackAssumption
<1>4. row \in GameRows /\ Dealing(row) /\ (~natural => InPlay(row))
  BY <1>1, <1>3, DealMoves
<1>5. /\ natural => DealerStops(row) # {}
      /\ Covered(row.amount)
      /\ game' = [game EXCEPT ![g] = over]
      /\ wallet' = [Debited(row.amount) EXCEPT !.balance = @ + over.payout]
      /\ posted' = posted \cup added
      /\ game[g] = NoGame
  BY <1>2 DEF Start
<1> HIDE DEF row
<1>6. /\ InPlay(over) \/ Ended(over)
      /\ over.amount = row.amount /\ over.hold = "HELD" /\ over.payout \in Nat
  <2>1. CASE natural
    <3>1. /\ HandsInOrder(row.hands) /\ OnTable(row, row.cursor) /\ Len(row.dealer) = 2
          /\ Backed(row) /\ row.hold = "HELD"
      BY <1>4 DEF Dealing
    <3>2. row.hold = IF row.hands[1].blackjack THEN "HELD" ELSE "CAPTURED"
      BY <1>4, <2>1, <3>1
    <3>3. LET end == Settled(row, table)
          IN Ended(end) /\ end.amount = row.amount /\ end.hold = row.hold /\ end.payout \in Nat
      BY <1>4, <1>5, <2>1, <3>1, <3>2, SettledEnds
    <3>4. QED  BY <2>1, <3>1, <3>3
  <2>2. CASE ~natural
    BY <1>4, <2>2, InPlayIs DEF InPlay
  <2>3. QED  BY <2>1, <2>2
<1> HIDE DEF over
<1>7. row.amount \in Nat
  BY <1>4 DEF GameRows
<1>8. /\ wallet.balance \in Nat /\ wallet.locked \in Nat /\ wallet.balance >= row.amount
  BY <1>5 DEF IInv, WalletInOrder, Covered
<1>9. /\ wallet'.balance = (wallet.balance - row.amount) + over.payout
      /\ wallet'.locked = wallet.locked + row.amount
      /\ wallet' \in [balance : Nat, locked : Nat]
  <2>1. wallet' = [balance |-> (wallet.balance - row.amount) + over.payout,
                   locked |-> wallet.locked + row.amount]
    BY <1>5 DEF Debited
  <2>2. (wallet.balance - row.amount) + over.payout \in Nat /\ wallet.locked + row.amount \in Nat
    BY <1>6, <1>7, <1>8
  <2>3. QED  BY <2>1, <2>2
<1>10. game[g].amount = 0 /\ game[g].payout = 0 /\ Share(game[g], "HELD") = 0
  BY <1>5 DEF NoGame, Share
<1>11. wallet'.locked + Share(game[g], "HELD") = wallet.locked + Share(over, "HELD")
  <2>1. Share(over, "HELD") = row.amount
    BY <1>6 DEF Share
  <2>2. (wallet.locked + row.amount) + 0 = wallet.locked + row.amount
    BY <1>7, <1>8
  <2>3. QED  BY <1>9, <1>10, <2>1, <2>2
<1>12. wallet'.balance + over.amount + game[g].payout
         = wallet.balance + game[g].amount + over.payout
  <2>1. ((wallet.balance - row.amount) + over.payout) + row.amount + 0
          = wallet.balance + 0 + over.payout
    BY <1>6, <1>7, <1>8
  <2>2. QED  BY <1>6, <1>9, <1>10, <2>1
<1>13. /\ stake.game = g /\ stake.reason = "BET_HOLD"
       /\ \A x \in PayoutRows(g, over.payout) : x.game = g /\ x.reason = "BET_PAYOUT"
  BY DEF Row, PayoutRows
<1> HIDE DEF stake
<1>14. {x \in added : x.reason = "BET_PAYOUT"} = PayoutRows(g, over.payout)
  BY <1>13
<1>15. {x \in added : x.reason = "BET_CAPTURE"} = {}
  BY <1>13
<1>16. \A x \in added : x.game = g
  BY <1>13
<1> HIDE DEF added
<1>17. RowsOf(g, "BET_PAYOUT") = {} /\ RowsOf(g, "BET_CAPTURE") = {}
  BY <1>5, NothingPaid
<1>18. RowsOf(g, "BET_PAYOUT") \cup {x \in added : x.reason = "BET_PAYOUT"}
         = PayoutRows(g, over.payout)
  BY <1>14, <1>17
<1>19. RowsOf(g, "BET_CAPTURE") \cup {x \in added : x.reason = "BET_CAPTURE"}
         = IF over.hold = "CAPTURED"
             THEN {Row(<<g, "capture">>, "BET_CAPTURE", g, over.amount)} ELSE {}
  BY <1>6, <1>15, <1>17
<1>20. QED  BY <1>1, <1>5, <1>6, <1>9, <1>11, <1>12, <1>16, <1>18, <1>19, Written

LEMMA IInvHit ==
  ASSUME IInv, NEW g \in Games, Hit(g) PROVE IInv'
<1> DEFINE row == Busted(Drawn(game[g]))
<1>1. Active(g) /\ CardsLeft(game[g]) > 0 /\ Proceed(g, row, wallet)
  BY DEF Hit, Playable, Busted
<1>2. InPlay(game[g]) /\ Running(game[g]) /\ game[g] \in GameRows
  BY <1>1, ActiveIs
<1>3. Running(row) /\ row.amount = game[g].amount
  BY <1>1, <1>2, HitMoves
<1> HIDE DEF row
<1>4. FundsOf(wallet, game[g], row)
  BY <1>3, SameFunds
<1>5. QED  BY <1>1, <1>2, <1>3, <1>4, Proceeds

LEMMA IInvStand ==
  ASSUME IInv, NEW g \in Games, Stand(g) PROVE IInv'
<1> DEFINE row == Stood(game[g])
<1>1. Active(g) /\ Proceed(g, row, wallet)
  BY DEF Stand, Playable, Stood
<1>2. InPlay(game[g]) /\ Running(game[g]) /\ game[g] \in GameRows
  BY <1>1, ActiveIs
<1>3. Running(row) /\ row.amount = game[g].amount
  BY <1>2, StandMoves
<1> HIDE DEF row
<1>4. FundsOf(wallet, game[g], row)
  BY <1>3, SameFunds
<1>5. QED  BY <1>1, <1>2, <1>3, <1>4, Proceeds

LEMMA IInvDouble ==
  ASSUME IInv, NEW g \in Games, Double(g) PROVE IInv'
<1> DEFINE extra == game[g].hands[game[g].active].stake
           row == Doubled(Drawn(RaisedBet(game[g], extra)), extra)
<1>1. /\ Active(g) /\ CardsLeft(game[g]) > 0 /\ Covered(extra)
      /\ Proceed(g, row, Debited(extra))
  BY DEF Double, Playable, CurrentHand, Doubled, RaisedBet
<1>2. InPlay(game[g]) /\ Running(game[g]) /\ game[g] \in GameRows
  BY <1>1, ActiveIs
<1>3. extra \in Nat /\ Running(row) /\ row.amount = game[g].amount + extra
  BY <1>1, <1>2, DoubleMoves
<1> HIDE DEF row, extra
<1>4. game[g].amount \in Nat
  BY <1>2 DEF GameRows
<1>5. FundsOf(Debited(extra), game[g], row)
  BY <1>1, <1>3, <1>4, DebitedFunds
<1>6. QED  BY <1>1, <1>2, <1>3, <1>5, Proceeds

LEMMA IInvSplit ==
  ASSUME IInv, NEW g \in Games, Split(g) PROVE IInv'
<1> DEFINE old == game[g].hands[game[g].active]
           extra == old.stake
           raised == RaisedSplit(game[g], extra)
           half(i) == Hand(<<old.cards[i], raised.deck[raised.cursor + i]>>, extra)
           row == Halved(raised, half(1), half(2))
<1>1. /\ Active(g) /\ Len(game[g].hands) = 1 /\ IsPair(old.cards)
      /\ CardsLeft(game[g]) > 1 /\ Covered(extra)
      /\ Proceed(g, row, Debited(extra))
  BY DEF Split, Playable, CurrentHand, RaisedSplit, Halved
<1>2. InPlay(game[g]) /\ Running(game[g]) /\ game[g] \in GameRows
  BY <1>1, ActiveIs
<1>3. Len(old.cards) = 2
  BY <1>1 DEF IsPair
<1>4. extra \in Nat /\ Running(row) /\ row.amount = game[g].amount + extra
  BY <1>1, <1>2, <1>3, SplitMoves
<1> HIDE DEF row, extra
<1>5. game[g].amount \in Nat
  BY <1>2 DEF GameRows
<1>6. FundsOf(Debited(extra), game[g], row)
  BY <1>1, <1>4, <1>5, DebitedFunds
<1>7. QED  BY <1>1, <1>2, <1>4, <1>6, Proceeds

LEMMA IInvInsure ==
  ASSUME IInv, NEW g \in Games, NEW key \in Keys, Insure(g, key) PROVE IInv'
<1> DEFINE extra == game[g].bet \div 2
           row == Insured(game[g], extra)
           rows == {Row(key, "BET_HOLD", g, extra)}
<1>1. /\ Active(g) /\ game[g].insurance = 0 /\ Covered(extra) /\ UNCHANGED req
      /\ Finish(g, row, Debited(extra), rows) \/ Continue(g, row, Debited(extra), rows)
  BY DEF Insure, InsurancePending, Insured
<1>2. InPlay(game[g]) /\ Running(game[g]) /\ game[g] \in GameRows
  BY <1>1, ActiveIs
<1>3. extra \in Nat /\ InPlay(row) /\ row.amount = game[g].amount + extra
  BY <1>1, <1>2, InsureMoves
<1>4. HoldRows(g, rows)
  BY DEF HoldRows, Row
<1> HIDE DEF row, extra, rows
<1>5. game[g].amount \in Nat
  BY <1>2 DEF GameRows
<1>6. FundsOf(Debited(extra), game[g], row)
  BY <1>1, <1>3, <1>5, DebitedFunds
<1>7. CASE Continue(g, row, Debited(extra), rows)
  BY <1>1, <1>2, <1>3, <1>4, <1>6, <1>7, GoesOn
<1>8. CASE Finish(g, row, Debited(extra), rows)
  <2>1. Running(row)
    BY <1>3 DEF InPlay
  <2>2. QED  BY <1>1, <1>2, <1>4, <1>6, <1>8, <2>1, Finishes
<1>9. QED  BY <1>1, <1>7, <1>8

LEMMA IInvDecline ==
  ASSUME IInv, NEW g \in Games, DeclineInsurance(g) PROVE IInv'
<1> DEFINE row == Declined(game[g])
<1>1. Active(g) /\ Continue(g, row, wallet, {}) /\ UNCHANGED req
  BY DEF DeclineInsurance, Declined
<1>2. InPlay(game[g]) /\ game[g] \in GameRows
  BY <1>1, ActiveIs
<1>3. InPlay(row) /\ row.amount = game[g].amount
  BY <1>2, DeclineMoves
<1> HIDE DEF row
<1>4. FundsOf(wallet, game[g], row) /\ HoldRows(g, {})
  BY <1>3, SameFunds DEF HoldRows
<1>5. QED  BY <1>1, <1>2, <1>3, <1>4, GoesOn

LEMMA IInvStep == IInv /\ [Next]_vars => IInv'
<1> SUFFICES ASSUME IInv, [Next]_vars PROVE IInv'
  OBVIOUS
<1>1. ASSUME NEW r \in Requests, StartCall(r) PROVE IInv'
  <2>1. req' \in [Requests -> Keys \cup {NoKey}]
    BY <1>1 DEF StartCall, IInv
  <2>2. QED  BY <1>1, <2>1, IInvRequest DEF StartCall
<1>2. ASSUME NEW r \in Requests, StartGame(r) PROVE IInv'
  BY <1>2, IInvStart
<1>3. ASSUME NEW r \in Requests, StartFails(r) PROVE IInv'
  <2>1. req' \in [Requests -> Keys \cup {NoKey}]
    BY <1>3 DEF StartFails, IInv, Idle
  <2>2. QED  BY <1>3, <2>1, IInvRequest DEF StartFails
<1>4. ASSUME NEW g \in Games, NEW key \in Keys, Insure(g, key) PROVE IInv'
  BY <1>4, IInvInsure
<1>5. ASSUME NEW g \in Games, DeclineInsurance(g) PROVE IInv'
  BY <1>5, IInvDecline
<1>6. ASSUME NEW g \in Games, Hit(g) PROVE IInv'
  BY <1>6, IInvHit
<1>7. ASSUME NEW g \in Games, Stand(g) PROVE IInv'
  BY <1>7, IInvStand
<1>8. ASSUME NEW g \in Games, Double(g) PROVE IInv'
  BY <1>8, IInvDouble
<1>9. ASSUME NEW g \in Games, Split(g) PROVE IInv'
  BY <1>9, IInvSplit
<1>10. CASE UNCHANGED vars
  <2>1. req' \in [Requests -> Keys \cup {NoKey}]
    BY <1>10 DEF vars, IInv
  <2>2. QED  BY <1>10, <2>1, IInvRequest DEF vars
<1>11. QED
  BY <1>1, <1>2, <1>3, <1>4, <1>5, <1>6, <1>7, <1>8, <1>9, <1>10 DEF Next

LEMMA Invariance == Spec => []IInv
<1>1. Init => IInv
  BY IInvInit
<1>2. IInv /\ [Next]_vars => IInv'
  BY IInvStep
<1>3. QED  BY <1>1, <1>2, PTL DEF Spec

-----------------------------------------------------------------------------
(***************************************************************************)
(* What the invariant says of every game.                                  *)
(***************************************************************************)

\* A game that was started is in play or ended, with a row of its own.
LEMMA PlayedIs ==
  ASSUME IInv, NEW g \in Played
  PROVE  /\ g \in Games /\ game[g] \in GameRows /\ (InPlay(game[g]) \/ Ended(game[g]))
         /\ Backed(game[g]) /\ \E n \in 1..Len(game[g].deck) : OnTable(game[g], n)
<1>1. g \in Games /\ game[g] # NoGame
  BY DEF Played
<1>2. InPlay(game[g]) \/ Ended(game[g])
  BY <1>1 DEF IInv, GamesInOrder
<1>3. CASE InPlay(game[g])
  <2>1. /\ game[g] \in GameRows /\ Backed(game[g]) /\ OnTable(game[g], game[g].cursor)
    BY <1>3 DEF InPlay, Running, Dealing
  <2>2. game[g].cursor \in 1..Len(game[g].deck)
    BY <2>1 DEF OnTable
  <2>3. QED  BY <1>1, <1>2, <2>1, <2>2
<1>4. CASE Ended(game[g])
  BY <1>1, <1>2, <1>4 DEF Ended
<1>5. QED  BY <1>2, <1>3, <1>4

\* FundsAddUp, for any stakes, multipliers, games and starts at once: the locked
\* funds are the stakes on hold, the balance what was lost and paid, and a stake
\* what its hands, side bets and insurance cost.
THEOREM FundsAlwaysAddUp == Spec => []FundsAddUp
<1>1. ASSUME IInv PROVE FundsAddUp
  <2>1. \A g \in Played : Backed(game[g])
    BY <1>1, PlayedIs
  <2>2. QED  BY <1>1, <2>1 DEF FundsAddUp, IInv, WalletInOrder, Backed
<1>2. QED  BY <1>1, Invariance, PTL

\* The first n cards of a deck are n cards.
LEMMA CardsOfDeck ==
  ASSUME NEW row \in GameRows, NEW n \in 1..Len(row.deck)
  PROVE  Cardinality({row.deck[i] : i \in 1..n}) = n
<1> DEFINE T == {row.deck[i] : i \in 1..n}
           f == [i \in 1..n |-> row.deck[i]]
<1>1. n \in Nat /\ \A i \in 1..n : i \in DOMAIN row.deck
  BY DeckOfGame
<1>2. \A i, j \in 1..n : f[i] = f[j] => i = j
  BY <1>1, DeckOfGame
<1>3. \A t \in T : \E i \in 1..n : f[i] = t
  OBVIOUS
<1>4. f \in [1..n -> T]
  OBVIOUS
<1> HIDE DEF f, T
<1>5. f \in Bijection(1..n, T)
  BY <1>2, <1>3, <1>4 DEF Bijection, Injection, Surjection, IsInjective
<1>6. ExistsBijection(1..n, T)
  BY <1>5 DEF ExistsBijection
<1>7. IsFiniteSet(1..n) /\ Cardinality(1..n) = n
  <2>1. /\ IsFiniteSet(1..n)
        /\ Cardinality(1..n) = IF 1 > n THEN 0 ELSE n - 1 + 1
    BY <1>1, FS_Interval
  <2>2. QED  BY <1>1, <2>1
<1>8. Cardinality(T) = n
  BY <1>6, <1>7, FS_Bijection
<1>9. QED  BY <1>8 DEF T

\* CardsDealtOnce: whatever was hit, doubled, split and insured, from any deck,
\* the cards on the table are the first of the deck, each of them once.
THEOREM NoCardTwice == Spec => []CardsDealtOnce
<1>1. ASSUME IInv PROVE CardsDealtOnce
  <2>1. ASSUME NEW g \in Played
        PROVE  Cardinality(HandCards(game[g].hands) \cup CardsIn(game[g].dealer))
                 = HandSizes(game[g].hands) + Len(game[g].dealer)
    <3>1. PICK n \in 1..Len(game[g].deck) : OnTable(game[g], n)
      BY <1>1, PlayedIs
    <3>2. Cardinality({game[g].deck[i] : i \in 1..n}) = n
      BY <1>1, PlayedIs, CardsOfDeck
    <3>3. /\ HandCards(game[g].hands) \cup CardsIn(game[g].dealer) = {game[g].deck[i] : i \in 1..n}
          /\ HandSizes(game[g].hands) + Len(game[g].dealer) = n
      BY <3>1 DEF OnTable
    <3>4. QED  BY <3>2, <3>3, Zenon
  <2>2. QED  BY <2>1 DEF CardsDealtOnce
<1>2. QED  BY <1>1, Invariance, PTL

\* A stake on hold is among the locked funds.
LEMMA HeldIsLocked ==
  ASSUME IInv, NEW g \in Games, game[g].hold = "HELD"
  PROVE  wallet.locked >= game[g].amount
<1> DEFINE T == {x \in Games : game[x].hold = "HELD"}
           f == [x \in Games |-> game[x].amount]
           R == T \ {g}
<1>1. \A x \in Games : f[x] \in Nat
  BY RowNumbers DEF IInv, GamesInOrder
<1>2. IsFiniteSet(Games) /\ T \subseteq Games /\ g \in T
  BY BlackjackAssumption
<1>3. IsFiniteSet(R)
  BY <1>2, FS_Subset
<1>4. f[g] = game[g].amount /\ wallet.locked = Total(f, T)
  BY DEF IInv, WalletInOrder, Staked
<1>5. R \cup {g} = T /\ g \notin R /\ \A x \in R \cup {g} : f[x] \in Nat
  BY <1>1, <1>2
<1> HIDE DEF T, f, R
<1>6. Total(f, R) \in Nat /\ Total(f, R \cup {g}) = Total(f, R) + f[g]
  BY <1>3, <1>5, TotalAdd
<1>7. Total(f, T) = Total(f, R) + f[g]
  BY <1>5, <1>6, Zenon
<1>8. f[g] \in Nat
  BY <1>1
<1>9. QED  BY <1>4, <1>6, <1>7, <1>8

\* GameCanGoOn: a game that is not over has a hand to play, after hands that are
\* resolved, and its stake is locked, so that the settlement's check of the
\* locked funds cannot fail.
THEOREM GamesGoOn == Spec => []GameCanGoOn
<1>1. ASSUME IInv PROVE GameCanGoOn
  <2>1. ASSUME NEW g \in Played, Active(g)
        PROVE  /\ game[g].hands[game[g].active].cards # <<>> /\ ~Resolved(CurrentHand(g))
               /\ \A i \in DOMAIN game[g].hands : i < game[g].active => Resolved(game[g].hands[i])
               /\ game[g].hold = "HELD" /\ wallet.locked >= game[g].amount
    <3>1. g \in Games
      BY DEF Played
    <3>2. InPlay(game[g]) /\ Running(game[g])
      BY <1>1, <2>1, <3>1, ActiveIs
    <3>3. game[g].hold = "HELD"
      BY <3>2, InPlayIs
    <3>4. wallet.locked >= game[g].amount
      BY <1>1, <3>1, <3>3, HeldIsLocked
    <3>5. ~Resolved(CurrentHand(g))
      BY <3>2 DEF InPlay, CurrentHand
    <3>6. Len(game[g].hands[game[g].active].cards) >= 2
      BY <3>2 DEF Running, Dealing, HandsInOrder
    <3>7. game[g].hands[game[g].active].cards # <<>>
      BY <3>6
    <3>8. QED  BY <3>2, <3>3, <3>4, <3>5, <3>7 DEF Running
  <2>2. QED  BY <2>1 DEF GameCanGoOn
<1>2. QED  BY <1>1, Invariance, PTL

\* SettledOnce: a game that is over was paid once, what the rules give its hands
\* and its insurance, its whole stake was captured once unless it was a natural,
\* and its dealer drew to 17 and no further.
THEOREM GamesSettledOnce == Spec => []SettledOnce
<1>1. ASSUME IInv PROVE SettledOnce
  <2>1. ASSUME NEW g \in Over
        PROVE  /\ {x.amount : x \in RowsOf(g, "BET_PAYOUT")} = {game[g].payout} \ {0}
               /\ Cardinality(RowsOf(g, "BET_PAYOUT")) <= 1
               /\ {x.amount : x \in RowsOf(g, "BET_CAPTURE")} =
                    IF game[g].hands[1].blackjack THEN {} ELSE {game[g].amount}
               /\ PaidByRules(game[g])
    <3>1. g \in Games /\ g \in Played /\ ~Active(g)
      BY DEF Over, Played
    <3>2. Ended(game[g]) /\ game[g] \in GameRows
      BY <1>1, <3>1, PlayedIs, InPlayIs DEF InPlay, Active
    <3>3. /\ RowsOf(g, "BET_PAYOUT") = PayoutRows(g, game[g].payout)
          /\ RowsOf(g, "BET_CAPTURE") =
               IF game[g].hold = "CAPTURED"
                 THEN {Row(<<g, "capture">>, "BET_CAPTURE", g, game[g].amount)} ELSE {}
      BY <1>1, <3>1 DEF IInv, RowsInOrder
    <3>4. game[g].payout \in Nat /\ PaidByRules(game[g])
      BY <3>2 DEF GameRows, Ended
    <3>8. {x.amount : x \in RowsOf(g, "BET_CAPTURE")}
            = IF game[g].hands[1].blackjack THEN {} ELSE {game[g].amount}
      <4>1. CASE game[g].hands[1].blackjack
        <5>1. game[g].hold # "CAPTURED"
          BY <3>2, <4>1 DEF Ended
        <5>2. QED  BY <3>3, <4>1, <5>1
      <4>2. CASE ~game[g].hands[1].blackjack
        <5>1. game[g].hold = "CAPTURED"
          BY <3>2, <4>2 DEF Ended
        <5>2. PICK row : row = Row(<<g, "capture">>, "BET_CAPTURE", g, game[g].amount)
          OBVIOUS
        <5>3. row.amount = game[g].amount
          BY <5>2 DEF Row
        <5>4. RowsOf(g, "BET_CAPTURE") = {row}
          BY <3>3, <5>1, <5>2
        <5>5. QED  BY <4>2, <5>3, <5>4
      <4>3. QED  BY <4>1, <4>2
    <3>5. CASE game[g].payout = 0
      <4>1. RowsOf(g, "BET_PAYOUT") = {}
        BY <3>3, <3>5 DEF PayoutRows
      <4>2. Cardinality(RowsOf(g, "BET_PAYOUT")) = 0
        BY <4>1, FS_EmptySet
      <4>3. {x.amount : x \in RowsOf(g, "BET_PAYOUT")} = {game[g].payout} \ {0}
        BY <3>5, <4>1
      <4>4. Cardinality(RowsOf(g, "BET_PAYOUT")) <= 1
        BY <4>2
      <4>5. QED  BY <3>4, <3>8, <4>3, <4>4, Zenon
    <3>6. CASE game[g].payout > 0
      <4>1. PICK row : row = Row(<<g, "payout">>, "BET_PAYOUT", g, game[g].payout)
        OBVIOUS
      <4>2. RowsOf(g, "BET_PAYOUT") = {row} /\ row.amount = game[g].payout
        BY <3>3, <3>6, <4>1 DEF PayoutRows, Row
      <4>3. Cardinality(RowsOf(g, "BET_PAYOUT")) = 1
        BY <4>2, FS_Singleton
      <4>4. {x.amount : x \in RowsOf(g, "BET_PAYOUT")} = {game[g].payout} \ {0}
        BY <3>6, <4>2
      <4>5. QED  BY <3>4, <3>8, <4>3, <4>4
    <3>7. QED  BY <3>4, <3>5, <3>6
  <2>2. QED  BY <2>1 DEF SettledOnce, PaidByRules, ByRules
<1>2. QED  BY <1>1, Invariance, PTL

=============================================================================
