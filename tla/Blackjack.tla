------------------------------ MODULE Blackjack ------------------------------
(***************************************************************************)
(* Blackjack: the games of one player against a dealer.  A start holds the *)
(* stake, side bets included, and deals; doubling, splitting and insuring  *)
(* add to the stake of a running game; the action that resolves the last   *)
(* hand captures the stake, plays the dealer's hand and pays.              *)
(*                                                                         *)
(* An action locks the row of its game and is one step.  A start looks for *)
(* an active game and for a game of its key before its transaction, which  *)
(* the lock on the player's profile makes one step too.  The shuffle of a  *)
(* seed and a nonce is a choice among decks.                               *)
(***************************************************************************)
EXTENDS Ledgers, FiniteSetsExt

CONSTANTS
  Games,       \* ids of games
  Keys,        \* idempotency keys of starts and insurances
  NoKey,
  Requests,    \* starts that run at the same time
  Decks,       \* shuffled decks, sequences of [rank, suit]
  Stakes,      \* main bets players choose
  SideBets,    \* <<pairs, plus3>> players choose
  MaxBet,      \* MAX_GAME_BET_ATOMIC
  Paytables,   \* [pairs, plus3]: the multipliers administrators set over time
  Balance      \* what the wallet holds at the start

Faces == [rank : 1..13, suit : 0..3]

ASSUME BlackjackAssumption ==
  /\ NoKey \notin Keys
  /\ IsFiniteSet(Games)
  /\ \A deck \in Decks :
       /\ deck \in Seq(Faces) /\ Len(deck) >= 4
       /\ \A i, j \in DOMAIN deck : deck[i] = deck[j] => i = j
  /\ Stakes \subseteq Nat \ {0, 1} /\ SideBets \subseteq Nat \X Nat
  /\ Paytables \subseteq [pairs : Nat, plus3 : Nat]
  /\ MaxBet \in Nat /\ Balance \in Nat

VARIABLES
  wallet,      \* [balance, locked]
  game,        \* [Games -> row of blackjack_games with its reservation]
  posted,      \* wallet_transactions of the games
  req          \* [Requests -> Idle or the key of a start]

vars == <<wallet, game, posted, req>>

NoGame == [status |-> "NONE", key |-> NoKey, hold |-> "NONE", amount |-> 0, payout |-> 0]

Idle == NoKey

Init ==
  /\ wallet = [balance |-> Balance, locked |-> 0]
  /\ game = [g \in Games |-> NoGame]
  /\ posted = {}
  /\ req = [r \in Requests |-> Idle]

-----------------------------------------------------------------------------
(***************************************************************************)
(* Cards.  Rank 1 is the ace, 11 to 13 are the court cards.                *)
(***************************************************************************)

Hard(card) == IF card.rank > 10 THEN 10 ELSE card.rank

HardTotal(cards) == Total([i \in DOMAIN cards |-> Hard(cards[i])], DOMAIN cards)

\* One ace counts eleven when that does not bust the hand.
HandValue(cards) ==
  LET soft == \E i \in DOMAIN cards : cards[i].rank = 1
  IN IF soft /\ HardTotal(cards) <= 11 THEN HardTotal(cards) + 10 ELSE HardTotal(cards)

IsNatural(cards) == Len(cards) = 2 /\ HandValue(cards) = 21

IsPair(cards) == Len(cards) = 2 /\ cards[1].rank = cards[2].rank

\* evaluate21Plus3: court cards count ten, so that a jack or a king, but no
\* queen next to a king, makes a straight.
Is21Plus3(cards) ==
  \/ \A i, j \in 1..3 : cards[i].suit = cards[j].suit
  \/ \A i, j \in 1..3 : cards[i].rank = cards[j].rank
  \/ \E low \in 1..8 : {Hard(cards[i]) : i \in 1..3} = low..(low + 2)

\* drawCard throws when the deck is exhausted, and the transaction rolls back.
CardsLeft(row) == Len(row.deck) - row.cursor

\* The dealer's hand with the next n cards.
DealerWith(row, n) == row.dealer \o SubSeq(row.deck, row.cursor + 1, row.cursor + n)

DealerStops(row) == {n \in 0..CardsLeft(row) : HandValue(DealerWith(row, n)) >= 17}

\* settleDealer: cards are drawn until they are worth 17 or more.
DealerHand(row) == DealerWith(row, Min(DealerStops(row)))

-----------------------------------------------------------------------------
(***************************************************************************)
(* What a game pays: resolveCurrentGame.                                   *)
(***************************************************************************)

\* Mutant: the dealer's bust comes before the player's.
HandPayoutBankFirst(hand, dealer) ==
  LET value == HandValue(hand.cards)
      bank == HandValue(dealer)
  IN IF hand.blackjack /\ ~IsNatural(dealer) THEN (hand.stake * 25) \div 10
     ELSE IF bank > 21 THEN 2 * hand.stake
     ELSE IF hand.busted \/ value > 21 THEN 0
     ELSE IF IsNatural(dealer) /\ ~hand.blackjack THEN 0
     ELSE IF value > bank THEN 2 * hand.stake
     ELSE IF value = bank THEN hand.stake ELSE 0

\* payoutForMainHand
HandPayout(hand, dealer) ==
  LET value == HandValue(hand.cards)
      bank == HandValue(dealer)
  IN IF hand.busted \/ value > 21 THEN 0
     ELSE IF hand.blackjack /\ ~IsNatural(dealer) THEN (hand.stake * 25) \div 10
     ELSE IF bank > 21 THEN 2 * hand.stake
     ELSE IF IsNatural(dealer) /\ ~hand.blackjack THEN 0
     ELSE IF value > bank THEN 2 * hand.stake
     ELSE IF value = bank THEN hand.stake ELSE 0

MainPayout(hands, dealer) ==
  Total([i \in DOMAIN hands |-> HandPayout(hands[i], dealer)], DOMAIN hands)

\* The side bets are decided by the first hand as it is at the end.
Payout(row, dealer, table) ==
  LET first == row.hands[1].cards
  IN MainPayout(row.hands, dealer)
       + (IF IsNatural(dealer) THEN 3 * row.insurance ELSE 0)
       + (IF IsPair(first) THEN row.pairs * table.pairs ELSE 0)
       + (IF Is21Plus3(<<first[1], first[2], dealer[1]>>) THEN row.plus3 * table.plus3 ELSE 0)

-----------------------------------------------------------------------------
(***************************************************************************)
(* Statements.  Each operator returns what its part of a transaction makes *)
(* of the game's row, the wallet's row or the rows posted.                 *)
(***************************************************************************)

Row(key, reason, g, amount) == [key |-> key, reason |-> reason, game |-> g, amount |-> amount]

\* (walletId, idempotencyKey) is unique.
KeyUsed(key) == \E row \in posted : row.key = key

\* The balance must cover what is added to the stake.
Covered(amount) == wallet.balance >= amount /\ amount <= MaxBet

Debited(amount) == [balance |-> wallet.balance - amount, locked |-> wallet.locked + amount]

\* Mutant: the reservation keeps the amount of the start.
RaisedNot(row, extra) == [row EXCEPT !.staked = @ + extra]

\* The stake of the game and the amount of its reservation grow together.
Raised(row, extra) == [row EXCEPT !.staked = @ + extra, !.amount = @ + extra]

\* finalizeGameInTx: the row of the finished game.
Settled(row, table) ==
  LET dealer == DealerHand(row)
      payout == Payout(row, dealer, table)
  IN [row EXCEPT !.dealer = dealer, !.payout = payout,
                 !.status = IF payout > row.staked THEN "WON"
                            ELSE IF payout = row.staked THEN "PUSH" ELSE "LOST"]

PayoutRows(g, payout) == IF payout > 0 THEN {Row(<<g, "payout">>, "BET_PAYOUT", g, payout)} ELSE {}

\* captureReservationFunds and finalizeGameInTx, after what the transaction has
\* done so far: the wallet is funds, the game row, the rows of it are posted.
Finish(g, row, funds, rows) ==
  \E table \in Paytables :
    LET over == Settled([row EXCEPT !.hold = "CAPTURED"], table)
    IN /\ row.hold = "HELD" /\ funds.locked >= row.amount /\ DealerStops(row) # {}
       /\ game' = [game EXCEPT ![g] = over]
       /\ wallet' = [balance |-> funds.balance + over.payout, locked |-> funds.locked - row.amount]
       /\ posted' = posted \cup rows \cup {Row(<<g, "capture">>, "BET_CAPTURE", g, row.amount)}
                      \cup PayoutRows(g, over.payout)

Continue(g, row, funds, rows) ==
  /\ game' = [game EXCEPT ![g] = row]
  /\ wallet' = funds
  /\ posted' = posted \cup rows

-----------------------------------------------------------------------------
(***************************************************************************)
(* getOrCreateActiveBlackjackGame and startBlackjackGame                   *)
(***************************************************************************)

\* An active game, or the game of the key, would be the answer.
StartCall(r) ==
  /\ req[r] = Idle
  /\ \A g \in Games : game[g].status # "ACTIVE"
  /\ \E key \in Keys : /\ \A g \in Games : game[g].key # key
                       /\ req' = [req EXCEPT ![r] = key]
  /\ UNCHANGED <<wallet, game, posted>>

Hand(cards, stake) ==
  [cards |-> cards, stake |-> stake, doubled |-> FALSE, stood |-> FALSE, busted |-> FALSE,
   blackjack |-> FALSE]

\* Two cards for the player, two for the dealer.
Dealt(key, deck, bet, side) ==
  LET cards == SubSeq(deck, 1, 2)
      total == bet + side[1] + side[2]
  IN [status |-> "ACTIVE", key |-> key, bet |-> bet, pairs |-> side[1], plus3 |-> side[2],
      insurance |-> 0, staked |-> total, hold |-> "HELD", amount |-> total,
      canSplit |-> IsPair(cards), canInsurance |-> deck[3].rank = 1,
      hands |-> <<[Hand(cards, bet) EXCEPT !.blackjack = IsNatural(cards)]>>, active |-> 1,
      dealer |-> SubSeq(deck, 3, 4), deck |-> deck, cursor |-> 4, payout |-> 0]

\* A natural is settled at once; nothing captures its stake.
Start(g, row, table) ==
  LET natural == row.hands[1].blackjack
      over == IF natural THEN Settled(row, table) ELSE row
  IN /\ ~KeyUsed(row.key)
     /\ natural => DealerStops(row) # {}
     /\ Covered(row.amount)
     /\ game' = [game EXCEPT ![g] = over]
     /\ wallet' = [Debited(row.amount) EXCEPT !.balance = @ + over.payout]
     /\ posted' = posted \cup {Row(row.key, "BET_HOLD", g, row.amount)}
                    \cup PayoutRows(g, over.payout)

StartGame(r) ==
  /\ req[r] # Idle
  /\ \E g \in {x \in Games : game[x] = NoGame}, deck \in Decks, bet \in Stakes,
        side \in SideBets, table \in Paytables :
       Start(g, Dealt(req[r], deck, bet, side), table)
  /\ req' = [req EXCEPT ![r] = Idle]

\* The start is refused, or its transaction fails.
StartFails(r) ==
  /\ req[r] # Idle
  /\ req' = [req EXCEPT ![r] = Idle]
  /\ UNCHANGED <<wallet, game, posted>>

-----------------------------------------------------------------------------
(***************************************************************************)
(* actOnBlackjackGame                                                      *)
(***************************************************************************)

Active(g) == game[g].status = "ACTIVE"

InsurancePending(g) == game[g].canInsurance /\ game[g].insurance = 0

Resolved(hand) == hand.stood \/ hand.busted

CurrentHand(g) == game[g].hands[game[g].active]

\* What hit, stand, double and split ask for first.
Playable(g) == Active(g) /\ ~InsurancePending(g) /\ ~Resolved(CurrentHand(g))

Insure(g, key) ==
  LET extra == game[g].bet \div 2
      row == [Raised(game[g], extra) EXCEPT !.insurance = extra, !.canInsurance = FALSE]
      rows == {Row(key, "BET_HOLD", g, extra)}
  IN /\ Active(g) /\ InsurancePending(g)
     /\ Covered(extra)
     /\ ~KeyUsed(key)
     /\ IF Hard(row.dealer[2]) = 10 THEN Finish(g, row, Debited(extra), rows)
                                    ELSE Continue(g, row, Debited(extra), rows)
     /\ UNCHANGED req

DeclineInsurance(g) ==
  /\ Active(g) /\ InsurancePending(g)
  /\ Continue(g, [game[g] EXCEPT !.canInsurance = FALSE], wallet, {})
  /\ UNCHANGED req

\* Mutant: the state of the deck is not stored with the hands.
DrawnNot(row) ==
  [row EXCEPT !.hands[row.active].cards = Append(@, row.deck[row.cursor + 1])]

\* The current hand gets the next card.
Drawn(row) ==
  [row EXCEPT !.hands[row.active].cards = Append(@, row.deck[row.cursor + 1]),
              !.cursor = @ + 1]

Bust(row) == HandValue(row.hands[row.active].cards) > 21

\* Mutant: the search starts at the first hand and forgets who stands.
UnresolvedFromFirst(row) == {i \in DOMAIN row.hands : ~row.hands[i].busted}

\* findNextUnresolvedHand
Unresolved(row) == {i \in DOMAIN row.hands : i > row.active /\ ~Resolved(row.hands[i])}

\* The current hand goes on, or the next one does, or the game is over.
Proceed(g, row, funds) ==
  /\ IF ~Resolved(row.hands[row.active]) THEN Continue(g, row, funds, {})
     ELSE IF Unresolved(row) # {}
       THEN Continue(g, [row EXCEPT !.active = Min(Unresolved(row))], funds, {})
     ELSE Finish(g, row, funds, {})
  /\ UNCHANGED req

Hit(g) ==
  /\ Playable(g)
  /\ ~CurrentHand(g).doubled /\ CardsLeft(game[g]) > 0
  /\ LET row == Drawn(game[g])
     IN Proceed(g, [row EXCEPT !.hands[row.active].busted = Bust(row),
                               !.hands[row.active].stood = Bust(row)], wallet)

Stand(g) ==
  /\ Playable(g)
  /\ Proceed(g, [game[g] EXCEPT !.hands[game[g].active].stood = TRUE], wallet)

\* The hand's stake is doubled and nothing posted.
Double(g) ==
  LET extra == CurrentHand(g).stake
      row == Drawn(Raised([game[g] EXCEPT !.bet = @ + extra], extra))
      hand == row.hands[row.active]
  IN /\ Playable(g)
     /\ Len(CurrentHand(g).cards) = 2 /\ ~CurrentHand(g).doubled /\ CardsLeft(game[g]) > 0
     /\ Covered(extra)
     /\ Proceed(g, [row EXCEPT !.hands[row.active] =
                      [hand EXCEPT !.stake = @ + extra, !.doubled = TRUE, !.stood = TRUE,
                                   !.busted = Bust(row)]], Debited(extra))

\* The first card of each new hand is a card of the pair.
Split(g) ==
  LET extra == CurrentHand(g).stake
      row == Raised([game[g] EXCEPT !.bet = @ + extra, !.canSplit = FALSE], extra)
      half(i) == Hand(<<CurrentHand(g).cards[i], row.deck[row.cursor + i]>>, extra)
  IN /\ Playable(g)
     /\ game[g].canSplit /\ Len(game[g].hands) = 1 /\ IsPair(CurrentHand(g).cards)
     /\ CardsLeft(game[g]) > 1
     /\ Covered(extra)
     /\ Proceed(g, [row EXCEPT !.hands = <<half(1), half(2)>>, !.cursor = @ + 2], Debited(extra))

Next ==
  \/ \E r \in Requests : StartCall(r) \/ StartGame(r) \/ StartFails(r)
  \/ \E g \in Games, key \in Keys : Insure(g, key)
  \/ \E g \in Games : DeclineInsurance(g) \/ Hit(g) \/ Stand(g) \/ Double(g) \/ Split(g)

Spec == Init /\ [][Next]_vars

-----------------------------------------------------------------------------

Played == {g \in Games : game[g] # NoGame}

Over == {g \in Played : ~Active(g)}

Staked(hold) == Total([g \in Games |-> game[g].amount], {g \in Games : game[g].hold = hold})

Paid == Total([g \in Games |-> game[g].payout], Games)

HandStakes(hands) == Total([i \in DOMAIN hands |-> hands[i].stake], DOMAIN hands)

\* However the stakes of overlapping games grow, the locked funds are the stakes
\* on hold, the wallet has lost what was captured and gained what was paid, and
\* the stake of a game is what its hands, side bets and insurance are worth.
FundsAddUp ==
  /\ wallet.locked = Staked("HELD")
  /\ wallet.balance + Staked("HELD") + Staked("CAPTURED") = Balance + Paid
  /\ \A g \in Played :
       LET row == game[g]
       IN row.amount = row.pairs + row.plus3 + row.insurance + HandStakes(row.hands)

CardsIn(cards) == {cards[i] : i \in DOMAIN cards}

HandCards(hands) == UNION {CardsIn(hands[i].cards) : i \in DOMAIN hands}

HandSizes(hands) == Total([i \in DOMAIN hands |-> Len(hands[i].cards)], DOMAIN hands)

\* No card is on the table twice, whatever was hit, doubled, split and insured.
CardsDealtOnce ==
  \A g \in Played :
    Cardinality(HandCards(game[g].hands) \cup CardsIn(game[g].dealer))
      = HandSizes(game[g].hands) + Len(game[g].dealer)

\* A game that is not over can be played to its end: it has a hand to play, every
\* hand before is resolved, and its stake is there to be captured.
GameCanGoOn ==
  \A g \in Played :
    Active(g) =>
      /\ game[g].hands[game[g].active].cards # <<>> /\ ~Resolved(CurrentHand(g))
      /\ \A i \in DOMAIN game[g].hands : i < game[g].active => Resolved(game[g].hands[i])
      /\ game[g].hold = "HELD" /\ wallet.locked >= game[g].amount

\* What a hand returns by the rules of the game.
Returns(hand, dealer) ==
  LET natural == hand.blackjack
      better == \/ HandValue(dealer) > 21
                \/ HandValue(hand.cards) > HandValue(dealer)
                \/ natural /\ ~IsNatural(dealer)
      worse == IsNatural(dealer) /\ ~natural
  IN CASE HandValue(hand.cards) > 21 \/ worse -> 0
       [] HandValue(hand.cards) <= 21 /\ ~worse /\ better ->
            IF natural THEN (hand.stake * 5) \div 2 ELSE 2 * hand.stake
       [] OTHER -> IF HandValue(hand.cards) = HandValue(dealer) THEN hand.stake ELSE 0

RowsOf(g, reason) == {row \in posted : row.game = g /\ row.reason = reason}

\* A game is paid once what the rules give its hands and its insurance (the side
\* bets apart), its whole stake is captured once, unless it was a natural, and
\* its dealer drew to 17 and no further.
SettledOnce ==
  \A g \in Over :
    LET row == game[g]
        dealer == row.dealer
        main == Total([i \in DOMAIN row.hands |-> Returns(row.hands[i], dealer)], DOMAIN row.hands)
        insured == IF IsNatural(dealer) THEN 3 * row.insurance ELSE 0
        sides == row.payout - main - insured
    IN /\ {x.amount : x \in RowsOf(g, "BET_PAYOUT")} = {row.payout} \ {0}
       /\ Cardinality(RowsOf(g, "BET_PAYOUT")) <= 1
       /\ {x.amount : x \in RowsOf(g, "BET_CAPTURE")} =
            IF row.hands[1].blackjack THEN {} ELSE {row.amount}
       /\ sides >= 0 /\ (row.pairs + row.plus3 = 0 => sides = 0)
       /\ HandValue(dealer) >= 17
       /\ Len(dealer) > 2 => HandValue(SubSeq(dealer, 1, Len(dealer) - 1)) < 17
=============================================================================
