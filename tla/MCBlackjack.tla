----------------------------- MODULE MCBlackjack -----------------------------
(***************************************************************************)
(* Two games, which two starts can make run at once, on decks that show    *)
(* each case: naturals of one side and of both, an ace of the dealer with  *)
(* and without the ten, pairs to split, busts, and a 21+3.                 *)
(***************************************************************************)
EXTENDS Blackjack, TLC

Cards(ranks) == [i \in DOMAIN ranks |-> [rank |-> ranks[i], suit |-> i % 4]]

MCDecks == {Cards(ranks) : ranks \in {
  \* the player's natural
  <<1, 13, 9, 7, 5, 10, 2>>,
  \* naturals of both
  <<1, 13, 1, 12, 5, 10, 2>>,
  \* the dealer's natural behind an ace
  <<10, 9, 1, 13, 5, 10, 2>>,
  \* an ace without it, and a pair
  <<8, 8, 1, 6, 3, 13, 10, 4, 7, 9, 11, 11, 12, 12>>,
  \* aces to split
  <<1, 1, 6, 10, 10, 9, 5, 12, 7, 11, 11, 13, 12, 13>>,
  \* a 21+3, a double, a dealer who busts
  <<6, 5, 7, 9, 10, 13, 12, 2, 11, 11, 13, 12, 9, 10>>}}

MCSideBets == {<<0, 0>>, <<1, 1>>}

MCPaytables == {[pairs |-> 11, plus3 |-> 9]}

MCSymmetry == Permutations(Games) \cup Permutations(Keys) \cup Permutations(Requests)
=============================================================================
