CONSTANTS
  Games = {g1, g2}
  Keys = {k1, k2, k3}
  NoKey = NoKey
  Requests = {r1, r2}
  Decks <- MCDecks
  Stakes = {2}
  SideBets <- MCSideBets
  MaxBet = 4
  Paytables <- MCPaytables
  Balance = 10
SYMMETRY MCSymmetry
SPECIFICATION Spec
INVARIANTS
  FundsAddUp
  CardsDealtOnce
  GameCanGoOn
  SettledOnce
CHECK_DEADLOCK FALSE
