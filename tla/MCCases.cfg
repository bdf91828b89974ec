CONSTANTS
  Games = {1, 2}
  Seeds = {1, 2, 3}
  Keys = {k1, k2}
  Cells = {a, b, c}
  MineCount = 1
  Bet = 2
  Multiplier <- MCMultiplier
  Balance = 4
  Requests = {r1, r2}
  NoKey = NoKey
  Editions = {1, 2}
  Price <- MCPrice
  Values <- MCValues
SYMMETRY MCSymmetry
SPECIFICATION CasesSpec
INVARIANTS
  BoardsDistinct
  GamesAddUp
PROPERTIES
  OverIsOver
CHECK_DEADLOCK FALSE
