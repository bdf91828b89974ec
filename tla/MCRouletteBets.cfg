CONSTANTS
  Wallets = {w1}
  Keys = {k1, k2, k3}
  NoRef = NoRef
  BigintMax = 60
  WagerRequired = 0
  MaxRounds = 1
  Bets = {b1, b2}
  Types = {"RED", "GREEN"}
  Stakes = {1}
  Deltas = {2}
  Wheel = {0}
  Releasable = {b1, b2}
  Replicas = {p1}
  Requests = {r1, r2}
  NoRequest = NoRequest
  NoKey = NoKey
  NoWallet = NoWallet
  NoNumber = NoNumber
SYMMETRY Symmetry
SPECIFICATION Spec
INVARIANTS
  RoundsAddUp
  StakesAddUp
  LedgerTellsBets
