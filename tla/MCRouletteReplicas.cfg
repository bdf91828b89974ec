CONSTANTS
  Wallets = {w1}
  Keys = {k1, k2}
  NoRef = NoRef
  BigintMax = 60
  WagerRequired = 0
  MaxRounds = 2
  Bets = {b1}
  Types = {"RED"}
  Stakes = {1}
  Deltas = {2}
  Wheel = {0, 1}
  Releasable = {b1}
  Replicas = {p1, p2}
  Requests = {r1}
  NoRequest = NoRequest
  NoKey = NoKey
  NoWallet = NoWallet
  NoNumber = NoNumber
SYMMETRY Symmetry
SPECIFICATION Spec
PROPERTIES
  RoundsGoForward
