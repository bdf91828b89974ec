CONSTANTS
  b1 = b1
  b2 = b2
  n1 = n1
  n2 = n2
  Wallets = {w1}
  BetIds = {b1, b2}
  Nonces = {n1, n2}
  Signed <- MCSigned
  k1 = k1
  k2 = k2
  Keys <- MCKeys
  References = {b1, b2}
  PostingKeys <- MCPostingKeys
  BetRequests = {r1, r2}
  Amounts = {1, 2}
  Deltas <- MCDeltas
  Multipliers = {1}
  Scale = 2
  MaxAttempts = 2
  BigintMax = 2
  WagerRequired = 0
  NoRef = NoRef
  NoKey = NoKey
  NoNonce = NoNonce
  NoWallet = NoWallet
  NoBet = NoBet
SYMMETRY Symmetry
SPECIFICATION BetsSpec
INVARIANTS
  MoneyAddsUp
  BetsSettleOnce
  AnswersAgree
PROPERTIES
  SettledIsFinal
  ImplementsPlacedBets
