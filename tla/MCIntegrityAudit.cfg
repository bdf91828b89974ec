CONSTANTS
  b1 = b1
  n1 = n1
  n2 = n2
  Wallets = {w1}
  f1 = f1
  Refs = {f1}
  BetIds = {b1}
  References = {f1, b1}
  Deltas <- MCDeltas
  PostingKeys <- MCPostingKeys
  Nonces = {n1, n2}
  Signed <- MCSigned
  Keys = {k1, k2, k3}
  HoldRequests = {h1}
  BetRequests = {q1}
  Amounts = {1}
  Multipliers = {2}
  Scale = 1
  MaxAttempts = 1
  BigintMax = 3
  WagerRequired = 0
  NoRef = NoRef
  NoRequest = NoRequest
  NoKey = NoKey
  NoNonce = NoNonce
  NoWallet = NoWallet
  NoBet = NoBet
SYMMETRY Symmetry
SPECIFICATION AuditSpec
INVARIANTS
  QuietAuditClean
  LiveAuditReliable
  StakesAddUp
PROPERTIES
  PromisesKept
