CONSTANTS
  Wallets = {w1}
  Refs = {b1, b2}
  References = {b1, b2}
  Keys = {k1, k2, k3}
  PostingKeys = {k1, k2, k3}
  HoldRequests = {r1, r2}
  Amounts = {1}
  Deltas <- MCDeltas
  BigintMax = 2
  WagerRequired = 0
  NoRef = NoRef
  NoRequest = NoRequest
  NoKey = NoKey
SPECIFICATION HoldsFairSpec
INVARIANTS
  HoldsAddUp
  AnswersMatchLedger
PROPERTIES
  ImplementsHeldFunds
  FinalStatusIsFinal
  RequestsAnswered
