CONSTANTS
  w1 = w1
  p1 = p1
  Wallets = {w1}
  Keys = {k1}
  Promos = {}
  UsageLimit <- MCUsageLimit
  Reward <- MCReward
  Requests = {r1, r2}
  Payments = {p1}
  Payee <- MCPayee
  Amounts = {20}
  OtherKeys <- MCOtherKeys
  Stakes = {1}
  MaxStakes = 1
  MaxFailures = 1
  BigintMax = 100
  WagerRequired = 0
  NoRef = NoRef
SPECIFICATION FairSpec
INVARIANTS
  OnePayout
  WithdrawalAccounted
  DepositsAddUp
PROPERTIES
  CreditedStays
  PaymentsCredited
