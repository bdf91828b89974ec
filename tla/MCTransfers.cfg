CONSTANTS
  w1 = w1
  w2 = w2
  f1 = f1
  f2 = f2
  c1 = c1
  Wallets = {w1, w2}
  Keys = {k1}
  Requests = {r1, r2}
  Offered = {"TIP", "LOOK", "JOIN", "RAINTIP", "DEPOSIT", "WITHDRAW", "CLAIM"}
  Amounts = {1}
  Funds = 2
  MaxCalls = 2
  MaxClock = 2
  RainBase = 3
  Joined = {w1, w2}
  Durations = {0, 1, 2}
  VaultUsers = {w1}
  Referrals = {f1, f2}
  Referrer <- MCReferrer
  Wager = 100
  Stakes = {s1}
  Promos = {c1}
  UsageLimit <- MCUsageLimit
  Reward <- MCReward
  BigintMax = 20
  WagerRequired = 0
  NoRef = NoRef
  NoRequest = NoRequest
SPECIFICATION FairSpec
INVARIANTS
  LedgerContinuity
  PayoutsAddUp
  RewardsAddUp
PROPERTIES
  LocksNotShortened
  RequestsAnswered
CHECK_DEADLOCK FALSE
