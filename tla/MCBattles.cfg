CONSTANTS
  c = c
  Users = {c, u1, u2}
  Creator = c
  NoUser = NoUser
  Seats = {0, 1, 2}
  Team <- MCTeam
  ShareNumerator = 100
  Modes = {"TEAM", "GROUP"}
  Percents = {100}
  CasesPrice = 1
  StartingFunds = 1
  MaxFunds = 20
  BattleCalls = {r1, r2}
  MaxFailures = 1
SPECIFICATION FairSpec
INVARIANTS
  FundsAddUp
  SeatPaidOnce
  StakesSettled
PROPERTIES
  FullBattleSettles
CHECK_DEADLOCK FALSE
