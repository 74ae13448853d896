\* Whom slash may punish.
SPECIFICATION VaultSpec
CONSTANTS
  b1 = b1
  b2 = b2
  w1 = w1
  reg = reg
  NoAddr = NoAddr
  NoData = NoData
  Contracts = {w1}
  Admin = w1
  Registries = {reg}
  AppIds = {0}
  UserOps = {w1}
  Conditions <- MCConditions
  EOAs = {b1, b2}
  Launchers = {w1}
  OrderIntents = {0, 2}
  Listings <- OpenListings
  Durations = {3}
  Payments = {1}
  CloseFloor = 1
  WinnerDeadline = 1
  WithdrawDelay = 3
  MinimumDeposit = 1
  SlashingAmount = 1
  StartTime = 4
  MaxTime = 8
  MaxIntents = 1
  MaxEther = 2
PROPERTY OnlyDefaultersSlashed
