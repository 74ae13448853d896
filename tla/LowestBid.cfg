\* The lowest-score auction.
SPECIFICATION HistSpec
CONSTANTS
  b1 = b1
  b2 = b2
  w1 = w1
  reg = reg
  NoAddr = NoAddr
  NoData = NoData
  EOAs = {b1, b2}
  Contracts = {w1}
  Admin = w1
  Registries = {reg}
  Launchers = {}
  AppIds = {0}
  Conditions <- MCConditions
  OrderIntents = {0, 1, 2, 3}
  UserOps = {w1}
  Listings <- LowestListings
  Durations = {1}
  Payments = {1}
  CloseFloor = 1
  WinnerDeadline = 1
  WithdrawDelay = 2
  MinimumDeposit = 1
  SlashingAmount = 1
  StartTime = 3
  MaxTime = 5
  MaxIntents = 1
  MaxEther = 1
  MaxBids = 3
INVARIANT LowestBidWins
