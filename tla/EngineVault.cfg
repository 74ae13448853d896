\* The vault: one bidder, one contract, an intent to be slashed for; the
\* deposit that comes back under fairness.
SPECIFICATION FairSpec
CONSTANTS
  b1 = b1
  b2 = b2
  w1 = w1
  reg = reg
  NoAddr = NoAddr
  NoData = NoData
  Contracts = {w1}
  Admin = w1
  Registries = {reg}
  AppIds = {0}
  UserOps = {w1}
  Conditions <- MCConditions
  EOAs = {b1}
  Launchers = {}
  OrderIntents = {2}
  Listings <- OneListing
  Durations = {1}
  Payments = {0, 1, 2}
  CloseFloor = 1
  WinnerDeadline = 1
  WithdrawDelay = 1
  MinimumDeposit = 2
  SlashingAmount = 1
  StartTime = 2
  MaxTime = 5
  MaxIntents = 1
  MaxEther = 3
INVARIANTS
  OrderHasIntent
  Solvent
  LeaderAnswers
PROPERTIES
  DepositOnlyLost
  PayoutArrives
  DepositComesBack
