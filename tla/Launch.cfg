\* The way from a won auction to the AppLauncher.
SPECIFICATION LaunchSpec
CONSTANTS
  b1 = b1
  w1 = w1
  la = la
  reg = reg
  NoAddr = NoAddr
  NoData = NoData
  EOAs = {b1}
  Contracts = {w1, la}
  Launcher = la
  Launchers = {la, w1}
  Admin = b1
  Registries = {reg}
  AppIds = {0}
  Conditions <- MCConditions
  OrderIntents = {2}
  UserOps <- MCUserOps
  Listings <- MCListings
  Durations = {1}
  Payments = {1}
  CloseFloor = 1
  WinnerDeadline = 1
  WithdrawDelay = 2
  MinimumDeposit = 1
  SlashingAmount = 1
  StartTime = 3
  MaxTime = 5
  MaxIntents = 1
  MaxEther = 1
  MaxNonce = 2
PROPERTY ExecutedByOthersOnly
