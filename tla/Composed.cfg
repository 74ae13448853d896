\* Engine and registry together.
SPECIFICATION Spec
CONSTANTS
  b1 = b1
  b2 = b2
  reg = reg
  NoAddr = NoAddr
  NoData = NoData
  EOAs = {b1, b2}
  Contracts = {}
  Admin = b2
  Launchers = {}
  Conditions <- MCConditions
  OrderIntents = {2}
  UserOps = {b2}
  Durations = {2}
  Payments = {1}
  CloseFloor = 1
  WinnerDeadline = 2
  WithdrawDelay = 1
  MinimumDeposit = 1
  SlashingAmount = 1
  MaxIntents = 1
  MaxEther = 1
  Contents <- MCContents
  NoContents <- MCNoContents
  Passes = {0, 1}
  UpdateDelay = 1
  MaxApps = 1
  StartTime = 2
  MaxTime = 3
  Registry = reg
  NamedApps = {0}
  RegistryCallers = {b2}
INVARIANTS
  WinnerAdmitted
  BidAfterReview
