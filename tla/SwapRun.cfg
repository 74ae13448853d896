\* The execution of two swaps of one wallet, with an honest and a hostile
\* router.
SPECIFICATION Spec
CONSTANTS
  a = a
  b = b
  r1 = r1
  r2 = r2
  la = la
  eoa = eoa
  NoAddr = NoAddr
  None = None
  Assets = {a, b}
  Routers = {r1, r2}
  Hostile = {r2}
  Launcher = la
  Strangers = {eoa}
  Conditions <- MCIntents
  Intents <- MCIntents
  Pairs <- MCPairs
  Routes <- MCRoutes
  Promises = {1, 2}
  Outputs = {1}
  Timestamps = {1, 2}
  Funds <- MCFunds
  MaxDepth = 2
  MaxHoldings = 1
INVARIANTS
  TypeOK
  TakenOnlyFromStrays
  RestIsKept
  AllowanceOnlyFromStrays
PROPERTY HonestSwapLeavesNothing
